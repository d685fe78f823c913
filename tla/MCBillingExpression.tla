------------------------ MODULE MCBillingExpression ------------------------
(* Expressions of up to seven tokens with no more than a single tier.      *)
EXTENDS BillingExpression
=============================================================================
