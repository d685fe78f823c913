---------------------------- MODULE Expressions ----------------------------
(***************************************************************************)
(* Billing expressions as sources write them: sequences of tokens, one of  *)
(* them or one per tier() call.  What the server makes of them is in       *)
(* BillingExpression, which has no state besides.                          *)
(***************************************************************************)
EXTENDS Integers, Sequences, SequencesExt

CONSTANTS
    TierNames,      \* names a tier may have besides "base" and "standard"
    MaxTokens,      \* bound on an expression
    MaxBody,        \* bound on the body of a tier
    MaxTiers        \* bound on the tiers

\* Every atom fits.
ASSUME ExpressionAssumption == {MaxTokens, MaxBody, MaxTiers} \subseteq Nat \ {0} /\ MaxTokens >= 4

VARIABLES
    text,           \* the expression, or what follows its tiers
    tiers           \* the tier() calls in it
exprVars == <<text, tiers>>

Variables == {"p", "c"}
Number == [n \in {"0", "2"} |-> IF n = "0" THEN 0 ELSE 2]
Token == Variables \cup DOMAIN Number \cup {"+", "-", "*", "/", "(", ")", "fixed"}
TypeOfTier == [name : TierNames \cup {"base", "standard"}, body : Seq(Token)]

ExprTypeOK ==
    /\ text \in Seq(Token) /\ Len(text) <= MaxTokens
    /\ tiers \in Seq(TypeOfTier) /\ Len(tiers) <= MaxTiers

-----------------------------------------------------------------------------
(* Writing expressions.                                                    *)

Atoms == {<<"0">>, <<"2">>, <<"p">>, <<"c">>, <<"fixed", "(", "2", ")">>}
Operators == {"+", "-", "*", "/"}

ExprInit == text \in Atoms /\ tiers = <<>>

Write(t) == /\ Len(t) \in 1..MaxTokens
            /\ text' = t
            /\ UNCHANGED tiers

Continue == \E a \in Atoms, op \in Operators : Write(text \o <<op>> \o a)
Precede == \E a \in Atoms, op \in Operators : Write(a \o <<op>> \o text)
Enclose == Write(<<"(">> \o text \o <<")">>)
Negate == Write(<<"-">> \o text)
\* A token is missing.
Truncate == Len(text) <= MaxBody /\ (Write(Front(text)) \/ Write(Tail(text)))

CloseTier ==
    /\ Len(tiers) < MaxTiers
    /\ Len(text) <= MaxBody \/ text \in Atoms
    /\ \E n \in TierNames \cup {"base", "standard"} :
           tiers' = Append(tiers, [name |-> n, body |-> text])
    /\ text' = <<"p">>

ExprNext ==
    \/ tiers = <<>> /\ (Continue \/ Precede \/ Enclose \/ Negate \/ Truncate)
    \/ Len(tiers) \in 1..MaxTiers - 1 /\ Len(text) = 1 /\ Continue
    \/ CloseTier

ExprSpec == ExprInit /\ [][ExprNext]_exprVars
=============================================================================
