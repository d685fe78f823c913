------------------------------ MODULE Sources ------------------------------
(* What sources and users bring: four components of the server that share  *)
(* no variable.  A behaviour is one of any of them, with the others in an  *)
(* initial state.                                                          *)
EXTENDS Sessions, Expressions, Quotes, WishPool

VARIABLE part
parts == <<part, vars, exprVars, quoteVars, poolVars>>

SourcesInit ==
    /\ part \in {"sessions", "expression", "quotes", "pool"}
    /\ Init /\ ExprInit /\ QuotesInit /\ PoolInit
    /\ part # "sessions" => required = [s \in Sites |-> FALSE]
    /\ part # "expression" => text = <<"0">>
    /\ part # "quotes" => observed = {Default}
    /\ part # "pool" => members = {}

StepSessions == part = "sessions" /\ Next /\ UNCHANGED <<exprVars, quoteVars, poolVars>>
StepExpression == part = "expression" /\ ExprNext /\ UNCHANGED <<vars, quoteVars, poolVars>>
StepQuotes == part = "quotes" /\ QuotesNext /\ UNCHANGED <<vars, exprVars, poolVars>>
StepPool == part = "pool" /\ PoolNext /\ UNCHANGED <<vars, exprVars, quoteVars>>

SourcesNext ==
    /\ part' = part
    /\ \/ StepSessions \/ StepExpression
       \/ StepQuotes \/ StepPool

SourcesSpec == SourcesInit /\ [][SourcesNext]_parts

\* The values all of these components can ever hold.
SourcesTypeOK == TypeOK /\ ExprTypeOK /\ QuotesTypeOK /\ PoolTypeOK
=============================================================================
