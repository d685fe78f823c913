------------------------- MODULE BillingExpression -------------------------
(***************************************************************************)
(* How a NewAPI billing expression becomes a price per token or per        *)
(* request (internal/pricing/expr.go): the tier that stands for the        *)
(* standard price is picked, and a recursive-descent parser reduces its    *)
(* body to a constant, one coefficient per variable, or fixed(N).          *)
(*                                                                         *)
(* Expressions has the tokens and the actions that write them.  Amounts    *)
(* are fractions, where the code has floats: no rounding.                  *)
(***************************************************************************)
EXTENDS Expressions, FiniteSetsExt

Fraction == Int \X (Nat \ {0})
Whole(n) == <<n, 1>>
Plus(a, b) == <<a[1] * b[2] + b[1] * a[2], a[2] * b[2]>>
Times(a, b) == <<a[1] * b[1], a[2] * b[2]>>
Minus(a, b) == Plus(a, Times(b, Whole(-1)))
Reciprocal(b) == IF b[1] > 0 THEN <<b[2], b[1]>> ELSE <<-b[2], -b[1]>>
Quotient(a, b) == IF b[1] = 0 THEN Whole(0) ELSE Times(a, Reciprocal(b))
Same(a, b) == a[1] * b[2] = b[1] * a[2]

-----------------------------------------------------------------------------
(* linearValue, and the parser with the position it has reached.           *)

\* What an identifier can be: fixed without a call is a variable, too.
Names == Variables \cup {"fixed"}
\* A nil pointer, and what a map does not have: no fraction.
Nil == <<0, 0>>
Values == [constant : Fraction, coefficients : [Names -> Fraction \cup {Nil}],
           fixed : Fraction \cup {Nil}]

Constant(n) == [constant |-> Whole(n), coefficients |-> [v \in Names |-> Nil], fixed |-> Nil]
Variable(v) == [Constant(0) EXCEPT !.coefficients[v] = Whole(1)]
Pure(value) == \A v \in Names : value.coefficients[v] = Nil
Coefficient(value, v) ==
    IF value.coefficients[v] = Nil THEN Whole(0) ELSE value.coefficients[v]

Fails == [ok |-> FALSE]
Parsed(value, pos) == [ok |-> TRUE, value |-> value, pos |-> pos]
Peek(t, pos) == IF pos <= Len(t) THEN t[pos] ELSE "end"

ScaleLinear(value, factor) ==
    [constant |-> Times(value.constant, factor),
     coefficients |-> [v \in Names |-> IF value.coefficients[v] = Nil THEN Nil
                                       ELSE Times(value.coefficients[v], factor)],
     fixed |-> value.fixed]

\* A difference subtracts the constants, but adds the coefficients.
CombineSum(left, right, op) ==
    [constant |-> IF op = "+" THEN Plus(left.constant, right.constant)
                              ELSE Minus(left.constant, right.constant),
     coefficients |-> [v \in Names |->
                          IF left.coefficients[v] = Nil /\ right.coefficients[v] = Nil
                          THEN Nil ELSE Plus(Coefficient(left, v), Coefficient(right, v))],
     fixed |-> Nil]

\* Variant: a term may be divided by a variable's constant part.
LinearUnchecked(left, right, op) ==
    /\ left.fixed = Nil /\ right.fixed = Nil
    /\ IF op = "/" THEN right.constant[1] # 0 ELSE Pure(left) \/ Pure(right)

\* combineTerm: the products and quotients that stay linear.
Linear(left, right, op) ==
    /\ left.fixed = Nil /\ right.fixed = Nil
    /\ IF op = "/" THEN Pure(right) /\ right.constant[1] # 0
                   ELSE Pure(left) \/ Pure(right)

CombineTerm(left, right, op) ==
    IF op = "/" THEN ScaleLinear(left, Reciprocal(right.constant))
    ELSE IF Pure(left) THEN ScaleLinear(right, left.constant)
    ELSE ScaleLinear(left, right.constant)

-----------------------------------------------------------------------------
(* The parser's procedures, given what each call of one of them returns:   *)
(* the loops of parseTerm and parseExpression are calls with what they     *)
(* have on the left.                                                       *)

Calls(t) == ({"unary", "term", "expression"} \X (1..Len(t) + 1))
            \cup ({"product", "sum"} \X [ok : {TRUE}, value : Values, pos : 1..Len(t) + 1])

ParseFunctionCall(t, pos) ==
    IF /\ t[pos] = "fixed"
       /\ Peek(t, pos + 2) \in DOMAIN Number
       /\ Peek(t, pos + 3) = ")"
    THEN Parsed([Constant(0) EXCEPT !.fixed = Whole(Number[t[pos + 2]])], pos + 4)
    ELSE Fails

ParseAtom(t, pos, returned) ==
    LET token == Peek(t, pos)
    IN  CASE token \in DOMAIN Number -> Parsed(Constant(Number[token]), pos + 1)
          [] token \in Names ->
                IF Peek(t, pos + 1) = "(" THEN ParseFunctionCall(t, pos)
                ELSE Parsed(Variable(token), pos + 1)
          [] token = "(" ->
                LET inner == returned[<<"expression", pos + 1>>]
                IN  IF inner.ok /\ Peek(t, inner.pos) = ")"
                    THEN Parsed(inner.value, inner.pos + 1) ELSE Fails
          [] OTHER -> Fails

ParseUnary(t, pos, returned) ==
    IF Peek(t, pos) \notin {"+", "-"} THEN ParseAtom(t, pos, returned)
    ELSE LET operand == returned[<<"unary", pos + 1>>]
         IN  IF t[pos] = "+" \/ ~operand.ok THEN operand
             ELSE IF operand.value.fixed # Nil THEN Fails
             ELSE Parsed(ScaleLinear(operand.value, Whole(-1)), operand.pos)

Product(t, left, returned) ==
    IF Peek(t, left.pos) \notin {"*", "/"} THEN left
    ELSE LET right == returned[<<"unary", left.pos + 1>>]
             op == t[left.pos]
         IN  IF right.ok /\ Linear(left.value, right.value, op)
             THEN returned[<<"product",
                             Parsed(CombineTerm(left.value, right.value, op), right.pos)>>]
             ELSE Fails
ParseTerm(pos, returned) ==
    LET first == returned[<<"unary", pos>>]
    IN  IF first.ok THEN returned[<<"product", first>>] ELSE Fails

Sum(t, left, returned) ==
    IF Peek(t, left.pos) \notin {"+", "-"} THEN left
    ELSE LET right == returned[<<"term", left.pos + 1>>]
             op == t[left.pos]
         IN  IF right.ok /\ left.value.fixed = Nil /\ right.value.fixed = Nil
             THEN returned[<<"sum",
                             Parsed(CombineSum(left.value, right.value, op), right.pos)>>]
             ELSE Fails
ParseExpression(pos, returned) ==
    LET first == returned[<<"term", pos>>]
    IN  IF first.ok THEN returned[<<"sum", first>>] ELSE Fails

Perform(t, call, returned) ==
    CASE call[1] = "unary" -> ParseUnary(t, call[2], returned)
      [] call[1] = "product" -> Product(t, call[2], returned)
      [] call[1] = "term" -> ParseTerm(call[2], returned)
      [] call[1] = "sum" -> Sum(t, call[2], returned)
      [] call[1] = "expression" -> ParseExpression(call[2], returned)

ParseLinearExpression(t) ==
    LET returned[call \in Calls(t)] == Perform(t, call, returned)
        all == returned[<<"expression", 1>>]
    IN  IF all.ok /\ all.pos = Len(t) + 1 THEN all ELSE Fails

-----------------------------------------------------------------------------
(* The tier and the price.                                                 *)

\* The rules by which parseBillingExpression takes a price per token.
IsPerToken(parse) ==
    /\ parse.ok
    /\ parse.value.fixed = Nil /\ parse.value.constant[1] = 0
    /\ \E v \in Variables : Coefficient(parse.value, v)[1] # 0
    /\ \A v \in Names : Coefficient(parse.value, v)[1] >= 0

TiersNamed(name) == {i \in DOMAIN tiers : tiers[i].name = name}
PerTokenTiers == {i \in DOMAIN tiers : IsPerToken(ParseLinearExpression(tiers[i].body))}

PickTierBody ==
    LET preferred == CASE TiersNamed("base") # {} -> TiersNamed("base")
                       [] TiersNamed("base") = {} /\ TiersNamed("standard") # {} ->
                             TiersNamed("standard")
                       [] OTHER -> PerTokenTiers
    IN  IF tiers = <<>> THEN text
        ELSE tiers[IF preferred = {} THEN 1 ELSE Min(preferred)].body

NoQuote == [kind |-> "none"]

\* What the body of the picked tier costs.
PriceOf(body) ==
    LET parse == ParseLinearExpression(body)
    IN  IF /\ parse.ok /\ parse.value.fixed # Nil /\ Pure(parse.value)
        THEN [kind |-> "perRequest", fixed |-> parse.value.fixed]
        ELSE IF IsPerToken(parse)
        THEN [kind |-> "perToken", coefficients |-> parse.value.coefficients]
        ELSE NoQuote
ParseBillingExpression == PriceOf(PickTierBody)

-----------------------------------------------------------------------------
(* What an expression is worth, evaluated where it splits last instead of  *)
(* reduced from the left: the reference for the parser.  A segment <<a, b>> *)
(* has the tokens from a on that come before b.                            *)

Segments(t) == (1..Len(t) + 1) \X (1..Len(t) + 1)

Depth(t, i) == Cardinality({j \in 1..i : t[j] = "("}) - Cardinality({j \in 1..i : t[j] = ")"})
Binary(t, s, ops) ==
    {i \in s[1] + 1..s[2] - 1 : /\ t[i] \in ops
                                /\ t[i - 1] \notin {"+", "-", "*", "/", "("}
                                /\ Depth(t, i) = Depth(t, s[1] - 1)}

\* What a segment is worth, given what each shorter one is.
Evaluate(t, env, s, worth) ==
    LET sums == Binary(t, s, {"+", "-"})
        products == Binary(t, s, {"*", "/"})
        at == IF sums # {} THEN Max(sums) ELSE Max(products)
        left == worth[<<s[1], at>>]
        right == worth[<<at + 1, s[2]>>]
        first == t[s[1]]
    IN  CASE s[1] >= s[2] -> Whole(0)
          [] s[1] < s[2] /\ sums # {} ->
                IF t[at] = "+" THEN Plus(left, right) ELSE Minus(left, right)
          [] s[1] < s[2] /\ sums = {} /\ products # {} ->
                IF t[at] = "*" THEN Times(left, right) ELSE Quotient(left, right)
          [] OTHER ->
                CASE first = "-" -> Minus(Whole(0), worth[<<s[1] + 1, s[2]>>])
                  [] first = "+" -> worth[<<s[1] + 1, s[2]>>]
                  [] first = "(" -> worth[<<s[1] + 1, s[2] - 1>>]
                  [] first \in DOMAIN Number -> Whole(Number[first])
                  [] first \in Names -> env[first]
                  [] OTHER -> Whole(0)

Value(t, env) ==
    LET worth[s \in Segments(t)] == Evaluate(t, env, s, worth)
    IN  worth[<<1, Len(t) + 1>>]

\* A difference comes before a variable: where CombineSum goes wrong.
Subtracts(t) == \E i, j \in 1..Len(t) : i < j /\ t[i] = "-" /\ t[j] \in Names

\* What a linear value is worth.
Worth(value, env) ==
    Plus(Plus(value.constant, Times(Coefficient(value, "p"), env["p"])),
         Plus(Times(Coefficient(value, "c"), env["c"]),
              Times(Coefficient(value, "fixed"), env["fixed"])))

\* What a quote per token asks for.
Asked(coefficients, env) == Worth([Constant(0) EXCEPT !.coefficients = coefficients], env)

Environments == [Names -> {Whole(1), Whole(3)}]

\* The expression, or the tier that may stand for it, has this price, for every
\* number of tokens; and a named standard tier is never passed over.
Stands(body) ==
    IF tiers = <<>> THEN body = text
    ELSE \E i \in DOMAIN tiers :
            /\ body = tiers[i].body
            /\ \A j \in DOMAIN tiers :
                  /\ tiers[j].name = "base" => tiers[i].name = "base"
                  /\ tiers[j].name = "standard" => tiers[i].name \in {"base", "standard"}

CorrectFor(body, quote) ==
    CASE quote.kind = "none" -> TRUE
      [] quote.kind = "perRequest" -> \E i \in DOMAIN body : body[i] = "fixed"
      [] quote.kind = "perToken" ->
            \A env \in Environments : Same(Value(body, env), Asked(quote.coefficients, env))

\* "No price is strictly better than a wrong price" (docs/decisions/0002): what
\* the parser accepts is worth, for any number of tokens, what the picked tier
\* evaluates to, at any nesting and precedence; unless a term with a variable
\* is subtracted.
QuoteIsTheTiersPrice ==
    \A body \in {PickTierBody} :
        Stands(body) /\ (Subtracts(body) \/ CorrectFor(body, PriceOf(body)))

\* docs/decisions/0002-billing-expression-pricing.md: the body is reduced to
\* linear coefficients, "supporting + - * /".
QuoteIsExact == \A body \in {PickTierBody} : CorrectFor(body, PriceOf(body))
=============================================================================
