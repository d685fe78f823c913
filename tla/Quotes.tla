------------------------------- MODULE Quotes -------------------------------
(***************************************************************************)
(* One model's way from a price list to what pages and machines read:      *)
(* decoded into quotes per group (internal/pricing), laid over the groups  *)
(* the monitor observed (internal/adapter/pricing.go), stored as JSON      *)
(* beside them, and read back by the dashboard (PriceFromExtensions) and   *)
(* by the routing interface (store/routing_observations.go).               *)
(*                                                                         *)
(* Amounts are small integers; Absent stands for a field that is missing   *)
(* or no number.  Cache prices, symbols and protocols are left out.        *)
(***************************************************************************)
EXTENDS Integers, Sequences, SequencesExt, FiniteSetsExt

CONSTANTS
    PriceGroups,    \* groups of the price list
    Default,        \* the group of a monitor that knows none
    MaxItems        \* bound on the items of a direct price list

ASSUME QuotesAssumption ==
    Default \notin PriceGroups /\ IsFiniteSet(PriceGroups) /\ MaxItems \in Nat

VARIABLES
    prices,         \* the price list and the status of the source
    observed,       \* the groups the monitor observed
    modelPrice,     \* raw_models.source_extension
    groupRows       \* site_groups.source_extension per group stored
quoteVars == <<prices, observed, modelPrice, groupRows>>

Absent == -1
NotStored == [mode |-> "none"]
Groups == PriceGroups \cup {Default}

Statuses ==
    [unit : {"USD", "CNY", "CUSTOM"}, custom : {Absent, 0, 7}, other : {Absent, 5},
     perUnit : {0, 2}, trusted : BOOLEAN]
NoStatus == [unit |-> "", custom |-> Absent, other |-> Absent, perUnit |-> 0, trusted |-> FALSE]

\* billing: what quota_type, billing_mode and billing_expr say.
ModelsOf(billing, ratio, completion, price) ==
    [billing : billing, ratio : ratio, completion : completion, price : price,
     groups : SUBSET PriceGroups, ratios : [PriceGroups -> {Absent, 0, 2}]]
Expressions == {"coefficients", "fixedTier", "irreducible"}
Models == ModelsOf({"ratio", "undeclared"}, {Absent, 3}, {Absent, 0, 2}, {Absent})
          \cup ModelsOf(Expressions, {3}, {Absent}, {Absent})
          \cup ModelsOf({"fixed"}, {Absent}, {Absent}, {Absent, 4})

ItemsOf(mode, input, output, perRequest, imageRate) ==
    [group : PriceGroups, mode : {mode}, input : input, output : output,
     perRequest : perRequest, rate : {Absent, 2}, imageRate : imageRate,
     independent : IF mode = "image" THEN BOOLEAN ELSE {FALSE}]
Items == ItemsOf("token", {Absent, 3}, {Absent, 2}, {Absent}, {Absent})
         \cup ItemsOf("request", {Absent}, {Absent}, {Absent, 4}, {Absent})
         \cup ItemsOf("image", {Absent}, {Absent}, {Absent, 4}, {Absent, 3})

-----------------------------------------------------------------------------
(* The quotes of a group.                                                  *)

NoQuoteOf(mode) == [available |-> FALSE, mode |-> mode,
                    input |-> Absent, output |-> Absent, fixed |-> Absent]
PerRequest(amount) ==
    [available |-> amount # Absent, mode |-> "fixed",
     input |-> Absent, output |-> Absent, fixed |-> amount]
PerToken(in, out) ==
    [available |-> in # Absent \/ out # Absent, mode |-> "ratio",
     input |-> in, output |-> out, fixed |-> Absent]
Scaled(amount, factor) == IF amount = Absent THEN Absent ELSE amount * factor

\* The first of the two rates that is a number, if it is positive.
DecodeRate(status) ==
    LET first == IF status.custom # Absent THEN status.custom ELSE status.other
    IN  IF first > 0 THEN first ELSE 1

\* NewAPIDecoder.Decode, for one model: the extension before it is stored.
DecodeModel(model, status) ==
    [mode |-> IF model.billing \in {"fixed", "fixedTier"} THEN "fixed" ELSE "ratio",
     expression |-> model.billing \in Expressions,
     coefficients |-> model.billing = "coefficients",
     price |-> IF model.billing = "fixedTier" THEN 1 ELSE model.price,
     ratio |-> model.ratio, completion |-> model.completion, perUnit |-> status.perUnit,
     multipliers |-> [g \in IF model.groups = {} THEN {Default} ELSE model.groups |->
                        IF g = Default \/ model.ratios[g] = Absent THEN 1 ELSE model.ratios[g]],
     rate |-> DecodeRate(status)]

\* modelExchangeRate
RateOf(m) == IF m.rate > 0 THEN m.rate ELSE 1

DisplayPrice(m, g) ==
    LET factor == m.multipliers[g] * RateOf(m)
        input == m.ratio * m.perUnit * factor
    IN  IF m.mode = "fixed" THEN PerRequest(Scaled(m.price, factor))
        ELSE IF m.expression
        THEN IF m.coefficients THEN PerToken(2 * factor, 8 * factor) ELSE NoQuoteOf("ratio")
        ELSE IF m.ratio = Absent \/ m.perUnit <= 0 THEN NoQuoteOf("ratio")
        ELSE PerToken(input, IF m.completion > 0 THEN input * m.completion ELSE input)

PricesForModel(m) == [g \in DOMAIN m.multipliers |-> DisplayPrice(m, g)]

\* Variant: the expression does not stop the ratios from being evidence.
EvidenceOfRatios(model, status) ==
    IF \/ ~status.trusted \/ model.billing \notin {"ratio"} \cup Expressions
       \/ status.unit \notin {"USD", "CNY"}
       \/ model.ratio = Absent \/ status.perUnit <= 0
       \/ status.custom = 0 \/ (status.custom = Absent /\ status.unit # "USD")
    THEN <<>>
    ELSE LET rate == IF status.custom = Absent THEN 1 ELSE status.custom
             Input(g) == model.ratio * status.perUnit * model.ratios[g] * rate
         IN  [g \in {h \in model.groups : model.ratios[h] # Absent} |->
                [input |-> Input(g), output |-> Scaled(model.completion, Input(g))]]

\* newAPIRoutingPrices: prices a machine may act on; nothing is defaulted.
RoutingPrices(model, status) ==
    IF \/ ~status.trusted \/ model.billing # "ratio"
       \/ status.unit \notin {"USD", "CNY"}
       \/ model.ratio = Absent \/ status.perUnit <= 0
       \/ status.custom = 0 \/ (status.custom = Absent /\ status.unit # "USD")
    THEN <<>>
    ELSE LET rate == IF status.custom = Absent THEN 1 ELSE status.custom
             Input(g) == model.ratio * status.perUnit * model.ratios[g] * rate
         IN  [g \in {h \in model.groups : model.ratios[h] # Absent} |->
                [input |-> Input(g), output |-> Scaled(model.completion, Input(g))]]

ComparableAmount(q) ==
    IF q.fixed # Absent THEN q.fixed ELSE IF q.input # Absent THEN q.input ELSE 0

\* The first available quote that no later one is below.
Lower(best, q) ==
    IF q.available /\ (~best.available \/ ComparableAmount(q) < ComparableAmount(best))
    THEN q ELSE best
LowestAvailable(quotes) ==
    LET lowest[n \in 0..Len(quotes)] ==
            IF n = 0 THEN NoQuoteOf("none") ELSE Lower(lowest[n - 1], quotes[n])
    IN  lowest[Len(quotes)]

\* model-market and model-plaza: quotes that need only their multiplier.
ItemQuote(item) ==
    LET rate == IF item.independent THEN item.imageRate ELSE item.rate
        factor == IF rate = Absent THEN 1 ELSE rate
    IN  IF item.mode = "token"
        THEN PerToken(Scaled(item.input, factor), Scaled(item.output, factor))
        ELSE PerRequest(Scaled(item.perRequest, factor))

\* A quote for a group that has one already: the lower stays, and the first when
\* neither is available.
WithItem(quotes, item) ==
    [g \in DOMAIN quotes \cup {item.group} |->
        IF g # item.group THEN quotes[g]
        ELSE IF g \notin DOMAIN quotes THEN ItemQuote(item)
        ELSE LET best == LowestAvailable(<<quotes[g], ItemQuote(item)>>)
             IN  IF best.available THEN best ELSE quotes[g]]
DirectPrices(items) ==
    LET decoded[n \in 0..Len(items)] ==
            IF n = 0 THEN <<>> ELSE WithItem(decoded[n - 1], items[n])
    IN  decoded[Len(items)]

-----------------------------------------------------------------------------
(* The price list and the collection.                                      *)

NotFetched == [decoder |-> "none"]

QuotesInit ==
    /\ prices = NotFetched
    /\ observed \in {{Default}} \cup (SUBSET PriceGroups \ {{}})
    /\ modelPrice = NotStored /\ groupRows = <<>>

PublishRatios ==
    /\ prices = NotFetched
    /\ \E model \in Models, status \in Statuses \cup {NoStatus} :
           prices' = [decoder |-> "newapi", model |-> model, status |-> status]
    /\ UNCHANGED <<observed, modelPrice, groupRows>>

PublishItem ==
    /\ prices.decoder # "newapi"
    /\ groupRows = <<>>
    /\ \E item \in Items :
           \/ prices = NotFetched /\ prices' = [decoder |-> "direct", items |-> <<item>>]
           \/ /\ prices # NotFetched /\ Len(prices.items) < MaxItems
              /\ prices' = [prices EXCEPT !.items = Append(@, item)]
    /\ UNCHANGED <<observed, modelPrice, groupRows>>

\* The decoded list: quotes per group, evidence per group, the model's extension.
GroupPrices ==
    CASE prices.decoder = "newapi" -> PricesForModel(DecodeModel(prices.model, prices.status))
      [] prices.decoder = "direct" -> DirectPrices(prices.items)
      [] OTHER -> <<>>
Evidence ==
    IF prices.decoder = "newapi" THEN RoutingPrices(prices.model, prices.status) ELSE <<>>
NoEvidence == [input |-> Absent, output |-> Absent]

\* A monitor that knows no groups has its one observation copied to each group
\* with a price.
StoredGroups ==
    IF observed = {Default} /\ Default \notin DOMAIN GroupPrices /\ DOMAIN GroupPrices # {}
    THEN DOMAIN GroupPrices ELSE observed

\* What applyPricingCatalog makes of a group and of the model.  ExchangeRate
\* and RoutingPrice are not written into the JSON (json:"-").
RowOf(g) ==
    [price |-> IF g \in DOMAIN GroupPrices THEN GroupPrices[g] ELSE NotStored,
     evidence |-> IF g \in DOMAIN GroupPrices \cap DOMAIN Evidence
                  THEN Evidence[g] ELSE NoEvidence,
     known |-> g # Default \/ g \in DOMAIN GroupPrices \cap DOMAIN Evidence]
Extension ==
    IF prices.decoder = "newapi"
    THEN [DecodeModel(prices.model, prices.status) EXCEPT !.rate = 0] ELSE NotStored

\* applyPricingCatalog and the writes of the collection.
Collect ==
    /\ groupRows = <<>>
    /\ groupRows' = [g \in StoredGroups |-> RowOf(g)]
    /\ modelPrice' = Extension
    /\ UNCHANGED <<prices, observed>>

QuotesNext == PublishRatios \/ PublishItem \/ Collect
QuotesSpec == QuotesInit /\ [][QuotesNext]_quoteVars

-----------------------------------------------------------------------------
(* What is read.                                                           *)

\* PriceFromExtensions: the group's own quote, or the lowest of the model's.
Shown(g) ==
    IF groupRows[g].price # NotStored THEN groupRows[g].price
    ELSE IF modelPrice = NotStored THEN NoQuoteOf("none")
    ELSE LowestAvailable(SetToSeq({DisplayPrice(modelPrice, h) :
                                      h \in DOMAIN modelPrice.multipliers}))

\* readRoutingRows: a group that is not known carries no price.
Observations ==
    [g \in DOMAIN groupRows |-> IF groupRows[g].known THEN groupRows[g].evidence ELSE NoEvidence]

QuotesTypeOK ==
    /\ observed \in SUBSET Groups
    /\ DOMAIN groupRows \subseteq Groups
    /\ \A g \in DOMAIN groupRows :
          groupRows[g].evidence.input \in {Absent} \cup Nat /\ groupRows[g].known \in BOOLEAN

-----------------------------------------------------------------------------
(* Properties.                                                             *)

\* Pages read the exchange rate under either name, machines under the first only.
RateOfPagesOnly == IF prices.status.custom = Absent THEN DecodeRate(prices.status) ELSE 1

\* The page and the routing interface read the price list by two decoders that
\* share nothing: wherever a machine gets a price, the page shows that group the
\* same, with two differences.  A rate that stands only under its other name
\* multiplies the page's price and not the machine's.  And where the machine is
\* told that output costs nothing, or not what it costs, the page shows the price
\* of input: a completion ratio of zero, or none, counts as one there.
EvidenceMatchesQuote ==
    \A g \in DOMAIN groupRows :
        LET e == Observations[g]
            pageOutput == IF e.output > 0 THEN e.output ELSE e.input
        IN  e # NoEvidence =>
                /\ Shown(g).available
                /\ Shown(g).input = e.input * RateOfPagesOnly
                /\ Shown(g).output = pageOutput * RateOfPagesOnly

\* A group that has no price of its own shows the lowest of the model's groups,
\* which had their prices converted; this one is not, as the rate is not stored.
FallbackIsLowest ==
    LET rate == DecodeRate(prices.status)
    IN  \A g \in DOMAIN groupRows \ DOMAIN GroupPrices :
            Shown(g).available =>
                /\ \A h \in DOMAIN GroupPrices : GroupPrices[h].available =>
                        ComparableAmount(Shown(g)) * rate <= ComparableAmount(GroupPrices[h])
                /\ \E h \in DOMAIN GroupPrices :
                        /\ GroupPrices[h].available
                        /\ ComparableAmount(Shown(g)) * rate = ComparableAmount(GroupPrices[h])

\* Of the items that name one group the cheapest is kept, in whatever order they
\* come; items with only an output price count as free.
CheapestItemKept ==
    prices.decoder = "direct" =>
        \A i \in DOMAIN prices.items :
            LET item == ItemQuote(prices.items[i])
                kept == GroupPrices[prices.items[i].group]
            IN  item.available => kept.available /\ ComparableAmount(kept) <= ComparableAmount(item)

\* What pages and machines are told of a price comes from one price list and
\* agrees, up to the differences named above.
QuotesAgree ==
    /\ prices.decoder = "newapi" => EvidenceMatchesQuote /\ FallbackIsLowest
    /\ CheapestItemKept
=============================================================================
