SPECIFICATION SourcesSpec
CONSTANTS
    Sites = {s1}
    Importers = {i1}
    Switch = {TRUE}
    MaxToken = 3
    MaxFaults = 1
    None = None
    TierNames = {"other"}
    MaxTokens = 7
    MaxBody = 3
    MaxTiers = 2
    PriceGroups = {g1, g2}
    Default = default
    MaxItems = 2
    Users = {u1}
    Domains = {d1}
    MaxPledge = 2
    Clients = {h1, h2}
    MaxWish = 1
    MaxAmount = 2
    MaxMonth = 2
    Goals = {2}
    Grants = {1}
    Offers = {2}
CONSTRAINT Bound
SYMMETRY Symmetry
INVARIANT SourcesTypeOK
INVARIANT SessionsStayUsable
INVARIANT QuoteIsTheTiersPrice
INVARIANT QuotesAgree
INVARIANT PoolKeepsBooks
CHECK_DEADLOCK FALSE
