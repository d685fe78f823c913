SPECIFICATION BooksSpec
CONSTANTS
    NoOrder = NoOrder
    Orders = {w1, c1}
    WishOrders = {w1, c1}
    CreditOrders = {c1}
    Admins = {a1, a2, a3}
    MaxFaults = 2
    Pages = {p1, p2}
    NoPage = NoPage
    MaxRevision = 3
    MaxShape = 1
    MaxDashFaults = 1
INVARIANT AtMostOneTransfer
INVARIANT TransferOnRecord
INVARIANT GrantedOnce
INVARIANT TransferOnlyBooked
PROPERTY PaidIsSettled
PROPERTY AnswersAreFresh
PROPERTY ShapeReachesPages
