SPECIFICATION BooksSpec
CONSTANTS
    NoOrder = NoOrder
    Orders = {m1, w1}
    WishOrders = {w1}
    CreditOrders = {}
    Admins = {a1, a2}
    MaxFaults = 0
    Pages = {}
    NoPage = NoPage
    MaxRevision = 2
    MaxShape = 0
    MaxDashFaults = 0
INVARIANT AckedIsBooked
CHECK_DEADLOCK FALSE
