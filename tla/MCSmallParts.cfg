\* Every list of up to four candidates through a filter that leaves ties;
\* every API key over two buffers, every text of up to four pieces; amounts
\* around zero, a cent and a yuan; and two payments before and after a restart,
\* notified in any order and number.
SPECIFICATION MCSpec
CONSTANTS
    d1 = d1
    d2 = d2
    d3 = d3
    d4 = d4
    o1 = o1
    o2 = o2
    Deployments = {d1, d2, d3, d4}
    Priority <- MCPriority
    Filters <- MCFilters
    Inputs <- MCInputs
    Bytes = {0, 1}
    HexOf <- MCHexOf
    Raws <- MCRaws
    Amounts <- MCAmounts
    Orders = {o1, o2}
    RefundNos = {r1, r2}
    Amount <- MCAmount
    NoPayment = NoPayment
    MaxPayments = 2
    MaxRestarts = 1
INVARIANTS
    SelectsFirstBest
    KeysAreUnambiguous
    ShownIsTruncated
    QueryAgreesWithNotifications
    PaidWasCreated
    PaymentIdsUnique
PROPERTIES
    PaidIsKept
CHECK_DEADLOCK FALSE
