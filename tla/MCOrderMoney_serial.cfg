SPECIFICATION Spec
CONSTANTS
    o1 = o1
    l1 = l1
    c1 = c1
    i1 = i1
    i2 = i2
    r1 = r1
    r2 = r2
    Orders = {o1}
    Customers = {c1}
    Lines = {l1}
    Returns = {i1, i2}
    Requests = {r1}
    CustomerOf <- MCCustomerOf
    OrderOf <- MCOrderOf
    Total <- MCTotal
    Delivered <- MCDelivered
    Price <- MCPrice
    Handlers = {"payment", "cancel", "authorize", "dropOff", "receive", "cancelReturn", "adjust", "noOriginal", "void"}
    MaxTakings = 2
    MaxCredit = 1
    NoOrder = NoOrder
    NoLine = NoLine
    NoCustomer = NoCustomer
    NoReturn = NoReturn
INVARIANTS CancelledKeepsNoMoney
PROPERTIES ReceivingKeepsBalance
CHECK_DEADLOCK FALSE
