SPECIFICATION Spec
CONSTANTS
    o1 = o1
    o2 = o2
    d1 = d1
    d2 = d2
    None = None
    Owners <- MCOwners
    Drivers <- MCDrivers
    OwnerOf <- MCOwnerOf
    Expenses = {e1}
    Receipts = {r1, r2}
    Amounts = {a1}
    Messages = {m1}
    Clients = {c1}
PROPERTIES OnlyConfirmedIsReviewed
