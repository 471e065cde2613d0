SPECIFICATION Spec
CONSTANTS
    None = None
    t1 = t1
    t2 = t2
    Tasks <- MCTasks
    NReceipts = 2
    NExpenses = 2
    NObjects = 2
    MaxReviews = 0
    MaxRestarts = 0
SYMMETRY TaskSymmetry
INVARIANTS NoNilDereference ReceiptCarriedOnce
