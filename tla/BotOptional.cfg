SPECIFICATION Spec
CONSTANTS
    None = None
    Tasks = {t1}
    NReceipts = 2
    NExpenses = 2
    NObjects = 2
    MaxReviews = 0
    MaxRestarts = 0
INVARIANTS OptionalEvidenceHasExpense
