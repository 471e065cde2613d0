SPECIFICATION Spec
CONSTANTS
    None = None
    NReceipts = 2
    NExpenses = 2
    Tasks = {t1}
    NObjects = 3
    MaxReviews = 1
    MaxRestarts = 1
INVARIANTS StateHasItsFields OwnExpensesOnly
PROPERTIES OneExpensePerConversation
