SPECIFICATION Spec
CONSTANTS
    a1 = a1
    None = None
    Reading <- MCReading
    Amounts = {a1}
    NReceipts = 2
    Expenses = {e1}
    Workers = {w1}
    BatchLimit = 2
    MaxFaults = 1
    MaxCrashes = 1
PROPERTIES ImplementsLifecycle OcrDataIsImmutable
