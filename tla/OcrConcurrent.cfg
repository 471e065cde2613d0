SPECIFICATION FairSpec
CONSTANTS
    a1 = a1
    None = None
    Reading <- MCReading
    Amounts = {a1}
    NReceipts = 2
    Expenses = {e1}
    Workers = {w1, w2}
    BatchLimit = 1
    MaxFaults = 1
    MaxCrashes = 1
INVARIANTS DoneHasFields SkippedIsLeftAlone OcrAmountIsExtracted
PROPERTIES AwaitedTotalArrives PendingIsTaken PendingIsReported PendingSettles
