SPECIFICATION Spec
CONSTANTS
    TotalDigits = {1}
    NITDigits = {0, 5}
    MaxTotal = 9
    MaxBase = 11
INVARIANTS TotalIsItsMeaning LostOnlyWithTwoCommas NITHasOneCheckDigit MisreadNITIsRefused
CHECK_DEADLOCK FALSE
