----------------------------- MODULE ReceiptText ----------------------------
(***************************************************************************)
(* What the OCR text of a receipt is turned into: the total that becomes   *)
(* the amount of the expense (ocr_tesseract.go, processor.go) and the      *)
(* check digit of a NIT (nit.go).                                          *)
(*                                                                         *)
(* A text is a sequence of digits (0..9), dots and commas.  The machine    *)
(* writes one character after the other, so that every text up to a bound  *)
(* is read; the properties compare what the code makes of it with what the *)
(* text means.                                                             *)
(***************************************************************************)
EXTENDS Integers, FiniteSets, Sequences, SequencesExt

CONSTANTS
    TotalDigits,  \* digits a total is written with
    NITDigits,    \* digits the base of a NIT is written with
    MaxTotal,     \* bound: characters of a total
    MaxBase       \* bound: digits of a NIT before the check digit

ASSUME DigitsAssumption == TotalDigits \cup NITDigits \subseteq 0..9

VARIABLES
    field,  \* the field that is read: "total" or "nit"
    text    \* the characters so far

vars == <<field, text>>

Dot   == 10
Comma == 11

Init == field \in {"total", "nit"} /\ text = <<>>

-----------------------------------------------------------------------------
(* Totals.                                                                 *)

Has(s, ch) == Contains(s, ch)

\* strings.ReplaceAll(s, ch, "")
Without(s, ch) ==
    LET kept[n \in 0..Len(s)] ==
            IF n = 0 THEN <<>>
            ELSE IF s[n] = ch THEN kept[n - 1] ELSE Append(kept[n - 1], s[n])
    IN  kept[Len(s)]

\* Mutation: only the first dot is removed.
normalizeColombianNumber_OneDot(s) ==
    LET undotted == IF Has(s, Dot) THEN RemoveFirst(s, Dot) ELSE s
    IN  [i \in DOMAIN undotted |-> IF undotted[i] = Comma THEN Dot ELSE undotted[i]]

\* Mutation: the dots stay when there is a comma.
normalizeColombianNumber_KeepsDots(s) ==
    IF Has(s, Comma) THEN [i \in DOMAIN s |-> IF s[i] = Comma THEN Dot ELSE s[i]]
                     ELSE Without(s, Dot)

\* Dots separate thousands and go; a comma becomes the decimal point.
normalizeColombianNumber(s) ==
    LET undotted == Without(s, Dot)
    IN  [i \in DOMAIN undotted |-> IF undotted[i] = Comma THEN Dot ELSE undotted[i]]

\* decimal.NewFromString refuses a second point.
IsDecimal(s) == Cardinality({i \in DOMAIN s : s[i] = Dot}) <= 1

NumberOf(digits) ==
    LET number[n \in 0..Len(digits)] ==
            IF n = 0 THEN 0 ELSE 10 * number[n - 1] + digits[n]
    IN  number[Len(digits)]

\* The decimal as an integer and how many of its digits follow the point.
NewFromString(s) ==
    [digits |-> NumberOf(Without(s, Dot)),
     scale  |-> IF Has(s, Dot) THEN Len(s) - SelectInSeq(s, LAMBDA x : x = Dot) ELSE 0]

\* reTotal captures [0-9][0-9.,]*
WriteTotal(ch) ==
    /\ field = "total"
    /\ Len(text) < MaxTotal
    /\ text = <<>> => ch \in TotalDigits
    /\ text' = Append(text, ch)
    /\ UNCHANGED field

-----------------------------------------------------------------------------
(* NITs.                                                                   *)

\* Mutation: a weight is mistyped (19 for 23).
dianWeights_Typo == <<3, 7, 13, 17, 19, 19, 29, 37, 41, 43>>

dianWeights == <<3, 7, 13, 17, 19, 23, 29, 37, 41, 43>>

\* The k-th digit from the right; a base with fewer digits adds nothing.
Digit(base, k) == IF k <= Len(base) THEN base[Len(base) - k + 1] ELSE 0

\* The weights go from right to left; digits further left do not count.
remainder(base) ==
    LET product(k) == dianWeights[k] * Digit(base, k)
    IN  (product(1) + product(2) + product(3) + product(4) + product(5) + product(6)
            + product(7) + product(8) + product(9) + product(10)) % 11

\* Mutation: only remainder 0 stands for itself.
expected_ZeroOnly(base) ==
    IF remainder(base) < 1 THEN remainder(base) ELSE 11 - remainder(base)

expected(base) ==
    IF remainder(base) < 2 THEN remainder(base) ELSE 11 - remainder(base)

\* A NIT without its separators: the base and the check digit.
ValidateNIT(base, check) == Len(base) + 1 >= 9 /\ check = expected(base)

WriteNIT(d) ==
    /\ field = "nit"
    /\ Len(text) < MaxBase
    /\ text' = Append(text, d)
    /\ UNCHANGED field

-----------------------------------------------------------------------------

Next ==
    \/ \E ch \in TotalDigits \cup {Dot, Comma} : WriteTotal(ch)
    \/ \E d \in NITDigits : WriteNIT(d)

Spec == Init /\ [][Next]_vars

-----------------------------------------------------------------------------
(* Properties.                                                             *)

\* The Colombian way to write a number: an integer part, plain or in groups
\* of three digits, and one or two decimals after a comma.
CommaAt(s) == IF Has(s, Comma) THEN SelectInSeq(s, LAMBDA x : x = Comma) ELSE Len(s) + 1

IsColombian(s) ==
    LET c == CommaAt(s)
        grouped == \A i \in 1..(c - 1) : s[i] = Dot <=> (c - i) % 4 = 0
        plain   == \A i \in 1..(c - 1) : s[i] # Dot
    IN  /\ s # <<>> /\ s[1] \in 0..9 /\ c > 1
        /\ grouped \/ plain
        /\ c <= Len(s) => Len(s) - c \in 1..2 /\ \A i \in (c + 1)..Len(s) : s[i] \in 0..9

\* What it means: each digit counts for the number of digits between it and
\* the end of the number.
DigitsAfter(s, i) == Cardinality({j \in (i + 1)..Len(s) : s[j] \in 0..9})

TenTo(k) ==
    LET power[n \in 0..k] == IF n = 0 THEN 1 ELSE 10 * power[n - 1]
    IN  power[k]

DigitCounts(s, i) == IF s[i] \in 0..9 THEN s[i] * TenTo(DigitsAfter(s, i)) ELSE 0

Meaning(s) ==
    LET upTo[n \in 0..Len(s)] == IF n = 0 THEN 0 ELSE upTo[n - 1] + DigitCounts(s, n)
    IN  [digits |-> upTo[Len(s)],
         scale  |-> IF Has(s, Comma) THEN Len(s) - CommaAt(s) ELSE 0]

\* A well written total becomes the amount it means, also when the sentence's
\* full stop is captured with it: 12.500 is twelve thousand five hundred, and
\* 12.500,50 keeps its fifty cents.
TotalIsItsMeaning ==
    (field = "total" /\ IsColombian(text)) =>
        \A s \in {text, Append(text, Dot)} :
            LET n == normalizeColombianNumber(s)
            IN  IsDecimal(n) /\ NewFromString(n) = Meaning(text)

\* The processor drops a total that is no decimal and still offers to confirm
\* the expense.  Of all texts reTotal can capture, only those with two commas
\* are lost this way, wherever their dots are.
LostOnlyWithTwoCommas ==
    field = "total" =>
        (IsDecimal(normalizeColombianNumber(text))
            <=> Cardinality({i \in DOMAIN text : text[i] = Comma}) <= 1)

IsBase == field = "nit" /\ Len(text) >= 8

\* Every base has exactly one check digit, for the remainders 0, 1 and 10 too.
NITHasOneCheckDigit ==
    IsBase => Cardinality({check \in 0..9 : ValidateNIT(text, check)}) = 1

\* Reading one digit of the base wrong, or two neighbours in the wrong order,
\* is noticed, unless the two readings leave remainders 1 and 10, which share
\* a check digit.
Misreadings(base) ==
    LET weighted == {i \in DOMAIN base : Len(base) - i < Len(dianWeights)}
    IN  {[base EXCEPT ![i] = d] : i \in weighted, d \in 0..9}
          \cup {[base EXCEPT ![i] = base[i + 1], ![i + 1] = base[i]] :
                    i \in {k \in weighted : k < Len(base)}}

MisreadNITIsRefused ==
    IsBase => \A wrong \in Misreadings(text) \ {text} :
        ValidateNIT(wrong, expected(text)) => {remainder(text), remainder(wrong)} = {1, 10}

=============================================================================
