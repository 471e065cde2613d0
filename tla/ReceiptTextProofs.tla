-------------------------- MODULE ReceiptTextProofs --------------------------
(***************************************************************************)
(* Proofs about ReceiptText, for texts of any length over any digits.      *)
(*                                                                         *)
(* The check digit of a NIT: a remainder depends on the last ten digits    *)
(* only; each misreading is told apart by the weight of its position, or   *)
(* by the difference of two neighbouring weights, neither of which 11      *)
(* divides.                                                                *)
(*                                                                         *)
(* The total: the invariant Reads relates what the code makes of the text  *)
(* written so far to what the text says, and each character keeps it, so   *)
(* that it holds of every text.  What a character does to the recursive    *)
(* functions of ReceiptText is proved by induction along the text.         *)
(***************************************************************************)
EXTENDS ReceiptText, FiniteSetTheorems, WellFoundedInduction, TLAPS

\* A NIT is written with digits.
NITOfDigits == field = "nit" => text \in Seq(0..9)

\* Characters are only added, and only digits to a NIT.
THEOREM Invariance == Spec => []NITOfDigits
<1>1. Init => NITOfDigits
    BY DEF Init, NITOfDigits
<1>2. NITOfDigits /\ [Next]_vars => NITOfDigits'
    <2>1. SUFFICES ASSUME NITOfDigits, [Next]_vars, field' = "nit" PROVE text' \in Seq(0..9)
        BY DEF NITOfDigits
    <2>2. ASSUME NEW d \in NITDigits, WriteNIT(d) PROVE text' \in Seq(0..9)
        BY <2>1, <2>2, DigitsAssumption DEF NITOfDigits, WriteNIT
    <2>3. ASSUME NEW ch, WriteTotal(ch) PROVE FALSE
        BY <2>1, <2>3 DEF WriteTotal
    <2>4. CASE UNCHANGED vars
        BY <2>1, <2>4 DEF NITOfDigits, vars
    <2>5. QED
        BY <2>1, <2>2, <2>3, <2>4 DEF Next
<1>3. QED
    BY <1>1, <1>2, PTL DEF Spec

-----------------------------------------------------------------------------
(* Remainders.                                                             *)

LEMMA DigitType ==
    ASSUME NEW base \in Seq(0..9), NEW k \in Nat \ {0} PROVE Digit(base, k) \in 0..9
<1>1. PICK n \in Nat : n = Len(base)
    OBVIOUS
<1>2. CASE k <= n
    <2>1. n - k + 1 \in 1..n
        BY <1>2
    <2>2. base[n - k + 1] \in 0..9
        BY <1>1, <2>1
    <2>3. QED
        BY <1>1, <1>2, <2>2 DEF Digit
<1>3. CASE ~ (k <= n)
    BY <1>1, <1>3 DEF Digit
<1>4. QED
    BY <1>2, <1>3

\* The weighted sum of ten digits.
W(x1, x2, x3, x4, x5, x6, x7, x8, x9, x10) ==
    3 * x1 + 7 * x2 + 13 * x3 + 17 * x4 + 19 * x5
        + 23 * x6 + 29 * x7 + 37 * x8 + 41 * x9 + 43 * x10

\* The last ten digits from right to left.
Digits(base) == [k \in 1..10 |-> Digit(base, k)]

Weighted(a) == W(a[1], a[2], a[3], a[4], a[5], a[6], a[7], a[8], a[9], a[10])

LEMMA SumType ==
    ASSUME NEW x1 \in 0..9, NEW x2 \in 0..9, NEW x3 \in 0..9, NEW x4 \in 0..9, NEW x5 \in 0..9,
           NEW x6 \in 0..9, NEW x7 \in 0..9, NEW x8 \in 0..9, NEW x9 \in 0..9, NEW x10 \in 0..9
    PROVE  W(x1, x2, x3, x4, x5, x6, x7, x8, x9, x10) \in Nat
BY DEF W

LEMMA WeightedType == ASSUME NEW a \in [1..10 -> 0..9] PROVE Weighted(a) \in Nat
<1>1. /\ a[1] \in 0..9 /\ a[2] \in 0..9 /\ a[3] \in 0..9
      /\ a[4] \in 0..9 /\ a[5] \in 0..9 /\ a[6] \in 0..9
      /\ a[7] \in 0..9 /\ a[8] \in 0..9 /\ a[9] \in 0..9
      /\ a[10] \in 0..9
    OBVIOUS
<1>2. QED
    BY <1>1, SumType, Zenon DEF Weighted

LEMMA RemainderIs ==
    ASSUME NEW base \in Seq(0..9)
    PROVE  /\ Digits(base) \in [1..10 -> 0..9]
           /\ remainder(base) = Weighted(Digits(base)) % 11
           /\ remainder(base) \in 0..10
<1>1. Digits(base) \in [1..10 -> 0..9]
    BY DigitType DEF Digits
<1>2. remainder(base) = Weighted(Digits(base)) % 11
    BY DEF remainder, dianWeights, Digits, Weighted, W
<1>3. PICK n \in Nat : n = Weighted(Digits(base))
    BY <1>1, WeightedType
<1>4. n % 11 \in 0..10
    OBVIOUS
<1>5. QED
    BY <1>1, <1>2, <1>3, <1>4

LEMMA ExpectedIsDigit == ASSUME NEW base \in Seq(0..9) PROVE expected(base) \in 0..9
BY RemainderIs DEF expected

\* Every base of eight digits or more has exactly one check digit
\* (ValidateNIT of src/internal/receipt/nit.go).
THEOREM OneCheckDigit == Spec => []NITHasOneCheckDigit
<1>1. ASSUME NITOfDigits, IsBase
      PROVE  Cardinality({check \in 0..9 : ValidateNIT(text, check)}) = 1
    <2>1. text \in Seq(0..9) /\ Len(text) >= 8
        BY <1>1 DEF NITOfDigits, IsBase
    <2>2. expected(text) \in 0..9
        BY <2>1, ExpectedIsDigit
    <2>3. {check \in 0..9 : ValidateNIT(text, check)} = {expected(text)}
        BY <2>1, <2>2 DEF ValidateNIT
    <2>4. QED
        BY <2>3, FS_Singleton
<1>2. NITOfDigits => NITHasOneCheckDigit
    BY <1>1 DEF NITHasOneCheckDigit
<1>3. QED
    BY <1>2, Invariance, PTL

-----------------------------------------------------------------------------
(* Misreadings.                                                            *)

\* The weights and the differences of neighbouring ones.
Factors == {3, 7, 13, 17, 19, 23, 29, 37, 41, 43, 2, 4, 6, 8}

\* 11 divides no product of a factor and the difference of two digits.
LEMMA Apart ==
    ASSUME NEW w \in Factors, NEW x \in 0..9, NEW y \in 0..9, x # y,
           NEW m \in Int, NEW n \in Int, m - w * x = n - w * y
    PROVE  m % 11 # n % 11
<1>1. SUFFICES ASSUME m % 11 = n % 11 PROVE FALSE
    OBVIOUS
<1>2. PICK d \in -9..9 : d = x - y /\ d # 0
    OBVIOUS
<1>3. CASE w = 3
    <2>1. m - n = 3 * d
        BY <1>2, <1>3
    <2>2. QED
        BY <1>1, <1>2, <2>1
<1>4. CASE w = 7
    <2>1. m - n = 7 * d
        BY <1>2, <1>4
    <2>2. QED
        BY <1>1, <1>2, <2>1
<1>5. CASE w = 13
    <2>1. m - n = 13 * d
        BY <1>2, <1>5
    <2>2. QED
        BY <1>1, <1>2, <2>1
<1>6. CASE w = 17
    <2>1. m - n = 17 * d
        BY <1>2, <1>6
    <2>2. QED
        BY <1>1, <1>2, <2>1
<1>7. CASE w = 19
    <2>1. m - n = 19 * d
        BY <1>2, <1>7
    <2>2. QED
        BY <1>1, <1>2, <2>1
<1>8. CASE w = 23
    <2>1. m - n = 23 * d
        BY <1>2, <1>8
    <2>2. QED
        BY <1>1, <1>2, <2>1
<1>9. CASE w = 29
    <2>1. m - n = 29 * d
        BY <1>2, <1>9
    <2>2. QED
        BY <1>1, <1>2, <2>1
<1>10. CASE w = 37
    <2>1. m - n = 37 * d
        BY <1>2, <1>10
    <2>2. QED
        BY <1>1, <1>2, <2>1
<1>11. CASE w = 41
    <2>1. m - n = 41 * d
        BY <1>2, <1>11
    <2>2. QED
        BY <1>1, <1>2, <2>1
<1>12. CASE w = 43
    <2>1. m - n = 43 * d
        BY <1>2, <1>12
    <2>2. QED
        BY <1>1, <1>2, <2>1
<1>13. CASE w = 2
    <2>1. m - n = 2 * d
        BY <1>2, <1>13
    <2>2. QED
        BY <1>1, <1>2, <2>1
<1>14. CASE w = 4
    <2>1. m - n = 4 * d
        BY <1>2, <1>14
    <2>2. QED
        BY <1>1, <1>2, <2>1
<1>15. CASE w = 6
    <2>1. m - n = 6 * d
        BY <1>2, <1>15
    <2>2. QED
        BY <1>1, <1>2, <2>1
<1>16. CASE w = 8
    <2>1. m - n = 8 * d
        BY <1>2, <1>16
    <2>2. QED
        BY <1>1, <1>2, <2>1
<1>17. QED
    BY <1>3, <1>4, <1>5, <1>6, <1>7, <1>8, <1>9, <1>10, <1>11, <1>12, <1>13, <1>14, <1>15, <1>16 DEF Factors

\* One of ten digits changes the sum by its weight's multiple.
OneWrong(x1, x2, x3, x4, x5, x6, x7, x8, x9, x10, y) ==
    LET sum == W(x1, x2, x3, x4, x5, x6, x7, x8, x9, x10) IN
    /\ sum - 3 * x1 = W(y, x2, x3, x4, x5, x6, x7, x8, x9, x10) - 3 * y
    /\ sum - 7 * x2 = W(x1, y, x3, x4, x5, x6, x7, x8, x9, x10) - 7 * y
    /\ sum - 13 * x3 = W(x1, x2, y, x4, x5, x6, x7, x8, x9, x10) - 13 * y
    /\ sum - 17 * x4 = W(x1, x2, x3, y, x5, x6, x7, x8, x9, x10) - 17 * y
    /\ sum - 19 * x5 = W(x1, x2, x3, x4, y, x6, x7, x8, x9, x10) - 19 * y
    /\ sum - 23 * x6 = W(x1, x2, x3, x4, x5, y, x7, x8, x9, x10) - 23 * y
    /\ sum - 29 * x7 = W(x1, x2, x3, x4, x5, x6, y, x8, x9, x10) - 29 * y
    /\ sum - 37 * x8 = W(x1, x2, x3, x4, x5, x6, x7, y, x9, x10) - 37 * y
    /\ sum - 41 * x9 = W(x1, x2, x3, x4, x5, x6, x7, x8, y, x10) - 41 * y
    /\ sum - 43 * x10 = W(x1, x2, x3, x4, x5, x6, x7, x8, x9, y) - 43 * y

LEMMA OneOfTen ==
    ASSUME NEW x1 \in 0..9, NEW x2 \in 0..9, NEW x3 \in 0..9, NEW x4 \in 0..9, NEW x5 \in 0..9,
           NEW x6 \in 0..9, NEW x7 \in 0..9, NEW x8 \in 0..9, NEW x9 \in 0..9, NEW x10 \in 0..9,
           NEW y \in 0..9
    PROVE  OneWrong(x1, x2, x3, x4, x5, x6, x7, x8, x9, x10, y)
BY DEF OneWrong, W

\* Two neighbours swapped change it by a multiple of their weights' difference.
Swapped(x1, x2, x3, x4, x5, x6, x7, x8, x9, x10) ==
    LET sum == W(x1, x2, x3, x4, x5, x6, x7, x8, x9, x10) IN
    /\ sum - 4 * x2 = W(x2, x1, x3, x4, x5, x6, x7, x8, x9, x10) - 4 * x1
    /\ sum - 6 * x3 = W(x1, x3, x2, x4, x5, x6, x7, x8, x9, x10) - 6 * x2
    /\ sum - 4 * x4 = W(x1, x2, x4, x3, x5, x6, x7, x8, x9, x10) - 4 * x3
    /\ sum - 2 * x5 = W(x1, x2, x3, x5, x4, x6, x7, x8, x9, x10) - 2 * x4
    /\ sum - 4 * x6 = W(x1, x2, x3, x4, x6, x5, x7, x8, x9, x10) - 4 * x5
    /\ sum - 6 * x7 = W(x1, x2, x3, x4, x5, x7, x6, x8, x9, x10) - 6 * x6
    /\ sum - 8 * x8 = W(x1, x2, x3, x4, x5, x6, x8, x7, x9, x10) - 8 * x7
    /\ sum - 4 * x9 = W(x1, x2, x3, x4, x5, x6, x7, x9, x8, x10) - 4 * x8
    /\ sum - 2 * x10 = W(x1, x2, x3, x4, x5, x6, x7, x8, x10, x9) - 2 * x9

LEMMA TwoOfTen ==
    ASSUME NEW x1 \in 0..9, NEW x2 \in 0..9, NEW x3 \in 0..9, NEW x4 \in 0..9, NEW x5 \in 0..9,
           NEW x6 \in 0..9, NEW x7 \in 0..9, NEW x8 \in 0..9, NEW x9 \in 0..9, NEW x10 \in 0..9
    PROVE  Swapped(x1, x2, x3, x4, x5, x6, x7, x8, x9, x10)
BY DEF Swapped, W

LEMMA OneChanged ==
    ASSUME NEW a \in [1..10 -> 0..9], NEW b \in [1..10 -> 0..9], NEW k \in 1..10,
           a[k] # b[k], \A j \in 1..10 : j # k => b[j] = a[j]
    PROVE  Weighted(a) % 11 # Weighted(b) % 11
<1>1. \A j \in 1..10 : a[j] \in 0..9
    OBVIOUS
<1>2. PICK x \in 0..9, y \in 0..9 : x = a[k] /\ y = b[k] /\ x # y
    OBVIOUS
<1>3. OneWrong(a[1], a[2], a[3], a[4], a[5], a[6], a[7], a[8], a[9], a[10], y)
    <2>1. /\ a[1] \in 0..9 /\ a[2] \in 0..9 /\ a[3] \in 0..9 /\ a[4] \in 0..9 /\ a[5] \in 0..9
          /\ a[6] \in 0..9 /\ a[7] \in 0..9 /\ a[8] \in 0..9 /\ a[9] \in 0..9 /\ a[10] \in 0..9
        BY <1>1
    <2>2. QED
        BY <1>2, <2>1, OneOfTen, Zenon
<1>4. \E w \in Factors : Weighted(a) - w * x = Weighted(b) - w * y
    <2>1. CASE k = 1
        <3>1. Weighted(b) = W(y, a[2], a[3], a[4], a[5], a[6], a[7], a[8], a[9], a[10])
            BY <1>2, <2>1 DEF Weighted
        <3>2. Weighted(a) - 3 * x = Weighted(b) - 3 * y
            BY <1>2, <1>3, <2>1, <3>1 DEF OneWrong, Weighted
        <3>3. QED
            BY <3>2 DEF Factors
    <2>2. CASE k = 2
        <3>1. Weighted(b) = W(a[1], y, a[3], a[4], a[5], a[6], a[7], a[8], a[9], a[10])
            BY <1>2, <2>2 DEF Weighted
        <3>2. Weighted(a) - 7 * x = Weighted(b) - 7 * y
            BY <1>2, <1>3, <2>2, <3>1 DEF OneWrong, Weighted
        <3>3. QED
            BY <3>2 DEF Factors
    <2>3. CASE k = 3
        <3>1. Weighted(b) = W(a[1], a[2], y, a[4], a[5], a[6], a[7], a[8], a[9], a[10])
            BY <1>2, <2>3 DEF Weighted
        <3>2. Weighted(a) - 13 * x = Weighted(b) - 13 * y
            BY <1>2, <1>3, <2>3, <3>1 DEF OneWrong, Weighted
        <3>3. QED
            BY <3>2 DEF Factors
    <2>4. CASE k = 4
        <3>1. Weighted(b) = W(a[1], a[2], a[3], y, a[5], a[6], a[7], a[8], a[9], a[10])
            BY <1>2, <2>4 DEF Weighted
        <3>2. Weighted(a) - 17 * x = Weighted(b) - 17 * y
            BY <1>2, <1>3, <2>4, <3>1 DEF OneWrong, Weighted
        <3>3. QED
            BY <3>2 DEF Factors
    <2>5. CASE k = 5
        <3>1. Weighted(b) = W(a[1], a[2], a[3], a[4], y, a[6], a[7], a[8], a[9], a[10])
            BY <1>2, <2>5 DEF Weighted
        <3>2. Weighted(a) - 19 * x = Weighted(b) - 19 * y
            BY <1>2, <1>3, <2>5, <3>1 DEF OneWrong, Weighted
        <3>3. QED
            BY <3>2 DEF Factors
    <2>6. CASE k = 6
        <3>1. Weighted(b) = W(a[1], a[2], a[3], a[4], a[5], y, a[7], a[8], a[9], a[10])
            BY <1>2, <2>6 DEF Weighted
        <3>2. Weighted(a) - 23 * x = Weighted(b) - 23 * y
            BY <1>2, <1>3, <2>6, <3>1 DEF OneWrong, Weighted
        <3>3. QED
            BY <3>2 DEF Factors
    <2>7. CASE k = 7
        <3>1. Weighted(b) = W(a[1], a[2], a[3], a[4], a[5], a[6], y, a[8], a[9], a[10])
            BY <1>2, <2>7 DEF Weighted
        <3>2. Weighted(a) - 29 * x = Weighted(b) - 29 * y
            BY <1>2, <1>3, <2>7, <3>1 DEF OneWrong, Weighted
        <3>3. QED
            BY <3>2 DEF Factors
    <2>8. CASE k = 8
        <3>1. Weighted(b) = W(a[1], a[2], a[3], a[4], a[5], a[6], a[7], y, a[9], a[10])
            BY <1>2, <2>8 DEF Weighted
        <3>2. Weighted(a) - 37 * x = Weighted(b) - 37 * y
            BY <1>2, <1>3, <2>8, <3>1 DEF OneWrong, Weighted
        <3>3. QED
            BY <3>2 DEF Factors
    <2>9. CASE k = 9
        <3>1. Weighted(b) = W(a[1], a[2], a[3], a[4], a[5], a[6], a[7], a[8], y, a[10])
            BY <1>2, <2>9 DEF Weighted
        <3>2. Weighted(a) - 41 * x = Weighted(b) - 41 * y
            BY <1>2, <1>3, <2>9, <3>1 DEF OneWrong, Weighted
        <3>3. QED
            BY <3>2 DEF Factors
    <2>10. CASE k = 10
        <3>1. Weighted(b) = W(a[1], a[2], a[3], a[4], a[5], a[6], a[7], a[8], a[9], y)
            BY <1>2, <2>10 DEF Weighted
        <3>2. Weighted(a) - 43 * x = Weighted(b) - 43 * y
            BY <1>2, <1>3, <2>10, <3>1 DEF OneWrong, Weighted
        <3>3. QED
            BY <3>2 DEF Factors
    <2>11. QED
        BY <2>1, <2>2, <2>3, <2>4, <2>5, <2>6, <2>7, <2>8, <2>9, <2>10
<1>5. PICK w \in Factors, m \in Int, n \in Int :
          m = Weighted(a) /\ n = Weighted(b) /\ m - w * x = n - w * y
    BY <1>4, WeightedType
<1>6. m % 11 # n % 11
    BY <1>2, <1>5, Apart
<1>7. QED
    BY <1>5, <1>6

LEMMA TwoSwapped ==
    ASSUME NEW a \in [1..10 -> 0..9], NEW b \in [1..10 -> 0..9], NEW k \in 2..10,
           a[k] # a[k - 1], b[k] = a[k - 1], b[k - 1] = a[k],
           \A j \in 1..10 : j # k /\ j # k - 1 => b[j] = a[j]
    PROVE  Weighted(a) % 11 # Weighted(b) % 11
<1>1. \A j \in 1..10 : a[j] \in 0..9
    OBVIOUS
<1>2. PICK x \in 0..9, y \in 0..9 : x = a[k] /\ y = a[k - 1] /\ x # y
    <2>1. k \in 1..10 /\ k - 1 \in 1..10
        OBVIOUS
    <2>2. QED
        BY <1>1, <2>1
<1>3. Swapped(a[1], a[2], a[3], a[4], a[5], a[6], a[7], a[8], a[9], a[10])
    <2>1. /\ a[1] \in 0..9 /\ a[2] \in 0..9 /\ a[3] \in 0..9 /\ a[4] \in 0..9 /\ a[5] \in 0..9
          /\ a[6] \in 0..9 /\ a[7] \in 0..9 /\ a[8] \in 0..9 /\ a[9] \in 0..9 /\ a[10] \in 0..9
        BY <1>1
    <2>2. QED
        BY <2>1, TwoOfTen, Zenon
<1>4. \E w \in Factors : Weighted(a) - w * x = Weighted(b) - w * y
    <2>1. CASE k = 2
        <3>1. Weighted(b) = W(a[2], a[1], a[3], a[4], a[5], a[6], a[7], a[8], a[9], a[10])
            BY <2>1 DEF Weighted
        <3>2. Weighted(a) - 4 * x = Weighted(b) - 4 * y
            BY <1>2, <1>3, <2>1, <3>1 DEF Swapped, Weighted
        <3>3. QED
            BY <3>2 DEF Factors
    <2>2. CASE k = 3
        <3>1. Weighted(b) = W(a[1], a[3], a[2], a[4], a[5], a[6], a[7], a[8], a[9], a[10])
            BY <2>2 DEF Weighted
        <3>2. Weighted(a) - 6 * x = Weighted(b) - 6 * y
            BY <1>2, <1>3, <2>2, <3>1 DEF Swapped, Weighted
        <3>3. QED
            BY <3>2 DEF Factors
    <2>3. CASE k = 4
        <3>1. Weighted(b) = W(a[1], a[2], a[4], a[3], a[5], a[6], a[7], a[8], a[9], a[10])
            BY <2>3 DEF Weighted
        <3>2. Weighted(a) - 4 * x = Weighted(b) - 4 * y
            BY <1>2, <1>3, <2>3, <3>1 DEF Swapped, Weighted
        <3>3. QED
            BY <3>2 DEF Factors
    <2>4. CASE k = 5
        <3>1. Weighted(b) = W(a[1], a[2], a[3], a[5], a[4], a[6], a[7], a[8], a[9], a[10])
            BY <2>4 DEF Weighted
        <3>2. Weighted(a) - 2 * x = Weighted(b) - 2 * y
            BY <1>2, <1>3, <2>4, <3>1 DEF Swapped, Weighted
        <3>3. QED
            BY <3>2 DEF Factors
    <2>5. CASE k = 6
        <3>1. Weighted(b) = W(a[1], a[2], a[3], a[4], a[6], a[5], a[7], a[8], a[9], a[10])
            BY <2>5 DEF Weighted
        <3>2. Weighted(a) - 4 * x = Weighted(b) - 4 * y
            BY <1>2, <1>3, <2>5, <3>1 DEF Swapped, Weighted
        <3>3. QED
            BY <3>2 DEF Factors
    <2>6. CASE k = 7
        <3>1. Weighted(b) = W(a[1], a[2], a[3], a[4], a[5], a[7], a[6], a[8], a[9], a[10])
            BY <2>6 DEF Weighted
        <3>2. Weighted(a) - 6 * x = Weighted(b) - 6 * y
            BY <1>2, <1>3, <2>6, <3>1 DEF Swapped, Weighted
        <3>3. QED
            BY <3>2 DEF Factors
    <2>7. CASE k = 8
        <3>1. Weighted(b) = W(a[1], a[2], a[3], a[4], a[5], a[6], a[8], a[7], a[9], a[10])
            BY <2>7 DEF Weighted
        <3>2. Weighted(a) - 8 * x = Weighted(b) - 8 * y
            BY <1>2, <1>3, <2>7, <3>1 DEF Swapped, Weighted
        <3>3. QED
            BY <3>2 DEF Factors
    <2>8. CASE k = 9
        <3>1. Weighted(b) = W(a[1], a[2], a[3], a[4], a[5], a[6], a[7], a[9], a[8], a[10])
            BY <2>8 DEF Weighted
        <3>2. Weighted(a) - 4 * x = Weighted(b) - 4 * y
            BY <1>2, <1>3, <2>8, <3>1 DEF Swapped, Weighted
        <3>3. QED
            BY <3>2 DEF Factors
    <2>9. CASE k = 10
        <3>1. Weighted(b) = W(a[1], a[2], a[3], a[4], a[5], a[6], a[7], a[8], a[10], a[9])
            BY <2>9 DEF Weighted
        <3>2. Weighted(a) - 2 * x = Weighted(b) - 2 * y
            BY <1>2, <1>3, <2>9, <3>1 DEF Swapped, Weighted
        <3>3. QED
            BY <3>2 DEF Factors
    <2>10. QED
        BY <2>1, <2>2, <2>3, <2>4, <2>5, <2>6, <2>7, <2>8, <2>9
<1>5. PICK w \in Factors, m \in Int, n \in Int :
          m = Weighted(a) /\ n = Weighted(b) /\ m - w * x = n - w * y
    BY <1>4, WeightedType
<1>6. m % 11 # n % 11
    BY <1>2, <1>5, Apart
<1>7. QED
    BY <1>5, <1>6

LEMMA MisreadingsDiffer ==
    ASSUME NEW base \in Seq(0..9), NEW wrong \in Misreadings(base), wrong # base
    PROVE  wrong \in Seq(0..9) /\ remainder(wrong) # remainder(base)
<1>1. PICK n \in Nat : n = Len(base) /\ DOMAIN base = 1..n
    OBVIOUS
<1>2. Len(dianWeights) = 10
    BY DEF dianWeights
<1>3. ASSUME NEW i \in 1..n, n - i < 10, NEW d \in 0..9, wrong = [base EXCEPT ![i] = d]
      PROVE  wrong \in Seq(0..9) /\ remainder(wrong) # remainder(base)
    <2>1. wrong \in Seq(0..9) /\ Len(wrong) = n
        BY <1>1, <1>3
    <2>2. PICK k \in 1..10 : k = n - i + 1
        BY <1>3
    <2>3. \A j \in 1..n : wrong[j] = IF j = i THEN d ELSE base[j]
        BY <1>1, <1>3
    <2>4. d # base[i]
        BY <1>1, <1>3
    <2>5. PICK a, b : a = Digits(base) /\ b = Digits(wrong)
        OBVIOUS
    <2>6. a[k] = base[i] /\ b[k] = d
        <3>1. n - k + 1 = i /\ k <= n
            BY <2>2
        <3>2. QED
            BY <1>1, <2>1, <2>3, <2>5, <3>1 DEF Digits, Digit
    <2>7. ASSUME NEW j \in 1..10, j # k PROVE b[j] = a[j]
        <3>1. CASE j <= n
            <4>1. n - j + 1 \in 1..n /\ n - j + 1 # i
                BY <2>2, <2>7, <3>1
            <4>2. QED
                BY <1>1, <2>1, <2>3, <2>5, <3>1, <4>1 DEF Digits, Digit
        <3>2. CASE ~ (j <= n)
            BY <1>1, <2>1, <2>5, <3>2 DEF Digits, Digit
        <3>3. QED
            BY <3>1, <3>2
    <2>8. a \in [1..10 -> 0..9] /\ b \in [1..10 -> 0..9]
        BY <2>1, <2>5, RemainderIs
    <2>9. Weighted(a) % 11 # Weighted(b) % 11
        BY <2>4, <2>6, <2>7, <2>8, OneChanged
    <2>10. QED
        BY <2>1, <2>5, <2>9, RemainderIs
<1>4. ASSUME NEW i \in 1..n, n - i < 10, i < n,
             wrong = [base EXCEPT ![i] = base[i + 1], ![i + 1] = base[i]]
      PROVE  wrong \in Seq(0..9) /\ remainder(wrong) # remainder(base)
    <2>1. i + 1 \in 1..n
        BY <1>4
    <2>2. wrong \in Seq(0..9) /\ Len(wrong) = n
        BY <1>1, <1>4, <2>1
    <2>3. PICK k \in 2..10 : k = n - i + 1
        <3>1. i \in Nat /\ n - i < 10 /\ i < n
            BY <1>4
        <3>2. n - i + 1 \in 2..10
            BY <3>1
        <3>3. QED
            BY <3>2
    <2>4. \A j \in 1..n : wrong[j] = IF j = i THEN base[i + 1]
                                     ELSE IF j = i + 1 THEN base[i] ELSE base[j]
        BY <1>1, <1>4, <2>1
    <2>5. base[i] # base[i + 1]
        <3>1. SUFFICES ASSUME base[i] = base[i + 1] PROVE FALSE
            OBVIOUS
        <3>2. wrong = base
            BY <1>1, <1>4, <2>1, <3>1
        <3>3. QED
            BY <3>2
    <2>6. PICK a, b : a = Digits(base) /\ b = Digits(wrong)
        OBVIOUS
    <2>7. /\ a[k] = base[i] /\ b[k] = base[i + 1]
          /\ a[k - 1] = base[i + 1] /\ b[k - 1] = base[i]
        <3>1. /\ n - k + 1 = i /\ n - (k - 1) + 1 = i + 1
              /\ k <= n /\ k - 1 <= n /\ k - 1 \in 1..10 /\ k \in 1..10
            BY <2>1, <2>3
        <3>2. wrong[i] = base[i + 1] /\ wrong[i + 1] = base[i]
            BY <2>1, <2>4
        <3>3. a[k] = base[n - k + 1] /\ b[k] = wrong[n - k + 1]
            BY <1>1, <2>2, <2>6, <3>1 DEF Digits, Digit
        <3>4. a[k - 1] = base[n - (k - 1) + 1] /\ b[k - 1] = wrong[n - (k - 1) + 1]
            BY <1>1, <2>2, <2>6, <3>1 DEF Digits, Digit
        <3>5. QED
            BY <3>1, <3>2, <3>3, <3>4
    <2>8. ASSUME NEW j \in 1..10, j # k, j # k - 1 PROVE b[j] = a[j]
        <3>1. CASE j <= n
            <4>1. n - j + 1 \in 1..n /\ n - j + 1 # i /\ n - j + 1 # i + 1
                BY <2>3, <2>8, <3>1
            <4>2. QED
                BY <1>1, <2>2, <2>4, <2>6, <3>1, <4>1 DEF Digits, Digit
        <3>2. CASE ~ (j <= n)
            BY <1>1, <2>2, <2>6, <3>2 DEF Digits, Digit
        <3>3. QED
            BY <3>1, <3>2
    <2>9. a \in [1..10 -> 0..9] /\ b \in [1..10 -> 0..9]
        BY <2>2, <2>6, RemainderIs
    <2>10. Weighted(a) % 11 # Weighted(b) % 11
        BY <2>5, <2>7, <2>8, <2>9, TwoSwapped
    <2>11. QED
        BY <2>2, <2>6, <2>10, RemainderIs
<1>5. QED
    BY <1>1, <1>2, <1>3, <1>4 DEF Misreadings

\* Two remainders with one check digit are the same, or 1 and 10.
LEMMA SharedCheckDigit ==
    ASSUME NEW base \in Seq(0..9), NEW wrong \in Seq(0..9),
           expected(base) = expected(wrong), remainder(base) # remainder(wrong)
    PROVE  {remainder(base), remainder(wrong)} = {1, 10}
<1>1. PICK r \in 0..10, s \in 0..10 : r = remainder(base) /\ s = remainder(wrong)
    BY RemainderIs
<1>2. (IF r < 2 THEN r ELSE 11 - r) = (IF s < 2 THEN s ELSE 11 - s) /\ r # s
    BY <1>1 DEF expected
<1>3. (r = 1 /\ s = 10) \/ (r = 10 /\ s = 1)
    BY <1>2
<1>4. QED
    BY <1>1, <1>3

\* A NIT with one digit wrong, or two neighbours swapped, is refused unless the
\* remainders are 1 and 10 (the weights and the "remainder < 2" branch of
\* src/internal/receipt/nit.go).
THEOREM MisreadNITsAreRefused == Spec => []MisreadNITIsRefused
<1>1. ASSUME NITOfDigits, IsBase, NEW wrong \in Misreadings(text) \ {text},
             ValidateNIT(wrong, expected(text))
      PROVE  {remainder(text), remainder(wrong)} = {1, 10}
    <2>1. text \in Seq(0..9)
        BY <1>1 DEF NITOfDigits, IsBase
    <2>2. wrong \in Seq(0..9) /\ remainder(wrong) # remainder(text)
        BY <1>1, <2>1, MisreadingsDiffer
    <2>3. expected(text) = expected(wrong)
        BY <1>1 DEF ValidateNIT
    <2>4. QED
        BY <2>1, <2>2, <2>3, SharedCheckDigit
<1>2. NITOfDigits => MisreadNITIsRefused
    BY <1>1 DEF MisreadNITIsRefused
<1>3. QED
    BY <1>2, Invariance, PTL

-----------------------------------------------------------------------------
(* Recursion along a text.  Induction is a smallest counterexample, for a  *)
(* property given as the set of numbers that have it.                      *)

LEMMA SmallestNat ==
    ASSUME NEW T \in SUBSET Nat, T # {}
    PROVE  \E n \in T : \A m \in T : n <= m
<1>1. PICK n \in T : \A m \in T : ~(<<m, n>> \in OpToRel(<, Nat))
    BY NatLessThanWellFounded, WFMin
<1>2. ASSUME NEW m \in T PROVE n <= m
    <2>1. m \in Nat /\ n \in Nat /\ ~(m < n)
        BY <1>1 DEF OpToRel
    <2>2. QED
        BY <2>1
<1>3. QED
    BY <1>2

LEMMA Upwards ==
    ASSUME NEW N \in Nat, NEW X, 0 \in X, \A n \in 1..N : n - 1 \in X => n \in X
    PROVE  \A n \in 0..N : n \in X
<1> DEFINE T == {n \in 0..N : n \notin X}
<1>1. SUFFICES ASSUME T # {} PROVE FALSE
    OBVIOUS
<1>2. PICK n \in T : \A m \in T : n <= m
    <2>1. T \in SUBSET Nat
        OBVIOUS
    <2> HIDE DEF T
    <2>2. QED
        BY <1>1, <2>1, SmallestNat
<1>3. n \in 1..N /\ n - 1 \in 0..N /\ ~(n <= n - 1)
    BY <1>2
<1>4. n - 1 \in X
    BY <1>2, <1>3
<1>5. QED
    BY <1>2, <1>3, <1>4

\* Functions that start alike and continue alike are alike.
InStep(f, g, N) == f[0] = g[0] /\ \A n \in 1..N : f[n - 1] = g[n - 1] => f[n] = g[n]

LEMMA Alike ==
    ASSUME NEW N \in Nat, NEW f, NEW g, InStep(f, g, N)
    PROVE  \A n \in 0..N : f[n] = g[n]
<1> USE DEF InStep
<1> DEFINE X == {n \in 0..N : f[n] = g[n]}
<1>1. 0 \in X
    OBVIOUS
<1>2. \A n \in 1..N : n - 1 \in X => n \in X
    OBVIOUS
<1> HIDE DEF X
<1>3. \A n \in 0..N : n \in X
    BY <1>1, <1>2, Upwards
<1>4. QED
    BY <1>3 DEF X

\* The steps of a recursion up to N over the set S, and a function that takes them.
StepsIn(step, N, S) == step \in [1..N -> [S -> S]]

Follows(f, base, step, N, S) ==
    /\ f \in [0..N -> S]
    /\ f[0] = base
    /\ \A n \in 1..N : f[n] = step[n][f[n - 1]]

\* A recursion whose steps stay in a set defines a function.
LEMMA Recursion ==
    ASSUME NEW N \in Nat, NEW S, NEW base \in S, NEW step, StepsIn(step, N, S)
    PROVE  \E f : Follows(f, base, step, N, S)
<1> USE DEF StepsIn, Follows
<1> DEFINE Upto(k, f) == f[0] = base /\ \A n \in 1..k : f[n] = step[n][f[n - 1]]
           X == {k \in 0..N : \E f \in [0..k -> S] : Upto(k, f)}
<1>1. 0 \in X
    <2>1. [n \in 0..0 |-> base] \in [0..0 -> S] /\ Upto(0, [n \in 0..0 |-> base])
        OBVIOUS
    <2>2. 0 \in 0..N
        OBVIOUS
    <2> HIDE DEF Upto
    <2>3. \E f \in [0..0 -> S] : Upto(0, f)
        BY <2>1
    <2>4. QED
        BY <2>2, <2>3
<1>2. ASSUME NEW k \in 1..N, k - 1 \in X
      PROVE  k \in X
    <2>1. PICK f \in [0..(k - 1) -> S] : Upto(k - 1, f)
        BY <1>2
    <2> DEFINE g == [n \in 0..k |-> IF n = k THEN step[k][f[k - 1]] ELSE f[n]]
    <2>2. k - 1 \in 0..(k - 1) /\ step[k] \in [S -> S] /\ f[k - 1] \in S
        BY <2>1
    <2>3. g \in [0..k -> S]
        BY <2>1, <2>2
    <2>4. g[0] = base
        BY <2>1
    <2>5. ASSUME NEW n \in 1..k PROVE g[n] = step[n][g[n - 1]]
        <3>1. CASE n = k
            BY <2>2, <3>1
        <3>2. CASE n # k
            BY <2>1, <3>2
        <3>3. QED
            BY <3>1, <3>2
    <2>6. Upto(k, g)
        BY <2>4, <2>5
    <2> HIDE DEF g
    <2>7. QED
        BY <2>3, <2>6
<1>3. N \in X
    <2> HIDE DEF X
    <2>1. \A n \in 0..N : n \in X
        BY <1>1, <1>2, Upwards
    <2>2. QED
        BY <2>1
<1>4. QED
    BY <1>3

-----------------------------------------------------------------------------
(* The recursive functions of ReceiptText.                                 *)

Chars == 0..11

Keeps(f, s, ch) ==
    f = [n \in 0..Len(s) |-> IF n = 0 THEN <<>>
                             ELSE IF s[n] = ch THEN f[n - 1] ELSE Append(f[n - 1], s[n])]

Numbers(f, s) == f = [n \in 0..Len(s) |-> IF n = 0 THEN 0 ELSE 10 * f[n - 1] + s[n]]

Sums(f, s) == f = [n \in 0..Len(s) |-> IF n = 0 THEN 0 ELSE f[n - 1] + DigitCounts(s, n)]

Powers(f, k) == f = [n \in 0..k |-> IF n = 0 THEN 1 ELSE 10 * f[n - 1]]

LEMMA AreChosen ==
    /\ \A s, ch : Without(s, ch) = (CHOOSE f : Keeps(f, s, ch))[Len(s)]
    /\ \A s : NumberOf(s) = (CHOOSE f : Numbers(f, s))[Len(s)]
    /\ \A s : Meaning(s).digits = (CHOOSE f : Sums(f, s))[Len(s)]
    /\ \A k : TenTo(k) = (CHOOSE f : Powers(f, k))[k]
BY DEF Without, NumberOf, Meaning, TenTo, Keeps, Numbers, Sums, Powers

LEMMA KeepsAt ==
    ASSUME NEW f, NEW s, NEW ch, Keeps(f, s, ch), Len(s) \in Nat
    PROVE  /\ f[0] = <<>>
           /\ \A n \in 1..Len(s) : f[n] = IF s[n] = ch THEN f[n - 1] ELSE Append(f[n - 1], s[n])
<1>1. ASSUME NEW n \in 0..Len(s)
      PROVE  f[n] = IF n = 0 THEN <<>> ELSE IF s[n] = ch THEN f[n - 1] ELSE Append(f[n - 1], s[n])
    BY DEF Keeps
<1>2. QED
    BY <1>1

\* The text without ch is the last value of any function that keeps the others.
LEMMA WithoutIs ==
    ASSUME NEW s \in Seq(Chars), NEW ch
    PROVE  \E f \in [0..Len(s) -> Seq(Chars)] : Keeps(f, s, ch) /\ Without(s, ch) = f[Len(s)]
<1>1. Len(s) \in Nat
    OBVIOUS
<1>2. PICK S : S = Seq(Chars)
    OBVIOUS
<1> DEFINE step == [n \in 1..Len(s) |-> [w \in S |-> IF s[n] = ch THEN w ELSE Append(w, s[n])]]
<1>3. StepsIn(step, Len(s), S)
    <2>1. ASSUME NEW n \in 1..Len(s), NEW w \in S
          PROVE  (IF s[n] = ch THEN w ELSE Append(w, s[n])) \in S
        BY <1>1, <1>2
    <2>2. QED
        BY <2>1 DEF StepsIn
<1>4. PICK f : f \in [0..Len(s) -> S] /\ f[0] = <<>>
                 /\ \A n \in 1..Len(s) : f[n] = step[n][f[n - 1]]
    <2>1. <<>> \in S
        BY <1>2
    <2>2. \E f : Follows(f, <<>>, step, Len(s), S)
        BY <1>1, <1>3, <2>1, Recursion
    <2> HIDE DEF step
    <2>3. QED
        BY <2>2 DEF Follows
<1>5. Keeps(f, s, ch)
    <2>1. ASSUME NEW n \in 1..Len(s)
          PROVE  f[n] = IF s[n] = ch THEN f[n - 1] ELSE Append(f[n - 1], s[n])
        <3>1. f[n - 1] \in S
            BY <1>4
        <3>2. QED
            BY <1>4, <3>1
    <2>2. f = [n \in 0..Len(s) |-> f[n]]
        BY <1>4
    <2> HIDE DEF step
    <2>5. ASSUME NEW n \in 0..Len(s)
          PROVE  f[n] = IF n = 0 THEN <<>>
                        ELSE IF s[n] = ch THEN f[n - 1] ELSE Append(f[n - 1], s[n])
        <3>1. CASE n = 0
            BY <1>4, <3>1
        <3>2. CASE n # 0
            <4>1. n \in 1..Len(s)
                BY <3>2
            <4>2. QED
                BY <2>1, <3>2, <4>1
        <3>3. QED
            BY <3>1, <3>2
    <2>3. [n \in 0..Len(s) |-> f[n]] =
            [n \in 0..Len(s) |-> IF n = 0 THEN <<>>
                            ELSE IF s[n] = ch THEN f[n - 1] ELSE Append(f[n - 1], s[n])]
        BY <2>5
    <2>4. QED
        BY <1>1, <2>2, <2>3, Zenon DEF Keeps
<1> HIDE DEF step
<1>6. PICK g : Keeps(g, s, ch) /\ Without(s, ch) = g[Len(s)]
    BY <1>1, <1>5, AreChosen
<1>7. g[Len(s)] = f[Len(s)]
    <2>1. /\ g[0] = <<>> /\ f[0] = <<>>
          /\ \A n \in 1..Len(s) : g[n] = IF s[n] = ch THEN g[n - 1] ELSE Append(g[n - 1], s[n])
          /\ \A n \in 1..Len(s) : f[n] = IF s[n] = ch THEN f[n - 1] ELSE Append(f[n - 1], s[n])
        BY <1>1, <1>5, <1>6, KeepsAt
    <2>2. \A n \in 1..Len(s) : g[n - 1] = f[n - 1] => g[n] = f[n]
        BY <2>1
    <2>3. InStep(g, f, Len(s))
        BY <2>2, <2>1 DEF InStep
    <2>4. \A n \in 0..Len(s) : g[n] = f[n]
        BY <1>1, <2>3, Alike
    <2>5. QED
        BY <2>4
<1>8. QED
    BY <1>1, <1>2, <1>4, <1>5, <1>6, <1>7

\* A function that grows by a fixed factor and a term at each position.
Grows(f, base, a, term, N) ==
    /\ f \in [0..N -> Nat]
    /\ f[0] = base
    /\ \A n \in 1..N : f[n] = a * f[n - 1] + term[n]

TermsUpTo(term, N) == term \in [1..N -> Nat]

LEMMA Linear ==
    ASSUME NEW N \in Nat, NEW base \in Nat, NEW a \in {1, 10}, NEW term, TermsUpTo(term, N)
    PROVE  \E f : Grows(f, base, a, term, N)
<1> USE DEF TermsUpTo
<1> DEFINE step == [n \in 1..N |-> [v \in Nat |-> a * v + term[n]]]
<1>1. StepsIn(step, N, Nat)
    <2>1. ASSUME NEW n \in 1..N, NEW v \in Nat PROVE a * v + term[n] \in Nat
        OBVIOUS
    <2>2. QED
        BY <2>1 DEF StepsIn
<1>2. PICK f : Follows(f, base, step, N, Nat)
    <2> HIDE DEF step
    <2>1. QED
        BY <1>1, Recursion
<1>3. ASSUME NEW n \in 1..N PROVE f[n] = a * f[n - 1] + term[n]
    <2>1. f[n - 1] \in Nat /\ f[n] = step[n][f[n - 1]]
        <3> HIDE DEF step
        <3>1. QED
            BY <1>2 DEF Follows
    <2>2. QED
        BY <2>1
<1>4. Grows(f, base, a, term, N)
    BY <1>2, <1>3 DEF Follows, Grows
<1>5. QED
    BY <1>4

LEMMA NumbersAt ==
    ASSUME NEW f, NEW s, Numbers(f, s), Len(s) \in Nat
    PROVE  f[0] = 0 /\ \A n \in 1..Len(s) : f[n] = 10 * f[n - 1] + s[n]
<1>1. ASSUME NEW n \in 0..Len(s)
      PROVE  f[n] = IF n = 0 THEN 0 ELSE 10 * f[n - 1] + s[n]
    BY DEF Numbers
<1>2. QED
    BY <1>1

LEMMA SumsAt ==
    ASSUME NEW f, NEW s, Sums(f, s), Len(s) \in Nat
    PROVE  f[0] = 0 /\ \A n \in 1..Len(s) : f[n] = f[n - 1] + DigitCounts(s, n)
<1>1. ASSUME NEW n \in 0..Len(s)
      PROVE  f[n] = IF n = 0 THEN 0 ELSE f[n - 1] + DigitCounts(s, n)
    BY DEF Sums
<1>2. QED
    BY <1>1

LEMMA PowersAt ==
    ASSUME NEW f, NEW k \in Nat, Powers(f, k)
    PROVE  f[0] = 1 /\ \A n \in 1..k : f[n] = 10 * f[n - 1]
<1>1. ASSUME NEW n \in 0..k
      PROVE  f[n] = IF n = 0 THEN 1 ELSE 10 * f[n - 1]
    BY DEF Powers
<1>2. QED
    BY <1>1

\* The number written by s is the last value of any function that reads on.
LEMMA NumberOfIs ==
    ASSUME NEW s \in Seq(Chars)
    PROVE  \E f \in [0..Len(s) -> Nat] : Numbers(f, s) /\ NumberOf(s) = f[Len(s)]
<1>1. Len(s) \in Nat
    OBVIOUS
<1>2. PICK f \in [0..Len(s) -> Nat] :
          f[0] = 0 /\ \A n \in 1..Len(s) : f[n] = 10 * f[n - 1] + s[n]
    <2> DEFINE term == [n \in 1..Len(s) |-> s[n]]
    <2>1. TermsUpTo(term, Len(s))
        BY DEF Chars, TermsUpTo
    <2>2. \A n \in 1..Len(s) : term[n] = s[n]
        OBVIOUS
    <2> HIDE DEF term
    <2>3. \E f : Grows(f, 0, 10, term, Len(s))
        BY <1>1, <2>1, Linear
    <2>4. QED
        BY <2>2, <2>3 DEF Grows
<1>3. Numbers(f, s)
    <2>1. f = [n \in 0..Len(s) |-> f[n]]
        BY <1>2
    <2>2. ASSUME NEW n \in 0..Len(s)
          PROVE  f[n] = IF n = 0 THEN 0 ELSE 10 * f[n - 1] + s[n]
        BY <1>1, <1>2
    <2>3. [n \in 0..Len(s) |-> f[n]] =
              [n \in 0..Len(s) |-> IF n = 0 THEN 0 ELSE 10 * f[n - 1] + s[n]]
        BY <2>2
    <2>4. QED
        BY <2>1, <2>3, Zenon DEF Numbers
<1>4. PICK g : Numbers(g, s) /\ NumberOf(s) = g[Len(s)]
    BY <1>3, AreChosen
<1>5. g[Len(s)] = f[Len(s)]
    <2>1. g[0] = 0 /\ \A n \in 1..Len(s) : g[n] = 10 * g[n - 1] + s[n]
        BY <1>1, <1>4, NumbersAt
    <2>2. \A n \in 1..Len(s) : g[n - 1] = f[n - 1] => g[n] = f[n]
        BY <1>2, <2>1
    <2>3. InStep(g, f, Len(s))
        BY <2>2, <1>2, <2>1 DEF InStep
    <2>4. \A n \in 0..Len(s) : g[n] = f[n]
        BY <1>1, <2>3, Alike
    <2>5. QED
        BY <1>1, <2>4
<1>6. QED
    BY <1>2, <1>3, <1>4, <1>5

LEMMA PowersAgree ==
    ASSUME NEW k \in Nat, NEW f, NEW g, Powers(f, k), Powers(g, k)
    PROVE  \A n \in 0..k : f[n] = g[n]
<1>1. f[0] = 1 /\ \A n \in 1..k : f[n] = 10 * f[n - 1]
    BY PowersAt
<1>2. g[0] = 1 /\ \A n \in 1..k : g[n] = 10 * g[n - 1]
    BY PowersAt
<1>3. \A n \in 1..k : f[n - 1] = g[n - 1] => f[n] = g[n]
    BY <1>1, <1>2
<1>4. InStep(f, g, k)
    BY <1>1, <1>2, <1>3 DEF InStep
<1>5. QED
    BY <1>4, Alike

LEMMA TenToIs ==
    ASSUME NEW k, k \in Nat
    PROVE  \E f \in [0..k -> Nat] : Powers(f, k) /\ TenTo(k) = f[k]
<1>2. PICK f \in [0..k -> Nat] : f[0] = 1 /\ \A n \in 1..k : f[n] = 10 * f[n - 1]
    <2> DEFINE term == [n \in 1..k |-> 0]
    <2>1. TermsUpTo(term, k) /\ \A n \in 1..k : term[n] = 0
        BY DEF TermsUpTo
    <2> HIDE DEF term
    <2>2. PICK f : Grows(f, 1, 10, term, k)
        BY <2>1, Linear
    <2>3. ASSUME NEW n \in 1..k PROVE f[n] = 10 * f[n - 1]
        <3>1. f[n - 1] \in Nat /\ term[n] = 0
            BY <2>1, <2>2 DEF Grows
        <3>2. QED
            BY <2>2, <3>1 DEF Grows
    <2>4. QED
        BY <2>2, <2>3 DEF Grows
<1>3. Powers(f, k)
    <2>1. f = [n \in 0..k |-> f[n]]
        BY <1>2
    <2>2. ASSUME NEW n \in 0..k PROVE f[n] = IF n = 0 THEN 1 ELSE 10 * f[n - 1]
        BY <1>2
    <2>3. [n \in 0..k |-> f[n]] = [n \in 0..k |-> IF n = 0 THEN 1 ELSE 10 * f[n - 1]]
        BY <2>2
    <2>4. QED
        BY <2>1, <2>3, Zenon DEF Powers
<1>4. PICK g : Powers(g, k) /\ TenTo(k) = g[k]
    BY <1>3, AreChosen
<1>5. g[k] = f[k]
    BY <1>3, <1>4, PowersAgree
<1>6. QED
    BY <1>2, <1>3, <1>4, <1>5

LEMMA TenToNext ==
    ASSUME NEW k \in Nat
    PROVE  /\ TenTo(k) \in Nat
           /\ TenTo(0) = 1
           /\ TenTo(k + 1) = 10 * TenTo(k)
<1>0. k + 1 \in Nat /\ 0 \in Nat
    OBVIOUS
<1>1. PICK f \in [0..k -> Nat] : Powers(f, k) /\ TenTo(k) = f[k]
    BY TenToIs
<1>2. PICK g \in [0..(k + 1) -> Nat] : Powers(g, k + 1) /\ TenTo(k + 1) = g[k + 1]
    BY <1>0, TenToIs
<1>3. PICK h \in [0..0 -> Nat] : Powers(h, 0) /\ TenTo(0) = h[0]
    BY <1>0, TenToIs
<1>4. f[0] = 1 /\ \A n \in 1..k : f[n] = 10 * f[n - 1]
    BY <1>1, PowersAt
<1>5. g[0] = 1 /\ \A n \in 1..(k + 1) : g[n] = 10 * g[n - 1]
    BY <1>0, <1>2, PowersAt
<1>6. h[0] = 1
    BY <1>0, <1>3, PowersAt
<1>7. \A n \in 1..k : g[n - 1] = f[n - 1] => g[n] = f[n]
    BY <1>4, <1>5
<1>8. InStep(g, f, k)
    BY <1>7, <1>4, <1>5 DEF InStep
<1>9. \A n \in 0..k : g[n] = f[n]
    BY <1>8, Alike
<1>10. g[k + 1] = 10 * g[k] /\ g[k] = f[k] /\ f[k] \in Nat
    BY <1>1, <1>5, <1>9
<1>11. QED
    BY <1>1, <1>2, <1>3, <1>6, <1>10

\* A digit counts for a natural number.
LEMMA CountsType ==
    ASSUME NEW s \in Seq(Chars), NEW i \in 1..Len(s)
    PROVE  DigitsAfter(s, i) \in Nat /\ DigitCounts(s, i) \in Nat
<1>1. i + 1 \in Int /\ Len(s) \in Int
    OBVIOUS
<1>2. IsFiniteSet((i + 1)..Len(s))
    BY <1>1, FS_Interval
<1>3. DigitsAfter(s, i) \in Nat
    BY <1>2, FS_Subset, FS_CardinalityType DEF DigitsAfter
<1>4. TenTo(DigitsAfter(s, i)) \in Nat
    BY <1>3, TenToNext
<1>5. s[i] \in Nat
    BY DEF Chars
<1>6. QED
    BY <1>3, <1>4, <1>5 DEF DigitCounts

LEMMA SumsIs ==
    ASSUME NEW s \in Seq(Chars)
    PROVE  \E f \in [0..Len(s) -> Nat] : Sums(f, s) /\ Meaning(s).digits = f[Len(s)]
<1>1. Len(s) \in Nat
    OBVIOUS
<1>2. PICK f \in [0..Len(s) -> Nat] :
          f[0] = 0 /\ \A n \in 1..Len(s) : f[n] = f[n - 1] + DigitCounts(s, n)
    <2> DEFINE term == [n \in 1..Len(s) |-> DigitCounts(s, n)]
    <2>1. TermsUpTo(term, Len(s))
        BY CountsType DEF TermsUpTo
    <2>2. \A n \in 1..Len(s) : term[n] = DigitCounts(s, n)
        OBVIOUS
    <2> HIDE DEF term
    <2>3. PICK f : Grows(f, 0, 1, term, Len(s))
        BY <1>1, <2>1, Linear
    <2>4. ASSUME NEW n \in 1..Len(s) PROVE f[n] = f[n - 1] + DigitCounts(s, n)
        <3>1. f[n - 1] \in Nat /\ f[n] = 1 * f[n - 1] + term[n]
            BY <2>3 DEF Grows
        <3>2. QED
            BY <2>2, <3>1
    <2>5. QED
        BY <2>3, <2>4 DEF Grows
<1>3. Sums(f, s)
    <2>1. f = [n \in 0..Len(s) |-> f[n]]
        BY <1>2
    <2>2. ASSUME NEW n \in 0..Len(s)
          PROVE  f[n] = IF n = 0 THEN 0 ELSE f[n - 1] + DigitCounts(s, n)
        BY <1>1, <1>2
    <2>3. [n \in 0..Len(s) |-> f[n]] =
              [n \in 0..Len(s) |-> IF n = 0 THEN 0 ELSE f[n - 1] + DigitCounts(s, n)]
        BY <2>2
    <2>4. QED
        BY <2>1, <2>3, Zenon DEF Sums
<1>4. PICK g : Sums(g, s) /\ Meaning(s).digits = g[Len(s)]
    BY <1>3, AreChosen
<1>5. g[Len(s)] = f[Len(s)]
    <2>1. g[0] = 0 /\ \A n \in 1..Len(s) : g[n] = g[n - 1] + DigitCounts(s, n)
        BY <1>1, <1>4, SumsAt
    <2>2. \A n \in 1..Len(s) : g[n - 1] = f[n - 1] => g[n] = f[n]
        BY <1>2, <2>1
    <2>3. InStep(g, f, Len(s))
        BY <2>2, <1>2, <2>1 DEF InStep
    <2>4. \A n \in 0..Len(s) : g[n] = f[n]
        BY <1>1, <2>3, Alike
    <2>5. QED
        BY <1>1, <2>4
<1>6. QED
    BY <1>2, <1>3, <1>4, <1>5

-----------------------------------------------------------------------------
(* What one more character does.                                           *)

LEMMA AppendFacts ==
    ASSUME NEW s \in Seq(Chars), NEW x \in Chars
    PROVE  /\ Append(s, x) \in Seq(Chars)
           /\ Len(s) \in Nat
           /\ Len(Append(s, x)) = Len(s) + 1
           /\ Append(s, x)[Len(s) + 1] = x
           /\ \A n \in 1..Len(s) : Append(s, x)[n] = s[n]
OBVIOUS

LEMMA WithoutAppend ==
    ASSUME NEW s \in Seq(Chars), NEW x \in Chars, NEW ch
    PROVE  /\ Without(s, ch) \in Seq(Chars)
           /\ Without(Append(s, x), ch) =
                  IF x = ch THEN Without(s, ch) ELSE Append(Without(s, ch), x)
<1> DEFINE t == Append(s, x)
<1>1. /\ t \in Seq(Chars) /\ Len(s) \in Nat /\ Len(t) = Len(s) + 1 /\ t[Len(s) + 1] = x
      /\ \A n \in 1..Len(s) : t[n] = s[n]
    BY AppendFacts
<1> HIDE DEF t
<1>2. PICK f \in [0..Len(s) -> Seq(Chars)] : Keeps(f, s, ch) /\ Without(s, ch) = f[Len(s)]
    BY WithoutIs
<1>3. PICK g \in [0..Len(t) -> Seq(Chars)] : Keeps(g, t, ch) /\ Without(t, ch) = g[Len(t)]
    BY <1>1, WithoutIs
<1>4. /\ f[0] = <<>>
      /\ \A n \in 1..Len(s) : f[n] = IF s[n] = ch THEN f[n - 1] ELSE Append(f[n - 1], s[n])
    BY <1>1, <1>2, KeepsAt
<1>5. Len(t) \in Nat
    BY <1>1
<1>6. /\ g[0] = <<>>
      /\ \A n \in 1..Len(t) : g[n] = IF t[n] = ch THEN g[n - 1] ELSE Append(g[n - 1], t[n])
    BY <1>3, <1>5, KeepsAt
<1>7. \A n \in 1..Len(s) : g[n - 1] = f[n - 1] => g[n] = f[n]
    BY <1>1, <1>4, <1>6
<1>8. InStep(g, f, Len(s))
    BY <1>7, <1>1, <1>4, <1>6 DEF InStep
<1>9. \A n \in 0..Len(s) : g[n] = f[n]
    BY <1>1, <1>8, Alike
<1>10. g[Len(s)] = f[Len(s)] /\ f[Len(s)] \in Seq(Chars)
    BY <1>1, <1>2, <1>9
<1>11. g[Len(s) + 1] = IF x = ch THEN g[Len(s)] ELSE Append(g[Len(s)], x)
    BY <1>1, <1>6
<1>12. QED
    BY <1>1, <1>2, <1>3, <1>10, <1>11 DEF t

LEMMA NumberAppend ==
    ASSUME NEW s \in Seq(Chars), NEW x \in Chars
    PROVE  NumberOf(s) \in Nat /\ NumberOf(Append(s, x)) = 10 * NumberOf(s) + x
<1> DEFINE t == Append(s, x)
<1>1. /\ t \in Seq(Chars) /\ Len(s) \in Nat /\ Len(t) = Len(s) + 1 /\ t[Len(s) + 1] = x
      /\ \A n \in 1..Len(s) : t[n] = s[n]
    BY AppendFacts
<1> HIDE DEF t
<1>2. PICK f \in [0..Len(s) -> Nat] : Numbers(f, s) /\ NumberOf(s) = f[Len(s)]
    BY NumberOfIs
<1>3. PICK g \in [0..Len(t) -> Nat] : Numbers(g, t) /\ NumberOf(t) = g[Len(t)]
    BY <1>1, NumberOfIs
<1>4. f[0] = 0 /\ \A n \in 1..Len(s) : f[n] = 10 * f[n - 1] + s[n]
    BY <1>1, <1>2, NumbersAt
<1>5. Len(t) \in Nat
    BY <1>1
<1>6. g[0] = 0 /\ \A n \in 1..Len(t) : g[n] = 10 * g[n - 1] + t[n]
    BY <1>3, <1>5, NumbersAt
<1>7. \A n \in 1..Len(s) : g[n - 1] = f[n - 1] => g[n] = f[n]
    BY <1>1, <1>4, <1>6
<1>8. InStep(g, f, Len(s))
    BY <1>7, <1>1, <1>4, <1>6 DEF InStep
<1>9. \A n \in 0..Len(s) : g[n] = f[n]
    BY <1>1, <1>8, Alike
<1>10. g[Len(s)] = f[Len(s)] /\ f[Len(s)] \in Nat
    BY <1>1, <1>2, <1>9
<1>11. g[Len(s) + 1] = 10 * g[Len(s)] + x
    BY <1>1, <1>6
<1>12. QED
    BY <1>1, <1>2, <1>3, <1>10, <1>11 DEF t

-----------------------------------------------------------------------------
(* What one more character means.                                          *)

\* How many characters of C a text has after position i.
Count(s, i, C) == Cardinality({j \in (i + 1)..Len(s) : s[j] \in C})

LEMMA CountAppend ==
    ASSUME NEW s \in Seq(Chars), NEW x \in Chars, NEW i \in 0..Len(s), NEW C
    PROVE  /\ Count(s, i, C) \in Nat
           /\ Count(Append(s, x), i, C) =
                  IF x \in C THEN Count(s, i, C) + 1 ELSE Count(s, i, C)
<1> DEFINE t == Append(s, x)
           before == {j \in (i + 1)..Len(s) : s[j] \in C}
           after  == {j \in (i + 1)..Len(t) : t[j] \in C}
<1>1. /\ t \in Seq(Chars) /\ Len(s) \in Nat /\ Len(t) = Len(s) + 1 /\ t[Len(s) + 1] = x
      /\ \A n \in 1..Len(s) : t[n] = s[n]
    BY AppendFacts
<1> HIDE DEF t
<1>2. IsFiniteSet(before) /\ Cardinality(before) \in Nat
    <2>1. i + 1 \in Int /\ Len(s) \in Int
        BY <1>1
    <2>2. IsFiniteSet((i + 1)..Len(s))
        BY <2>1, FS_Interval
    <2>3. QED
        BY <2>2, FS_Subset, FS_CardinalityType
<1>3. after = IF x \in C THEN before \cup {Len(s) + 1} ELSE before
    <2>1. \A j \in (i + 1)..Len(t) : j \in (i + 1)..Len(s) \/ j = Len(s) + 1
        BY <1>1
    <2>2. \A j \in (i + 1)..Len(s) : j \in 1..Len(s) /\ j \in (i + 1)..Len(t) /\ j # Len(s) + 1
        BY <1>1
    <2>3. Len(s) + 1 \in (i + 1)..Len(t)
        BY <1>1
    <2>4. QED
        BY <1>1, <2>1, <2>2, <2>3
<1>4. Len(s) + 1 \notin before
    BY <1>1
<1> HIDE DEF before, after
<1>5. Cardinality(after) = IF x \in C THEN Cardinality(before) + 1 ELSE Cardinality(before)
    BY <1>2, <1>3, <1>4, FS_AddElement
<1>6. QED
    BY <1>2, <1>5 DEF Count, t, before, after

LEMMA CountsAppend ==
    ASSUME NEW s \in Seq(Chars), NEW x \in Chars, NEW i \in 1..Len(s)
    PROVE  DigitCounts(Append(s, x), i) =
               IF x \in 0..9 THEN 10 * DigitCounts(s, i) ELSE DigitCounts(s, i)
<1>1. DigitsAfter(s, i) \in Nat
    BY CountsType
<1>2. DigitsAfter(Append(s, x), i) =
          IF x \in 0..9 THEN DigitsAfter(s, i) + 1 ELSE DigitsAfter(s, i)
    <2>1. i \in 0..Len(s)
        OBVIOUS
    <2>2. PICK C : C = 0..9
        OBVIOUS
    <2>3. DigitsAfter(s, i) = Count(s, i, C) /\ DigitsAfter(Append(s, x), i) = Count(Append(s, x), i, C)
        BY <2>2 DEF DigitsAfter, Count
    <2>4. Count(Append(s, x), i, C) = IF x \in C THEN Count(s, i, C) + 1 ELSE Count(s, i, C)
        BY <2>1, CountAppend
    <2>5. QED
        BY <2>2, <2>3, <2>4
<1>3. Append(s, x)[i] = s[i] /\ s[i] \in Nat
    BY DEF Chars
<1>4. CASE x \in 0..9
    <2>1. TenTo(DigitsAfter(Append(s, x), i)) = 10 * TenTo(DigitsAfter(s, i))
        BY <1>1, <1>2, <1>4, TenToNext
    <2>2. PICK p \in Nat : p = TenTo(DigitsAfter(s, i))
        BY <1>1, TenToNext
    <2>3. PICK d \in Nat : d = s[i]
        BY <1>3
    <2>4. d * (10 * p) = 10 * (d * p)
        OBVIOUS
    <2>5. QED
        BY <1>3, <1>4, <2>1, <2>2, <2>3, <2>4 DEF DigitCounts
<1>5. CASE x \notin 0..9
    BY <1>2, <1>3, <1>5 DEF DigitCounts
<1>6. QED
    BY <1>4, <1>5

LEMMA LastCounts ==
    ASSUME NEW s \in Seq(Chars), NEW x \in Chars
    PROVE  DigitCounts(Append(s, x), Len(s) + 1) = IF x \in 0..9 THEN x ELSE 0
<1>1. /\ Len(s) \in Nat /\ Len(Append(s, x)) = Len(s) + 1 /\ Append(s, x)[Len(s) + 1] = x
    BY AppendFacts
<1>2. {j \in (Len(s) + 1 + 1)..Len(Append(s, x)) : Append(s, x)[j] \in 0..9} = {}
    BY <1>1
<1>3. DigitsAfter(Append(s, x), Len(s) + 1) = 0
    BY <1>2, FS_EmptySet DEF DigitsAfter
<1>4. TenTo(0) = 1 /\ x \in Nat
    BY TenToNext DEF Chars
<1>5. QED
    BY <1>1, <1>3, <1>4 DEF DigitCounts

\* One more digit makes the number ten times as large and adds the digit.
LEMMA MeaningAppend ==
    ASSUME NEW s \in Seq(Chars), NEW x \in Chars
    PROVE  /\ Meaning(s).digits \in Nat
           /\ Meaning(Append(s, x)).digits =
                  IF x \in 0..9 THEN 10 * Meaning(s).digits + x ELSE Meaning(s).digits
<1> DEFINE t == Append(s, x)
           a == IF x \in 0..9 THEN 10 ELSE 1
<1>1. t \in Seq(Chars) /\ Len(s) \in Nat /\ Len(t) = Len(s) + 1 /\ Len(t) \in Nat
    BY AppendFacts
<1>2. /\ \A n \in 1..Len(s) : DigitCounts(t, n) = a * DigitCounts(s, n)
      /\ DigitCounts(t, Len(s) + 1) = IF x \in 0..9 THEN x ELSE 0
    <2>1. ASSUME NEW n \in 1..Len(s) PROVE DigitCounts(t, n) = a * DigitCounts(s, n)
        <3>1. DigitCounts(t, n) = IF x \in 0..9 THEN 10 * DigitCounts(s, n) ELSE DigitCounts(s, n)
            BY CountsAppend
        <3>2. DigitCounts(s, n) \in Nat
            BY CountsType
        <3>3. QED
            BY <3>1, <3>2
    <2>2. QED
        BY <2>1, LastCounts
<1>3. a \in Nat
    OBVIOUS
<1> HIDE DEF t
<1>4. PICK f \in [0..Len(s) -> Nat] : Sums(f, s) /\ Meaning(s).digits = f[Len(s)]
    BY SumsIs
<1>5. PICK g \in [0..Len(t) -> Nat] : Sums(g, t) /\ Meaning(t).digits = g[Len(t)]
    BY <1>1, SumsIs
<1>6. f[0] = 0 /\ \A n \in 1..Len(s) : f[n] = f[n - 1] + DigitCounts(s, n)
    BY <1>1, <1>4, SumsAt
<1>7. g[0] = 0 /\ \A n \in 1..Len(t) : g[n] = g[n - 1] + DigitCounts(t, n)
    BY <1>1, <1>5, SumsAt
<1> HIDE DEF a
<1>8. \E h : h = [n \in 0..Len(s) |-> a * f[n]]
    OBVIOUS
<1>9. PICK h : h = [n \in 0..Len(s) |-> a * f[n]]
    BY <1>8
<1>10. ASSUME NEW n \in 1..Len(s), g[n - 1] = h[n - 1] PROVE g[n] = h[n]
    <2>0. DigitCounts(s, n) \in Nat
        BY CountsType
    <2>1. /\ n \in 0..Len(s) /\ n - 1 \in 0..Len(s) /\ n \in 1..Len(t)
          /\ f[n - 1] \in Nat /\ DigitCounts(s, n) \in Nat
        BY <1>1, <1>4, <2>0
    <2>2. h[n] = a * f[n] /\ h[n - 1] = a * f[n - 1]
        BY <1>9, <2>1
    <2>3. g[n] = a * f[n - 1] + a * DigitCounts(s, n)
        BY <1>2, <1>7, <1>10, <2>1, <2>2
    <2>4. PICK p \in Nat, q \in Nat : p = f[n - 1] /\ q = DigitCounts(s, n)
        BY <2>1
    <2>5. f[n] = p + q
        BY <1>6, <2>4
    <2>6. a * (p + q) = a * p + a * q
        BY <1>3
    <2>7. QED
        BY <2>2, <2>3, <2>4, <2>5, <2>6
<1>11. InStep(g, h, Len(s))
    <2>1. h[0] = a * f[0]
        BY <1>1, <1>9
    <2>2. g[0] = h[0]
        BY <1>3, <1>6, <1>7, <2>1
    <2>3. QED
        BY <1>10, <2>2 DEF InStep
<1>12. \A n \in 0..Len(s) : g[n] = h[n]
    BY <1>1, <1>11, Alike
<1>13. g[Len(s)] = a * f[Len(s)] /\ f[Len(s)] \in Nat
    BY <1>1, <1>4, <1>9, <1>12
<1>14. g[Len(t)] = g[Len(s)] + DigitCounts(t, Len(s) + 1)
    BY <1>1, <1>7
<1>15. Meaning(t).digits = a * f[Len(s)] + DigitCounts(t, Len(s) + 1)
    BY <1>5, <1>13, <1>14
<1>16. QED
    BY <1>2, <1>4, <1>13, <1>15 DEF a, t

-----------------------------------------------------------------------------
(* What one more character does to the normalized text.                    *)

\* A text with its commas turned into points.
Pointed(s) == [i \in DOMAIN s |-> IF s[i] = Comma THEN Dot ELSE s[i]]

LEMMA PointedAppend ==
    ASSUME NEW s \in Seq(Chars), NEW x \in Chars
    PROVE  /\ Pointed(s) \in Seq(Chars) /\ Len(Pointed(s)) = Len(s)
           /\ Pointed(Append(s, x)) = Append(Pointed(s), IF x = Comma THEN Dot ELSE x)
<1> DEFINE t == Append(s, x)
           y == IF x = Comma THEN Dot ELSE x
<1>1. /\ t \in Seq(Chars) /\ Len(s) \in Nat /\ Len(t) = Len(s) + 1 /\ t[Len(s) + 1] = x
      /\ \A n \in 1..Len(s) : t[n] = s[n]
    BY AppendFacts
<1> HIDE DEF t
<1>2. y \in Chars
    BY DEF Chars, Dot
<1>3. Pointed(s) \in Seq(Chars) /\ Len(Pointed(s)) = Len(s)
    <2>1. \A n \in 1..Len(s) : s[n] \in Chars /\ Dot \in Chars
        BY DEF Chars, Dot
    <2>2. QED
        BY <1>1, <2>1 DEF Pointed
<1>4. /\ DOMAIN Pointed(t) = 1..(Len(s) + 1)
      /\ \A n \in 1..(Len(s) + 1) : Pointed(t)[n] = IF t[n] = Comma THEN Dot ELSE t[n]
    BY <1>1 DEF Pointed
<1>5. \A n \in 1..Len(s) : Pointed(s)[n] = IF s[n] = Comma THEN Dot ELSE s[n]
    BY <1>1 DEF Pointed
<1> HIDE DEF y
<1>6. /\ Append(Pointed(s), y) \in Seq(Chars) /\ Len(Append(Pointed(s), y)) = Len(s) + 1
      /\ Append(Pointed(s), y)[Len(s) + 1] = y
      /\ \A n \in 1..Len(s) : Append(Pointed(s), y)[n] = Pointed(s)[n]
    BY <1>2, <1>3, AppendFacts
<1>7. \A n \in 1..(Len(s) + 1) : Pointed(t)[n] = Append(Pointed(s), y)[n]
    <2>1. Pointed(t)[Len(s) + 1] = y
        BY <1>1, <1>4 DEF y
    <2>2. \A n \in 1..(Len(s) + 1) : n \in 1..Len(s) \/ n = Len(s) + 1
        BY <1>1
    <2>3. QED
        BY <1>1, <1>4, <1>5, <1>6, <2>1, <2>2
<1>8. Pointed(t) = Append(Pointed(s), y)
    <2>1. Pointed(t) = [n \in 1..(Len(s) + 1) |-> Pointed(t)[n]]
        BY <1>4 DEF Pointed
    <2>2. Append(Pointed(s), y) = [n \in 1..(Len(s) + 1) |-> Append(Pointed(s), y)[n]]
        <3>1. PICK w : w = Append(Pointed(s), y)
            OBVIOUS
        <3>2. w \in Seq(Chars) /\ Len(w) = Len(s) + 1
            BY <1>6, <3>1
        <3>3. w = [n \in 1..(Len(s) + 1) |-> w[n]]
            BY <3>2
        <3>4. QED
            BY <3>1, <3>3
    <2>3. QED
        BY <1>7, <2>1, <2>2
<1>9. QED
    BY <1>3, <1>8 DEF t, y

LEMMA NormAppend ==
    ASSUME NEW s \in Seq(Chars), NEW x \in Chars
    PROVE  /\ normalizeColombianNumber(s) \in Seq(Chars)
           /\ normalizeColombianNumber(Append(s, x)) =
                  IF x = Dot THEN normalizeColombianNumber(s)
                  ELSE Append(normalizeColombianNumber(s), IF x = Comma THEN Dot ELSE x)
<1>1. \A w : normalizeColombianNumber(w) = Pointed(Without(w, Dot))
    BY DEF normalizeColombianNumber, Pointed
<1>2. /\ Without(s, Dot) \in Seq(Chars)
      /\ Without(Append(s, x), Dot) = IF x = Dot THEN Without(s, Dot) ELSE Append(Without(s, Dot), x)
    BY WithoutAppend
<1>3. QED
    BY <1>1, <1>2, PointedAppend

LEMMA EmptyText ==
    /\ <<>> \in Seq(Chars) /\ Len(<<>>) = 0
    /\ normalizeColombianNumber(<<>>) = <<>>
    /\ \A ch : Without(<<>>, ch) = <<>>
    /\ NumberOf(<<>>) = 0
    /\ Meaning(<<>>).digits = 0
<1>1. <<>> \in Seq(Chars) /\ Len(<<>>) = 0 /\ 0 \in Nat
    OBVIOUS
<1>2. ASSUME NEW ch PROVE Without(<<>>, ch) = <<>>
    <2>1. PICK f \in [0..Len(<<>>) -> Seq(Chars)] :
              Keeps(f, <<>>, ch) /\ Without(<<>>, ch) = f[Len(<<>>)]
        BY <1>1, WithoutIs
    <2>2. f[0] = <<>>
        BY <1>1, <2>1, KeepsAt
    <2>3. QED
        BY <1>1, <2>1, <2>2
<1>3. NumberOf(<<>>) = 0
    <2>1. PICK f \in [0..Len(<<>>) -> Nat] :
              Numbers(f, <<>>) /\ NumberOf(<<>>) = f[Len(<<>>)]
        BY <1>1, NumberOfIs
    <2>2. f[0] = 0
        BY <1>1, <2>1, NumbersAt
    <2>3. QED
        BY <1>1, <2>1, <2>2
<1>4. Meaning(<<>>).digits = 0
    <2>1. PICK f \in [0..Len(<<>>) -> Nat] :
              Sums(f, <<>>) /\ Meaning(<<>>).digits = f[Len(<<>>)]
        BY <1>1, SumsIs
    <2>2. f[0] = 0
        BY <1>1, <2>1, SumsAt
    <2>3. QED
        BY <1>1, <2>1, <2>2
<1>5. normalizeColombianNumber(<<>>) = <<>>
    <2>1. Without(<<>>, Dot) = <<>>
        BY <1>2
    <2>2. QED
        BY <2>1 DEF normalizeColombianNumber
<1>6. QED
    BY <1>1, <1>2, <1>3, <1>4, <1>5

\* The first position of ch in a text.
FirstAt(s, ch, p) ==
    /\ p \in 1..Len(s)
    /\ s[p] = ch
    /\ \A j \in 1..Len(s) : s[j] = ch => p <= j

LEMMA FirstIs ==
    ASSUME NEW s \in Seq(Chars), NEW ch, Has(s, ch)
    PROVE  FirstAt(s, ch, SelectInSeq(s, LAMBDA x : x = ch))
<1> DEFINE I == {i \in 1..Len(s) : s[i] = ch}
<1>1. I # {} /\ I \in SUBSET Nat
    BY DEF Has, Contains
<1>2. SelectInSeq(s, LAMBDA x : x = ch) = CHOOSE p \in I : \A j \in I : p <= j
    BY <1>1 DEF SelectInSeq, Min
<1>3. \E p \in I : \A j \in I : p <= j
    <2> HIDE DEF I
    <2>1. QED
        BY <1>1, SmallestNat
<1>4. QED
    BY <1>2, <1>3 DEF FirstAt

LEMMA FirstAppend ==
    ASSUME NEW s \in Seq(Chars), NEW x \in Chars, NEW ch
    PROVE  /\ Has(Append(s, x), ch) <=> Has(s, ch) \/ x = ch
           /\ \A p : FirstAt(Append(s, x), ch, p) <=>
                         \/ FirstAt(s, ch, p)
                         \/ x = ch /\ p = Len(s) + 1 /\ ~Has(s, ch)
<1> DEFINE t == Append(s, x)
<1>1. /\ t \in Seq(Chars) /\ Len(s) \in Nat /\ Len(t) = Len(s) + 1 /\ t[Len(s) + 1] = x
      /\ \A n \in 1..Len(s) : t[n] = s[n]
    BY AppendFacts
<1> HIDE DEF t
<1>2. \A n : n \in 1..Len(t) <=> n \in 1..Len(s) \/ n = Len(s) + 1
    BY <1>1
<1>3. Has(t, ch) <=> Has(s, ch) \/ x = ch
    BY <1>1, <1>2 DEF Has, Contains
<1>4. ASSUME NEW p, FirstAt(t, ch, p)
      PROVE  FirstAt(s, ch, p) \/ (x = ch /\ p = Len(s) + 1 /\ ~Has(s, ch))
    <2>1. CASE p \in 1..Len(s)
        BY <1>1, <1>2, <1>4, <2>1 DEF FirstAt
    <2>2. CASE p = Len(s) + 1
        <3>1. ASSUME NEW j \in 1..Len(s), s[j] = ch PROVE FALSE
            <4>1. p <= j
                BY <1>1, <1>2, <1>4, <3>1 DEF FirstAt
            <4>2. QED
                BY <1>1, <2>2, <4>1
        <3>2. QED
            BY <1>1, <1>4, <2>2, <3>1 DEF FirstAt, Has, Contains
    <2>3. QED
        BY <1>2, <1>4, <2>1, <2>2 DEF FirstAt
<1>5. ASSUME NEW p, FirstAt(s, ch, p) PROVE FirstAt(t, ch, p)
    <2>1. p \in 1..Len(t) /\ t[p] = ch /\ p <= Len(s) + 1
        BY <1>1, <1>2, <1>5 DEF FirstAt
    <2>2. QED
        BY <1>1, <1>2, <1>5, <2>1 DEF FirstAt
<1>6. ASSUME x = ch, ~Has(s, ch) PROVE FirstAt(t, ch, Len(s) + 1)
    BY <1>1, <1>2, <1>6 DEF FirstAt, Has, Contains
<1>7. QED
    BY <1>3, <1>4, <1>5, <1>6 DEF t

-----------------------------------------------------------------------------
(* The invariant.                                                          *)

\* What the code reads in a text and what the text says: as many points as
\* commas, the same digits, and as many of them after the first point as there
\* are characters other than dots after the first comma.
Reads(s) ==
    LET n == normalizeColombianNumber(s) IN
    /\ s \in Seq(Chars)
    /\ Count(n, 0, {Dot}) = Count(s, 0, {Comma})
    /\ NumberOf(Without(n, Dot)) = Meaning(s).digits
    /\ Has(n, Dot) <=> Has(s, Comma)
    /\ \A p, c : FirstAt(n, Dot, p) /\ FirstAt(s, Comma, c) =>
                     Len(n) - p = Count(s, c, Chars \ {Dot})

LEMMA ReadsEmpty == Reads(<<>>)
<1>1. /\ normalizeColombianNumber(<<>>) = <<>> /\ <<>> \in Seq(Chars)
      /\ NumberOf(Without(<<>>, Dot)) = Meaning(<<>>).digits
    BY EmptyText
<1>2. Count(<<>>, 0, {Dot}) = Count(<<>>, 0, {Comma})
    <2>1. \A C : {j \in (0 + 1)..Len(<<>>) : <<>>[j] \in C} = {}
        BY EmptyText
    <2>2. QED
        BY <2>1 DEF Count
<1>3. ~Has(<<>>, Dot) /\ ~Has(<<>>, Comma) /\ \A p : ~FirstAt(<<>>, Dot, p)
    BY EmptyText DEF Has, Contains, FirstAt
<1>4. QED
    BY <1>1, <1>2, <1>3 DEF Reads

LEMMA ReadsAppend ==
    ASSUME NEW s \in Seq(Chars), NEW x \in Chars, Reads(s)
    PROVE  Reads(Append(s, x))
<1> DEFINE t == Append(s, x)
           n == normalizeColombianNumber(s)
           m == normalizeColombianNumber(t)
           y == IF x = Comma THEN Dot ELSE x
<1>1. t \in Seq(Chars) /\ Len(s) \in Nat /\ Len(t) = Len(s) + 1
    BY AppendFacts
<1>2. n \in Seq(Chars) /\ m = (IF x = Dot THEN n ELSE Append(n, y))
    BY NormAppend
<1>3. y \in Chars /\ Len(n) \in Nat /\ Dot # Comma
      /\ (x # Dot => (y = Dot <=> x = Comma))
      /\ (x # Dot => Len(m) = Len(n) + 1)
    BY <1>2 DEF Chars, Dot, Comma
<1>4. /\ Count(n, 0, {Dot}) = Count(s, 0, {Comma})
      /\ NumberOf(Without(n, Dot)) = Meaning(s).digits
      /\ Has(n, Dot) <=> Has(s, Comma)
      /\ \A p, c : FirstAt(n, Dot, p) /\ FirstAt(s, Comma, c) =>
                       Len(n) - p = Count(s, c, Chars \ {Dot})
    BY DEF Reads
<1> HIDE DEF m, n, y
<1>5. Count(m, 0, {Dot}) = Count(t, 0, {Comma})
    <2>1. Count(t, 0, {Comma}) = IF x = Comma THEN Count(s, 0, {Comma}) + 1 ELSE Count(s, 0, {Comma})
        <3>1. 0 \in 0..Len(s) /\ (x \in {Comma} <=> x = Comma)
            BY <1>1
        <3>2. QED
            BY <3>1, CountAppend
    <2>2. CASE x = Dot
        BY <1>2, <1>3, <1>4, <2>1, <2>2
    <2>3. CASE x # Dot
        <3>1. 0 \in 0..Len(n) /\ (y \in {Dot} <=> x = Comma) /\ m = Append(n, y)
            BY <1>2, <1>3, <2>3
        <3>2. Count(m, 0, {Dot}) = IF y \in {Dot} THEN Count(n, 0, {Dot}) + 1 ELSE Count(n, 0, {Dot})
            BY <1>2, <1>3, <3>1, CountAppend
        <3>3. QED
            BY <1>4, <2>1, <3>1, <3>2
    <2>4. QED
        BY <2>2, <2>3
<1>6. NumberOf(Without(m, Dot)) = Meaning(t).digits
    <2>1. Meaning(t).digits = IF x \in 0..9 THEN 10 * Meaning(s).digits + x ELSE Meaning(s).digits
        BY MeaningAppend
    <2>2. CASE x = Dot
        BY <1>2, <1>4, <2>1, <2>2 DEF Dot
    <2>3. CASE x = Comma
        <3>1. m = Append(n, Dot) /\ Dot \in Chars
            BY <1>2, <1>3, <2>3 DEF y
        <3>2. Without(m, Dot) = Without(n, Dot)
            BY <1>2, <3>1, WithoutAppend
        <3>3. QED
            BY <1>4, <2>1, <2>3, <3>2 DEF Comma
    <2>4. CASE x # Dot /\ x # Comma
        <3>1. x \in 0..9 /\ m = Append(n, x)
            BY <1>2, <2>4 DEF Chars, Dot, Comma, y
        <3>2. Without(m, Dot) = Append(Without(n, Dot), x) /\ Without(n, Dot) \in Seq(Chars)
            BY <1>2, <2>4, <3>1, WithoutAppend
        <3>3. NumberOf(Without(m, Dot)) = 10 * NumberOf(Without(n, Dot)) + x
            BY <3>2, NumberAppend
        <3>4. QED
            BY <1>4, <2>1, <3>1, <3>3
    <2>5. QED
        BY <2>2, <2>3, <2>4
<1>7. Has(m, Dot) <=> Has(t, Comma)
    <2>1. Has(t, Comma) <=> Has(s, Comma) \/ x = Comma
        BY FirstAppend
    <2>2. CASE x = Dot
        BY <1>2, <1>3, <1>4, <2>1, <2>2
    <2>3. CASE x # Dot
        <3>1. m = Append(n, y) /\ (y = Dot <=> x = Comma)
            BY <1>2, <1>3, <2>3
        <3>2. Has(m, Dot) <=> Has(n, Dot) \/ y = Dot
            BY <1>2, <1>3, <3>1, FirstAppend
        <3>3. QED
            BY <1>4, <2>1, <3>1, <3>2
    <2>4. QED
        BY <2>2, <2>3
<1>8. ASSUME NEW p, NEW c, FirstAt(m, Dot, p), FirstAt(t, Comma, c)
      PROVE  Len(m) - p = Count(t, c, Chars \ {Dot})
    <2> DEFINE C == Chars \ {Dot}
    <2>1. FirstAt(s, Comma, c) \/ (x = Comma /\ c = Len(s) + 1 /\ ~Has(s, Comma))
        BY <1>8, FirstAppend
    <2>2. FirstAt(n, Dot, p) \/ (x = Comma /\ p = Len(n) + 1 /\ ~Has(n, Dot))
        <3>1. CASE x = Dot
            BY <1>2, <1>8, <3>1
        <3>2. CASE x # Dot
            <4>1. m = Append(n, y) /\ (y = Dot <=> x = Comma)
                BY <1>2, <1>3, <3>2
            <4>2. FirstAt(n, Dot, p) \/ (y = Dot /\ p = Len(n) + 1 /\ ~Has(n, Dot))
                BY <1>2, <1>3, <1>8, <4>1, FirstAppend
            <4>3. QED
                BY <4>1, <4>2
        <3>3. QED
            BY <3>1, <3>2
    <2>3. /\ FirstAt(n, Dot, p) => Has(n, Dot)
          /\ FirstAt(s, Comma, c) => Has(s, Comma)
        BY DEF FirstAt, Has, Contains
    <2>4. CASE Has(s, Comma)
        <3>1. FirstAt(s, Comma, c) /\ FirstAt(n, Dot, p)
            BY <1>4, <2>1, <2>2, <2>4
        <3>2. Len(n) - p = Count(s, c, C)
            BY <1>4, <3>1
        <3>3. c \in 0..Len(s) /\ p \in Nat
            BY <1>1, <1>3, <3>1 DEF FirstAt
        <3>4. x \in C <=> x # Dot
            OBVIOUS
        <3> HIDE DEF C
        <3>5. Count(t, c, C) = IF x \in C THEN Count(s, c, C) + 1 ELSE Count(s, c, C)
            BY <3>3, CountAppend
        <3>6. Len(m) = IF x # Dot THEN Len(n) + 1 ELSE Len(n)
            BY <1>2, <1>3
        <3>7. Len(m) - p = Count(t, c, C)
            BY <1>3, <3>2, <3>3, <3>4, <3>5, <3>6
        <3>8. QED
            BY <3>7 DEF C
    <2>5. CASE ~Has(s, Comma)
        <3>1. x = Comma /\ c = Len(s) + 1 /\ p = Len(n) + 1
            BY <1>4, <2>1, <2>2, <2>3, <2>5
        <3>2. Len(m) - p = 0
            BY <1>3, <3>1
        <3>3. {j \in (c + 1)..Len(t) : t[j] \in C} = {}
            BY <1>1, <3>1
        <3>4. QED
            BY <3>2, <3>3, FS_EmptySet DEF Count
    <2>6. QED
        BY <2>4, <2>5
<1> HIDE DEF t
<1>9. QED
    BY <1>1, <1>5, <1>6, <1>7, <1>8 DEF Reads, m, t

\* Every total is read the way it was written.
TotalRead == field = "total" => Reads(text)

THEOREM TotalsAreRead == Spec => []TotalRead
<1>1. Init => TotalRead
    BY ReadsEmpty DEF Init, TotalRead
<1>2. TotalRead /\ [Next]_vars => TotalRead'
    <2>1. SUFFICES ASSUME TotalRead, [Next]_vars, field' = "total" PROVE Reads(text')
        BY DEF TotalRead, Reads
    <2>2. ASSUME NEW ch \in TotalDigits \cup {Dot, Comma}, WriteTotal(ch) PROVE Reads(text')
        <3>1. ch \in Chars
            BY DigitsAssumption DEF Chars, Dot, Comma
        <3>2. Reads(text) /\ text \in Seq(Chars) /\ text' = Append(text, ch)
            BY <2>1, <2>2 DEF TotalRead, Reads, WriteTotal
        <3>3. QED
            BY <3>1, <3>2, ReadsAppend
    <2>3. ASSUME NEW d, WriteNIT(d) PROVE FALSE
        BY <2>1, <2>3 DEF WriteNIT
    <2>4. CASE UNCHANGED vars
        BY <2>1, <2>4 DEF TotalRead, vars
    <2>5. QED
        BY <2>1, <2>2, <2>3, <2>4 DEF Next
<1>3. QED
    BY <1>1, <1>2, PTL DEF Spec

-----------------------------------------------------------------------------
(* What becomes of a total.                                                *)

LEMMA CountIs ==
    ASSUME NEW s \in Seq(Chars), NEW ch
    PROVE  /\ Cardinality({i \in DOMAIN s : s[i] = ch}) = Count(s, 0, {ch})
           /\ Count(s, 0, {ch}) \in Nat
<1>1. {i \in DOMAIN s : s[i] = ch} = {j \in (0 + 1)..Len(s) : s[j] \in {ch}}
    OBVIOUS
<1>2. 0 \in 0..Len(s) /\ 0 \in Chars
    BY DEF Chars
<1>3. Cardinality({i \in DOMAIN s : s[i] = ch}) = Count(s, 0, {ch})
    BY <1>1 DEF Count
<1>4. Count(s, 0, {ch}) \in Nat
    BY <1>2, CountAppend
<1>5. QED
    BY <1>3, <1>4

LEMMA DecimalOfOneComma ==
    ASSUME NEW s, Reads(s)
    PROVE  IsDecimal(normalizeColombianNumber(s)) <=>
               Cardinality({i \in DOMAIN s : s[i] = Comma}) <= 1
<1>1. /\ s \in Seq(Chars)
      /\ Count(normalizeColombianNumber(s), 0, {Dot}) = Count(s, 0, {Comma})
    BY DEF Reads
<1>2. normalizeColombianNumber(s) \in Seq(Chars)
    <2>1. 0 \in Chars
        BY DEF Chars
    <2>2. QED
        BY <1>1, <2>1, NormAppend
<1>3. QED
    BY <1>1, <1>2, CountIs DEF IsDecimal

\* Of the totals reTotal captures, whatever their length, only those with two
\* commas are no decimal and are dropped (normalizeColombianNumber of
\* src/internal/receipt/ocr_tesseract.go, the decimal parsing of processor.go).
THEOREM OnlyTwoCommasLose == Spec => []LostOnlyWithTwoCommas
<1>1. TotalRead => LostOnlyWithTwoCommas
    BY DecimalOfOneComma DEF TotalRead, LostOnlyWithTwoCommas
<1>2. QED
    BY <1>1, TotalsAreRead, PTL

LEMMA NewFromStringIs ==
    ASSUME NEW s, Reads(s), IsColombian(s)
    PROVE  /\ IsDecimal(normalizeColombianNumber(s))
           /\ NewFromString(normalizeColombianNumber(s)) = Meaning(s)
<1> DEFINE n == normalizeColombianNumber(s)
<1>0. s \in Seq(Chars)
    BY DEF Reads
<1>1. /\ s \in Seq(Chars) /\ Len(s) \in Nat
      /\ NumberOf(Without(n, Dot)) = Meaning(s).digits
      /\ Has(n, Dot) <=> Has(s, Comma)
      /\ \A p, c : FirstAt(n, Dot, p) /\ FirstAt(s, Comma, c) =>
                       Len(n) - p = Count(s, c, Chars \ {Dot})
    <2>1. Len(s) \in Nat
        BY <1>0
    <2>2. QED
        BY <1>0, <2>1 DEF Reads
<1>2. n \in Seq(Chars)
    <2>1. 0 \in Chars
        BY DEF Chars
    <2>2. QED
        BY <1>1, <2>1, NormAppend
<1>3. Meaning(s) = [digits |-> Meaning(s).digits, scale |-> Meaning(s).scale]
      /\ Meaning(s).scale = IF Has(s, Comma) THEN Len(s) - CommaAt(s) ELSE 0
    BY DEF Meaning
<1>4. NewFromString(n) = [digits |-> NumberOf(Without(n, Dot)), scale |-> NewFromString(n).scale]
      /\ NewFromString(n).scale =
             IF Has(n, Dot) THEN Len(n) - SelectInSeq(n, LAMBDA x : x = Dot) ELSE 0
    BY DEF NewFromString
<1>5. IsDecimal(n) <=> Cardinality({i \in DOMAIN s : s[i] = Comma}) <= 1
    BY DecimalOfOneComma
<1> HIDE DEF n
<1>6. CASE Has(s, Comma)
    <2>1. PICK c : c = CommaAt(s) /\ FirstAt(s, Comma, c)
        BY <1>1, <1>6, FirstIs DEF CommaAt
    <2>2. PICK p : p = SelectInSeq(n, LAMBDA x : x = Dot) /\ FirstAt(n, Dot, p)
        BY <1>1, <1>2, <1>6, FirstIs
    <2>3. c \in 1..Len(s) /\ \A i \in (c + 1)..Len(s) : s[i] \in 0..9
        BY <1>1, <2>1 DEF IsColombian, FirstAt
    <2>4. {i \in DOMAIN s : s[i] = Comma} = {c}
        <3>1. \A i \in 1..Len(s) : s[i] = Comma => i = c
            <4>1. SUFFICES ASSUME NEW i \in 1..Len(s), s[i] = Comma, i # c PROVE FALSE
                OBVIOUS
            <4>2. c <= i
                BY <2>1, <4>1 DEF FirstAt
            <4>3. i \in (c + 1)..Len(s)
                BY <1>1, <2>3, <4>1, <4>2
            <4>4. s[i] \in 0..9
                BY <2>3, <4>3
            <4>5. QED
                BY <4>1, <4>4 DEF Comma
        <3>2. DOMAIN s = 1..Len(s) /\ s[c] = Comma
            BY <1>1, <2>1 DEF FirstAt
        <3>3. QED
            BY <2>3, <3>1, <3>2
    <2>5. IsDecimal(n)
        BY <1>5, <2>4, FS_Singleton
    <2>6. Count(s, c, Chars \ {Dot}) = Len(s) - c
        <3>1. {j \in (c + 1)..Len(s) : s[j] \in Chars \ {Dot}} = (c + 1)..Len(s)
            BY <2>3 DEF Chars, Dot
        <3>2. c + 1 \in Int /\ Len(s) \in Int /\ c <= Len(s)
            BY <1>1, <2>3
        <3>3. Cardinality((c + 1)..Len(s)) = IF c + 1 > Len(s) THEN 0 ELSE Len(s) - (c + 1) + 1
            BY <3>2, FS_Interval
        <3>4. Count(s, c, Chars \ {Dot}) = Cardinality((c + 1)..Len(s))
            BY <3>1 DEF Count
        <3>5. c \in Int
            BY <2>3
        <3>6. QED
            BY <3>2, <3>3, <3>4, <3>5
    <2>7. NewFromString(n).scale = Meaning(s).scale
        BY <1>1, <1>3, <1>4, <1>6, <2>1, <2>2, <2>6
    <2>8. QED
        BY <1>1, <1>3, <1>4, <2>5, <2>7 DEF n
<1>7. CASE ~Has(s, Comma)
    <2>1. {i \in DOMAIN s : s[i] = Comma} = {}
        BY <1>1, <1>7 DEF Has, Contains
    <2>2. IsDecimal(n)
        BY <1>5, <2>1, FS_EmptySet
    <2>3. NewFromString(n).scale = Meaning(s).scale
        BY <1>1, <1>3, <1>4, <1>7
    <2>4. QED
        BY <1>1, <1>3, <1>4, <2>2, <2>3 DEF n
<1>8. QED
    BY <1>6, <1>7

\* A well written total of any length becomes the amount it means, with a full
\* stop after it or without (normalizeColombianNumber of
\* src/internal/receipt/ocr_tesseract.go).
THEOREM TotalsAreTheirMeaning == Spec => []TotalIsItsMeaning
<1>1. ASSUME TotalRead, field = "total", IsColombian(text), NEW s \in {text, Append(text, Dot)}
      PROVE  /\ IsDecimal(normalizeColombianNumber(s))
             /\ NewFromString(normalizeColombianNumber(s)) = Meaning(text)
    <2>1. Reads(text) /\ text \in Seq(Chars) /\ Dot \in Chars
        BY <1>1 DEF TotalRead, Reads, Chars, Dot
    <2>2. normalizeColombianNumber(s) = normalizeColombianNumber(text)
        BY <1>1, <2>1, NormAppend
    <2>3. QED
        BY <1>1, <2>1, <2>2, NewFromStringIs
<1>2. TotalRead => TotalIsItsMeaning
    BY <1>1 DEF TotalIsItsMeaning
<1>3. QED
    BY <1>2, TotalsAreRead, PTL

=============================================================================
