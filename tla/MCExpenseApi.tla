---------------------------- MODULE MCExpenseApi ----------------------------
(***************************************************************************)
(* ExpenseApi for TLC: two tenants with one driver each, which may be      *)
(* exchanged for each other, as may the receipts.                          *)
(***************************************************************************)
EXTENDS ExpenseApi, TLC

CONSTANTS o1, o2, d1, d2

MCOwners  == {o1, o2}
MCDrivers == {d1, d2}
MCOwnerOf == [d \in Drivers |-> IF d = d1 THEN o1 ELSE o2]

TenantsExchanged ==
    [x \in MCOwners \cup MCDrivers |->
        CASE x = o1 -> o2 [] x = o2 -> o1 [] x = d1 -> d2 [] OTHER -> d1]

Symmetry == Permutations(Receipts) \cup {TenantsExchanged}

=============================================================================
