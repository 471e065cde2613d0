-------------------------- MODULE MCExpenseService --------------------------
(***************************************************************************)
(* Instances of ExpenseService for TLC: two tenants with one driver each,  *)
(* or o1 and d1 alone.                                                     *)
(***************************************************************************)
EXTENDS ExpenseService

CONSTANTS o1, o2, d1, d2

MCOwners  == {o1, o2}
MCDrivers == {d1, d2}
MCOwnerOf == [d \in Drivers |-> IF d = d1 THEN o1 ELSE o2]

=============================================================================
