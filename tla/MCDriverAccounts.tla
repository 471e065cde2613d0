-------------------------- MODULE MCDriverAccounts --------------------------
(***************************************************************************)
(* DriverAccounts for TLC.  No formula names a particular row, token,      *)
(* account or caller.  Tokens and assignments are statements on different  *)
(* columns that meet only in Deactivate and the active flag: Apart bounds  *)
(* a behaviour to deactivations with one or with the other.                *)
(***************************************************************************)
EXTENDS DriverAccounts, TLC

Symmetry ==
    Permutations(Drivers) \cup Permutations(Taxis) \cup Permutations(Tokens)
      \cup Permutations(Accounts) \cup Permutations(Callers)

Apart ==
    \/ \A t \in Tokens : age[t] = "unused"
    \/ /\ \A d \in Drivers : assigned[d] = {}
       /\ \A c \in Callers : call[c].at # "assign"

=============================================================================
