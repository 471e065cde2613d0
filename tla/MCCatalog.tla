----------------------------- MODULE MCCatalog -----------------------------
(***************************************************************************)
(* Catalog for TLC.  The properties speak of one expense at a time: after  *)
(* FewExpenses of them a behaviour is not followed further.  An expense    *)
(* that came by POST /expenses meets what deletes categories, and no chat. *)
(* A bootstrap under way meets no category.                                *)
(***************************************************************************)
EXTENDS Catalog, FiniteSets, TLC

CONSTANTS n1, n2

MCNames == {n1, n2}
MCDefaults == <<n1, n2>>

Symmetry == Permutations(Owners) \cup Permutations(Categories)
              \cup Permutations(Accounts) \cup Permutations(Callers)

FewExpenses ==
    /\ Cardinality(expenses) <= 1
    /\ \A e \in expenses : e.account = None => \A a \in Accounts : chat[a].state = "idle"
    /\ (\E c \in Callers : call[c].at = "bootstrap") => \A k \in Categories : categories[k] = None

=============================================================================
