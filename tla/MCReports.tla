----------------------------- MODULE MCReports ------------------------------
(***************************************************************************)
(* Reports for TLC: two tenants with a taxi, a driver and a category each. *)
(* An owner reads the whole list, or a part of it that reviews do not      *)
(* change.                                                                 *)
(***************************************************************************)
EXTENDS Reports, TLC

CONSTANTS o1, o2, x1, x2, d1, d2, g1, g2

MCOwnerOf == [k \in {x1, x2, d1, d2, g1, g2} |-> IF k \in {x1, d1, g1} THEN o1 ELSE o2]

Everything == [owner |-> o1, driver |-> None, taxi |-> None, category |-> None,
               statuses |-> {}, from |-> None, to |-> None]

MCFilters == {Everything,
              [Everything EXCEPT !.driver = d1, !.taxi = x1, !.category = g1, !.from = 2]}

Busy == {c \in Callers : call[c] # None}

\* Rows that mix the tables of two tenants.
Mixed == {i \in Rows : ~Whole(expenses[i])}

Symmetry == Permutations(Callers)

\* Pages do not depend on active flags, deleted categories or amounts, nor the
\* totals on who reads the list: the two are not combined, and the third row
\* comes while somebody reads and stays as it is.  The lines of a report do not
\* depend on each other: one deactivated taxi or driver and one mixed row are
\* enough.  Calls overlap where there is one row to overlap on, and who reads
\* the list meets reviews that approve.
OneAtATime ==
    /\ Busy # {} => /\ active = Taxis \cup Drivers
                    /\ deleted = {}
                    /\ \A i \in Rows : expenses[i].amount = None
    /\ IF walk = None
       THEN /\ Len(expenses) <= 2
            /\ Cardinality(active) >= 3
            /\ Len(expenses) = 2 => /\ Mixed \subseteq {1}
                                    /\ Cardinality(Busy) <= IF Mixed = {} THEN 1 ELSE 0
       ELSE /\ active = Taxis \cup Drivers
            /\ deleted = {}
            /\ Mixed = {}
            /\ \A i \in Rows :
                  /\ expenses[i].amount = None
                  /\ expenses[i].status \in {StatusPending, StatusApproved}
                  /\ i = 3 => expenses[i].status = StatusPending
            /\ Cardinality(Busy) <= 1
            /\ \A c \in Busy : call[c].status = StatusApproved /\ call[c].row < 3

=============================================================================
