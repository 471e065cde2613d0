SPECIFICATION Spec
CONSTANTS
    None = None
    Owners = {o1}
    Drivers = {d1, d2}
    Taxis = {x1, x2}
    Tokens = {t1, t2}
    Accounts = {a1, a2}
    Callers = {c1, c2}
SYMMETRY Symmetry
CONSTRAINT Apart
INVARIANTS TokenLinksOnce SessionIsLinkedOrReplaced InactiveIsUnassigned EachDriverListedOnce
PROPERTIES LoggedOutForGood
