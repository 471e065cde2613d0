SPECIFICATION Spec
CONSTANTS
    None = None
    n1 = n1
    n2 = n2
    Owners = {o1, o2}
    Names <- MCNames
    DefaultCategories <- MCDefaults
    Categories = {k1, k2, k3}
    Accounts = {a1}
    Callers = {c1, c2}
SYMMETRY Symmetry
CONSTRAINT FewExpenses
INVARIANTS BotFilesUnderOwnersCategory RegisteredOwnerIsSeeded
