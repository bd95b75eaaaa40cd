CONSTANTS
    s1 = s1
    s2 = s2
    a = a
    b = b
    lower = lower
    o1 = o1
    o2 = o2
    o3 = o3
    o4 = o4
    t1 = t1
    t2 = t2
    Nil = Nil
    Schema = {s1, s2}
    Managed = {s1}
    Ident = {a, b}
    Casing = {lower}
    Obj = {o1, o2, o3, o4}
    Thread = {t1, t2}
SPECIFICATION Spec
INVARIANTS ReferencesAgree NotTorn SchemaKnown
PROPERTY ImplementsCascadeDb
SYMMETRY Symmetry
