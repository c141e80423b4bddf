SPECIFICATION Spec
CONSTANTS
    None = None
    Ids = {i1, i2, i3}
    Emails = {e1, e2, e3}
    Subjects = {s1, s2}
    Calls = {c1, c2}
SYMMETRY Symmetry
INVARIANTS Inv RuntimeIsNarrow SurfaceFollowsRevision
PROPERTIES CallersGetTheirOwn SubjectlessPathIsClosed
