SPECIFICATION Spec
CONSTANTS
    Urls = {u1, u2}
    Workers = {w1}
    Testers = {q1}
    Editors = {q2, q3}
    Clients = {q4, q5}
    Kept = 1
    MaxRows = 5
    MaxSecrets = 2
    NoUrl = NoUrl
SYMMETRY Symmetry
INVARIANTS ShownInForce Signed NewestKept RowsBounded
CHECK_DEADLOCK FALSE
