SPECIFICATION Spec
CONSTANTS
    q1 = q1
    q2 = q2
    q3 = q3
    Null = Null
    Request = {q1, q2}
    Body <- MCBody
    Default = 2
    Ceiling = 3
    MaxServed = 4
SYMMETRY Symmetry
CHECK_DEADLOCK FALSE
INVARIANTS
    StoredIsValid
    
PROPERTIES
    PatchIsPatch
