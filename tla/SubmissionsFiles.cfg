SPECIFICATION Spec
CONSTANTS
    User = {u1}
    Organization = {}
    Campaign = {c1}
    Image = {i1, i2}
    Name = {n1}
    Request = {r1, r2}
    Form = {"create", "update", "signature", "identity", "report", "post", "picture"}
    Kind = {"selfie"}
    Extra = {}
    MaxImages = 1
    None = None
    Undefined = Undefined
INVARIANTS
    TypeOK
    RowsNameStoredFiles
    VerdictsAreOnTheNamedFiles
CHECK_DEADLOCK FALSE
