\* Two shells and their requests; two accounts whose names may be addresses.
CONSTANTS
    b = b
    spaces = spaces
    Blank = Blank
    None = None
    Workers = {s1, s2}
    Idents = {a, b, spaces}
    Trim <- Trimmed
    Lower <- Lowered
    Size <- Longer
    Addresses = {a, b}
    Passwords = {p, q}
    Hashable = {p, q}
SYMMETRY Symmetry
SPECIFICATION CliSpec
INVARIANTS
    CliTypeOK
    OwnerGetsIn
    ActsForAccount
    LoginKept
PROPERTY DirectorySpec
