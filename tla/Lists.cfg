SPECIFICATION Spec
CONSTANTS
    h1 = h1
    h2 = h2
    e1 = e1
    e2 = e2
    e3 = e3
    e4 = e4
    NULL = NULL
    Heads <- TwoHeads
    Entries <- FourEntries
INVARIANT BothWaysAgree
PROPERTY ImplementsListSpec
SYMMETRY Alike
