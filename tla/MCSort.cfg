\* All the ways four children can be labelled with three labels.
SPECIFICATION FairSpec
CONSTANTS
    N = 4
    Keys = {1, 2, 3}
INVARIANTS
    Sorted
    IInv
PROPERTIES
    Terminates
