SPECIFICATION TreeSpec
CONSTANTS
    Keys = {1, 2, 3, 4, 5}
    Records = {r1, r2}
    NULL = NULL
INVARIANTS
    LinksAgree
    SearchFindsAll
    NearestIsLargestBelow
PROPERTY
    ImplementsStore
