SPECIFICATION CategorySpec
CONSTANTS
    Categories = {c1, c2, c3}
    Slugs = {s1, s2, s3}
    Places = {1, 2}
    NoParent = none
    MaxEvents = 4
SYMMETRY Symmetry
INVARIANTS
    UniqueSlugsArrive
    ListShowsRealChains
PROPERTY
    SlugKeepsItsCategory
CHECK_DEADLOCK FALSE
