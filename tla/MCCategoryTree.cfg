SPECIFICATION CategorySpec
CONSTANTS
    Categories = {c1, c2}
    Slugs = {s1, s2}
    Places = {1, 2}
    NoParent = none
    MaxEvents = 3
SYMMETRY Symmetry
INVARIANT AllCategoriesAreListed
CHECK_DEADLOCK FALSE
