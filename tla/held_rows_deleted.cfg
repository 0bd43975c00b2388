\* Finding: two devices on one item, two categories and their links; what a conflict holds back is published as deleted.
SPECIFICATION GraphSpec
CONSTANTS
    Devices = {"d1", "d2"}
    ItemIds = {"i1"}
    CategoryIds = {"c1", "c2"}
    Texts = {"a"}
    Names = {"n", "m"}
    Absent = Absent
    MaxGraphEdits = 2
INVARIANTS
    OnlyUsersDelete

CHECK_DEADLOCK FALSE
