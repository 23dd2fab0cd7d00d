SPECIFICATION Spec
CONSTANTS
    o1 = o1
    o2 = o2
    o3 = o3
    Objects <- MCObjects
    Kinds = {"A", "B"}
    KindOf <- MCKindOf
    Targets <- TwoCategories
INVARIANTS NothingHidden NoNesting CategoriesKept
