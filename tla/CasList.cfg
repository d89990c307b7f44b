CONSTANT
    Ids <- MCIds
SPECIFICATION Spec
INVARIANTS
    TypeOK
    Canonical
    SizeExact
PROPERTY
    ImplementsFreeSet
