\* Even leaves of 4 entries, nodes of 2 keys, up to 8 pages.
CONSTANTS
    Keys <- MCKeys
    LeafMax = 4
    NodeMax = 2
    MaxPages = 10
SPECIFICATION Spec
INVARIANTS
    TypeOK
    AckedKeysStored
    LeafChainOrdered
    KeysWithinSeparators
