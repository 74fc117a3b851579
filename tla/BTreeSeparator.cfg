\* After a leaf split, is every key found by GetEntries still found?
CONSTANTS
    Keys <- MCKeys
    LeafMax = 4
    NodeMax = 2
    MaxPages = 10
SPECIFICATION Spec
PROPERTY AbstractSpec
