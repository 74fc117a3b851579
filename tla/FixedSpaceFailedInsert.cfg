\* Does an InsertFile that returns an error leave the file table unchanged?
CONSTANTS
    CAP = 3
    LeafMax = 3
    NPages = 2
    h1 = h1
    h2 = h2
    h3 = h3
    h5 = h5
    jpeg = jpeg
    png = png
    s1 = s1
    s2 = s2
    s3 = s3
    NoHash = NoHash
    Files <- MCFiles
SPECIFICATION Spec
PROPERTY FailedInsertUnchanged
CONSTRAINT DirtyBound
