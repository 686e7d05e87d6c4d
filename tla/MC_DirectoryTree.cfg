\* Tree merge over a default application and one inheriting application.
CONSTANTS
    DirNames = {"a", "b"}
    FileNames = {"f"}
    LinkNames = {"l1", "l2"}
    Targets = {"t1", "t2"}
    FileVals <- MCFileVals
    NoNode = NoNode
    NoFile = NoFile
    DirTags <- MCDirTags
    FileTags <- MCFileTags
    LinkTags <- MCLinkTags
    MaxApps = 2
    MaxTags = 3
    MaxDepth = 2
SPECIFICATION Spec
INVARIANT TypeOK
PROPERTY DirectoryMergeIsUnion
\* Resolution ends once the descriptor's tags are read.
CHECK_DEADLOCK FALSE
