\* createDirectoryStructure of a tree whose only link is in the directory "a".
CONSTANTS
    DirNames = {"a", "bin", "log", "lib", "webapp"}
    FileNames = {"f", "z", "product.xml", "j", "w"}
    LinkNames = {"l"}
    Targets = {"f", "t"}
    FileVals <- MCFileVals
    NoNode = NoNode
    NoFile = NoFile
    Deployments <- MCSubdirLinks
    Unpacked <- MCUnpacked
    Layouts <- MCMaven
    Jars = {"j"}
    Wars = {"w"}
    FileOrders <- MCFileOrders
SPECIFICATION Spec
INVARIANT LinksCreated
\* The call returns or raises; nothing follows it here.
CHECK_DEADLOCK FALSE
