\* createDirectoryStructure over the deployments of MC_Materialize.
CONSTANTS
    DirNames = {"a", "bin", "log", "lib", "webapp"}
    FileNames = {"f", "z", "product.xml", "j", "w"}
    LinkNames = {"l"}
    Targets = {"f", "t"}
    FileVals <- MCFileVals
    NoNode = NoNode
    NoFile = NoFile
    Deployments <- MCDeployments
    Unpacked <- MCUnpacked
    Layouts <- MCLayouts
    Jars = {"j"}
    Wars = {"w"}
    FileOrders <- MCFileOrders
SPECIFICATION Spec
INVARIANT TypeOK
INVARIANT FilesMaterialized
INVARIANT LibraryFromSource
\* The call returns or raises; nothing follows it here.
CHECK_DEADLOCK FALSE
