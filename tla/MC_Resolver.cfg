\* Resolution of every descriptor of the pass family: a descriptor the
\* spec calls valid resolves, and inheritance of start scripts is right.
CONSTANTS
    AppNames = {"web", "daq"}
    ScriptNames = {"srv"}
    EnvKeys = {"FOO", "BAR"}
    Vals = {"1", "2"}
    PreserveNames = {"conf", "data"}
    Addrs = {"ops"}
    ReplFiles = {"cfg"}
    ReplVars = {"HOST", "PORT"}
    None = None
    NoApp = NoApp
    NoScript = NoScript
    Descriptors <- MCPassDescriptors
INIT Init
NEXT Next
INVARIANT TypeOK
INVARIANT ResolvesValidDescriptors
INVARIANT ScriptsInherited
\* Resolution is one call that returns: done and failed are final.
CHECK_DEADLOCK FALSE
