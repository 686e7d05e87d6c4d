\* Simulation with an http:// file source in the tree.
CONSTANTS
    MaxKeep = 2
    MaxRuns = 3
    Policies <- MCPoliciesConsistent
    HttpChoices = {FALSE, TRUE}
    Drivers <- MCMavenOnly
    EnvFailures = TRUE
    NoDir = NoDir
    NoFile = NoFile
    NoLog = NoLog
SPECIFICATION Spec
PROPERTY SimulationLeavesDiskUnchanged
\* The tool stops after the last of the MaxRuns invocations.
CHECK_DEADLOCK FALSE
