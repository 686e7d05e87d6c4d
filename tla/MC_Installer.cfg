\* Backup rotation, preserve and simulation over three runs with aborts.
CONSTANTS
    MaxKeep = 2
    MaxRuns = 3
    Policies <- MCPoliciesConsistent
    HttpChoices = {FALSE}
    Drivers <- MCDrivers
    EnvFailures = TRUE
    NoDir = NoDir
    NoFile = NoFile
    NoLog = NoLog
SPECIFICATION Spec
INVARIANT TypeOK
INVARIANT RotationShift
INVARIANT PreservedFromPrevious
PROPERTY NoBackupLostExceptEviction
PROPERTY SimulationLeavesDiskUnchanged
PROPERTY RefinesBackupChain
\* The tool stops after the last of the MaxRuns invocations.
CHECK_DEADLOCK FALSE
