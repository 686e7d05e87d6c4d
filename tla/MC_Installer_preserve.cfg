\* keepBackups=0 with preserve entries restores from a stale P.1.
CONSTANTS
    MaxKeep = 2
    MaxRuns = 3
    Policies <- MCPoliciesAll
    HttpChoices = {FALSE}
    Drivers <- MCMavenOnly
    EnvFailures = TRUE
    NoDir = NoDir
    NoFile = NoFile
    NoLog = NoLog
SPECIFICATION Spec
INVARIANT PreservedFromPrevious
\* The tool stops after the last of the MaxRuns invocations.
CHECK_DEADLOCK FALSE
