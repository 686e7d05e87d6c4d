\* Commonbuild.install of an archive, with and without -d, in an environment where nothing fails.
CONSTANTS
    MaxKeep = 1
    MaxRuns = 2
    Policies <- MCPoliciesConsistent
    HttpChoices = {FALSE}
    Drivers <- MCCommonbuildArchive
    EnvFailures = FALSE
    NoDir = NoDir
    NoFile = NoFile
    NoLog = NoLog
SPECIFICATION FairSpec
PROPERTY InstallCompletes
\* The tool stops after the last of the MaxRuns invocations.
CHECK_DEADLOCK FALSE
