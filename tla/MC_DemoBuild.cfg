\* Two invocations of the demo build against any repository answers.
CONSTANTS
    MaxRuns = 2
    NoDir = NoDir
    NoPackage = NoPackage
    RepoStates <- MCRepoStates
SPECIFICATION Spec
INVARIANT TypeOK
INVARIANT LatestReleasesDownloaded
INVARIANT TarballFromOneRun
\* The script stops after its last invocation.
CHECK_DEADLOCK FALSE
