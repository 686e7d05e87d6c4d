\* Installations and library updates on one path, any failing step.
CONSTANTS
    MaxKeep = 2
    MaxRuns = 4
    NoDir = NoDir
    Inputs <- MCInputs
INIT Init
NEXT Next
INVARIANT TypeOK
INVARIANT NoInstallLostExceptEviction
INVARIANT LibsKeptWithoutForce
\* The script ends after its last invocation.
CHECK_DEADLOCK FALSE
PROPERTY RefinesBackupChain
