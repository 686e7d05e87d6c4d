\* Both readings over every pair of heap-size tags of MC_JvmMemory.
CONSTANTS
    Digits = {"0", "5"}
    Values <- MCValues
    None = None
SPECIFICATION Spec
INVARIANT TypeOK
 
\* Resolution of the two scripts is a call that returns or raises.
CHECK_DEADLOCK FALSE
