------------------------- MODULE MC_LegacyDeploy -------------------------
(* Inputs of the legacy installer runs.  keepBackups is irrelevant to an  *)
(* update (-u reads no backupPolicy) and fixed to 1 there.               *)
EXTENDS LegacyDeploy

Install(k, f, s) == [mode |-> "install", keep |-> k, force |-> f, sim |-> s]
Update(f, s)     == [mode |-> "update", keep |-> 1, force |-> f, sim |-> s]

(* Every installation and every update, except simulation together with  *)
(* -f and simulated updates.                                              *)
MCInputs ==
    ({Install(k, f, s) : k \in 0..MaxKeep, f \in BOOLEAN, s \in BOOLEAN}
        \ {Install(k, TRUE, TRUE) : k \in 0..MaxKeep})
      \cup {Update(f, FALSE) : f \in BOOLEAN}

=============================================================================
