---------------------------- MODULE LegacyDeploy ----------------------------
(***************************************************************************)
(* The legacy single-file DAQ installer (c2mon-daq-core/scripts/deploy.py): *)
(* a full installation (installApplication with its makeBackup) and a      *)
(* library update (-u, updateApplication), run one after the other on one  *)
(* install path P.                                                         *)
(*                                                                         *)
(* disk[0] is P and disk[j] is the backup P.j.  An installation is a       *)
(* record: the number of the run that created it, the state of lib/ and of *)
(* lib_old/, and the number of run entries in its install.log (0: none).   *)
(* Any exception the code does not catch ends the invocation: automatic    *)
(* rollback is off (installConfig['rollback'] = 0 and no option sets it).  *)
(***************************************************************************)
EXTENDS Naturals, Sequences

CONSTANTS
    MaxKeep,     \* largest keepBackups the runs use
    MaxRuns,     \* invocations of the script
    Inputs,      \* [mode, keep, force, sim]: options and keepBackups of a run
    NoDir        \* no directory at that path

Slots    == 0..MaxKeep
LibState == {"partial", "complete"}
Dir      == [id : 1..MaxRuns, libs : LibState, libOld : LibState \cup {NoDir},
             log : 0..MaxRuns]

VARIABLES
    disk,    \* [Slots -> Dir \cup {NoDir}]
    pc,      \* step of the current invocation; "idle" between invocations
    run,     \* inputs of the current (or last) invocation
    i,       \* loop index of makeBackup's rename loop
    runs,    \* invocations so far
    before   \* disk when the current invocation started (history)

vars == <<disk, pc, run, i, runs, before>>

Steps == {"idle", "deploy", "remove", "shift", "latest", "force", "makedirs", "copy", "finish",
          "readlog", "checklib", "swap", "copylibs", "updatelog"}

(* Besides the types: no installation is in two places at once.          *)
TypeOK ==
    /\ disk \in [Slots -> Dir \cup {NoDir}]
    /\ before \in [Slots -> Dir \cup {NoDir}]
    /\ pc \in Steps
    /\ run \in Inputs
    /\ i \in 0..MaxKeep
    /\ runs \in 0..MaxRuns
    /\ \A j, k \in Slots : j # k /\ disk[j] # NoDir => disk[k] = NoDir \/ disk[k].id # disk[j].id

Init ==
    /\ disk = [j \in Slots |-> NoDir]
    /\ pc = "idle"
    /\ run \in Inputs
    /\ i = 0
    /\ runs = 0
    /\ before = disk

(* Bug variant of shutil.move: the source is copied, not moved.           *)
MoveCopying(from, to) ==
    [disk EXCEPT ![to] = IF @ = NoDir THEN disk[from] ELSE @]

(* shutil.move(P.from, P.to): renamed when P.to does not exist, otherwise *)
(* moved inside P.to, where it is no longer an installation of its own.   *)
Move(from, to) ==
    [disk EXCEPT ![to] = IF @ = NoDir THEN disk[from] ELSE @, ![from] = NoDir]

(* The exceptions of installApplication's try block that can occur at a  *)
(* step (rmtree, move, makedirs, copy2, chmod: OSError, IOError,          *)
(* shutil.Error), all skipped in simulation; reading product.xml, the     *)
(* application's tags or install.log can fail in any mode.               *)
CanRaise ==
    \/ pc \in {"remove", "shift", "latest", "makedirs", "copy", "finish", "swap"} /\ ~run.sim
    \/ pc \in {"deploy", "readlog"}

(* main: the options are read (-u, -f, -s, ...); -u goes to              *)
(* updateApplication, anything else to init and deploy.                   *)
StartRun ==
    /\ pc = "idle"
    /\ runs < MaxRuns
    /\ \E inp \in Inputs :
          /\ run' = inp
          /\ pc' = IF inp.mode = "update" THEN "readlog" ELSE "deploy"
    /\ runs' = runs + 1
    /\ before' = disk
    /\ UNCHANGED <<disk, i>>

(* deploy: the application is looked up in product.xml, its <deployment>  *)
(* read (readDeployment, readBackupInformation: keepBackups in 0..5,       *)
(* checkAvailable on every source file) and readApplication writes the     *)
(* start scripts to temporary files; any of these raises before the disk  *)
(* is touched.  Then installApplication; makeBackup returns at once for    *)
(* keepBackups = 0.                                                        *)
ReadDescriptor ==
    /\ pc = "deploy"
    /\ pc' = IF run.keep = 0 THEN "force" ELSE "remove"
    /\ UNCHANGED <<disk, run, i, runs, before>>

(* Bug variant of RemoveOldest: P.(N-1) is removed instead of P.N.        *)
RemoveOldestOffByOne ==
    /\ pc = "remove"
    /\ disk' = IF disk[run.keep - 1] # NoDir /\ ~run.sim
               THEN [disk EXCEPT ![run.keep - 1] = NoDir] ELSE disk
    /\ i' = run.keep
    /\ pc' = "shift"
    /\ UNCHANGED <<run, runs, before>>

(* makeBackup: rmtree(P.N) if it exists.                                 *)
RemoveOldest ==
    /\ pc = "remove"
    /\ disk' = IF disk[run.keep] # NoDir /\ ~run.sim
               THEN [disk EXCEPT ![run.keep] = NoDir] ELSE disk
    /\ i' = run.keep
    /\ pc' = "shift"
    /\ UNCHANGED <<run, runs, before>>

(* makeBackup: for i in range(N, 1, -1), P.(i-1) is moved to P.i.        *)
ShiftBackup ==
    /\ pc = "shift"
    /\ IF i > 1
       THEN /\ disk' = IF disk[i - 1] # NoDir /\ ~run.sim THEN Move(i - 1, i) ELSE disk
            /\ i' = i - 1
            /\ pc' = "shift"
       ELSE /\ pc' = "latest"
            /\ UNCHANGED <<disk, i>>
    /\ UNCHANGED <<run, runs, before>>

(* makeBackup: P is moved to P.1.                                        *)
MoveLatest ==
    /\ pc = "latest"
    /\ disk' = IF disk[0] # NoDir /\ ~run.sim THEN Move(0, 1) ELSE disk
    /\ pc' = "force"
    /\ UNCHANGED <<run, i, runs, before>>

(* Force mode: shutil.rmtree(P); a missing P is logged and ignored.  The  *)
(* call is not under 'if not inSimulationMode()'.                         *)
ForceRemove ==
    /\ pc = "force"
    /\ disk' = IF run.force THEN [disk EXCEPT ![0] = NoDir] ELSE disk
    /\ pc' = "makedirs"
    /\ UNCHANGED <<run, i, runs, before>>

(* Bug variant of MakeInstallDir: an existing P is ignored, as tools.mkdir *)
(* does, and the installation is made over it.                            *)
MakeInstallDirIgnoringExisting ==
    /\ pc = "makedirs"
    /\ disk' = IF run.sim THEN disk
               ELSE [disk EXCEPT ![0] = [id |-> runs, libs |-> "partial",
                                         libOld |-> NoDir, log |-> 0]]
    /\ pc' = "copy"
    /\ UNCHANGED <<run, i, runs, before>>

(* os.makedirs(P) raises OSError when P exists, which the except clause  *)
(* logs and re-raises; then lib/, bin/ and the <directory> names are made *)
(* with os.mkdir, whose errors are all ignored.                           *)
MakeInstallDir ==
    /\ pc = "makedirs"
    /\ IF run.sim
       THEN pc' = "copy" /\ UNCHANGED disk
       ELSE IF disk[0] # NoDir
            THEN pc' = "idle" /\ UNCHANGED disk
            ELSE /\ disk' = [disk EXCEPT ![0] = [id |-> runs, libs |-> "partial",
                                                 libOld |-> NoDir, log |-> 0]]
                 /\ pc' = "copy"
    /\ UNCHANGED <<run, i, runs, before>>

(* The start scripts are moved to bin/, every file of the cp list copied  *)
(* with copy2, the replacements made (a failing one is only warned about) *)
(* and the chmod list applied.                                             *)
CopyFiles ==
    /\ pc = "copy"
    /\ disk' = IF run.sim THEN disk ELSE [disk EXCEPT ![0].libs = "complete"]
    /\ pc' = "finish"
    /\ UNCHANGED <<run, i, runs, before>>

(* sendNotification (its failure is only warned about), then the         *)
(* temporary log of this run is copied to P/install.log.                  *)
FinishInstall ==
    /\ pc = "finish"
    /\ disk' = IF run.sim THEN disk ELSE [disk EXCEPT ![0].log = 1]
    /\ pc' = "idle"
    /\ UNCHANGED <<run, i, runs, before>>

(* updateApplication: P/install.log is read for the source directory and *)
(* version; error() exits when it cannot be read.  The lib swap is skipped *)
(* in simulation mode.                                                    *)
ReadPreviousLog ==
    /\ pc = "readlog"
    /\ pc' = CASE disk[0] = NoDir \/ disk[0].log = 0 -> "idle"
               [] run.sim                           -> "updatelog"
               [] OTHER                             -> "checklib"
    /\ UNCHANGED <<disk, run, i, runs, before>>

(* Bug variant of CheckLibOld: lib_old is removed without -f.             *)
CheckLibOldIgnoringForce ==
    /\ pc = "checklib"
    /\ disk' = IF disk[0].libOld # NoDir THEN [disk EXCEPT ![0].libOld = NoDir] ELSE disk
    /\ pc' = "swap"
    /\ UNCHANGED <<run, i, runs, before>>

(* An existing lib_old is removed in force mode; otherwise error() exits. *)
CheckLibOld ==
    /\ pc = "checklib"
    /\ IF disk[0].libOld # NoDir
       THEN IF run.force
            THEN disk' = [disk EXCEPT ![0].libOld = NoDir] /\ pc' = "swap"
            ELSE pc' = "idle" /\ UNCHANGED disk
       ELSE pc' = "swap" /\ UNCHANGED disk
    /\ UNCHANGED <<run, i, runs, before>>

(* shutil.move(P/lib, P/lib_old), then os.mkdir(P/lib).                  *)
SwapLib ==
    /\ pc = "swap"
    /\ disk' = [disk EXCEPT ![0].libOld = disk[0].libs, ![0].libs = "partial"]
    /\ pc' = "copylibs"
    /\ UNCHANGED <<run, i, runs, before>>

(* The libraries are copied one by one.  A failing copy2 raises into the *)
(* except clause, which logs and passes: the invocation ends normally,    *)
(* with lib/ partly filled and install.log not updated.                   *)
CopyLibs ==
    /\ pc = "copylibs"
    /\ \E ok \in BOOLEAN :
          /\ disk' = [disk EXCEPT ![0].libs = IF ok THEN "complete" ELSE "partial"]
          /\ pc' = IF ok THEN "updatelog" ELSE "idle"
    /\ UNCHANGED <<run, i, runs, before>>

(* The run's log is copied over P/install.log and the previous content   *)
(* appended: one more entry.  Not under 'if not inSimulationMode()'.      *)
UpdateLog ==
    /\ pc = "updatelog"
    /\ disk' = [disk EXCEPT ![0].log = @ + 1]
    /\ pc' = "idle"
    /\ UNCHANGED <<run, i, runs, before>>

(* An exception that ends the invocation where it stands.                *)
Abort ==
    /\ CanRaise
    /\ pc' = "idle"
    /\ UNCHANGED <<disk, run, i, runs, before>>

Next ==
    \/ StartRun \/ ReadDescriptor \/ RemoveOldest \/ ShiftBackup \/ MoveLatest \/ ForceRemove
    \/ MakeInstallDir \/ CopyFiles \/ FinishInstall
    \/ ReadPreviousLog \/ CheckLibOld \/ SwapLib \/ CopyLibs \/ UpdateLog
    \/ Abort

Spec == Init /\ [][Next]_vars

-----------------------------------------------------------------------------
Ended == pc = "idle" /\ runs > 0

(* Backups (makeBackup and -f): after an installation, every directory   *)
(* that was P or a backup when it started is still P or a backup, except *)
(* P.N, which makeBackup removes, and P itself when -f is given with      *)
(* keepBackups = 0, which the -f option text announces.  Holds however the *)
(* earlier invocations ended.                                             *)
NoInstallLostExceptEviction ==
    Ended /\ run.mode = "install" /\ ~(run.force /\ run.keep = 0) =>
      \A j \in Slots :
        (before[j] # NoDir /\ (run.keep = 0 \/ j # run.keep))
          => \E k \in Slots : disk[k] = before[j]

(* Library update without -f (updateApplication's lib_old check, "its    *)
(* for your safety"): if P had a complete library set in lib or lib_old   *)
(* when an update started, it still has one when the update ends, also   *)
(* after earlier updates that failed half way.                            *)
HasCompleteLibs(d) == d # NoDir /\ "complete" \in {d.libs, d.libOld}

LibsKeptWithoutForce ==
    Ended /\ run.mode = "update" /\ ~run.force =>
      (HasCompleteLibs(before[0]) => HasCompleteLibs(disk[0]))

(* Refinement mapping: the installations of the existing slots, read in *)
(* path order P, P.1, ..., P.MaxKeep.                                      *)
ChainOf(d) ==
    LET live == SelectSeq([k \in 1..MaxKeep + 1 |-> d[k - 1]], LAMBDA x : x # NoDir)
    IN  [k \in 1..Len(live) |-> live[k].id]

BC == INSTANCE BackupChain WITH Ids <- 1..MaxRuns, OverwritesLive <- FALSE,
                                 chain <- ChainOf(disk)

(* Backup chain (makeBackup's rmtree and renames, the -f rmtree and       *)
(* os.makedirs): every step of every invocation keeps the installations  *)
(* at P, P.1, ... newest first; it only puts a new installation in front  *)
(* or discards one, and never installs over an existing P.                *)
RefinesBackupChain == BC!Spec

(* Simulation mode (-s, "No real ones are made"): an invocation in        *)
(* simulation mode ends with the disk as it found it.  The -f rmtree and  *)
(* the install.log copy of an update are not guarded (deploy.py 607,     *)
(* 747), so this holds only without -f and -u; no run checks it.          *)
SimulationMakesNoChanges ==
    Ended /\ run.sim => disk = before

=============================================================================
