----------------------------- MODULE Installer -----------------------------
(***************************************************************************)
(* The install sequence of the deploy tool (tools.py doPreInstall,        *)
(* makeBackup and doPostInstall, driven by Maven.install / Commonbuild.    *)
(* install) seen through the filesystem slots it touches: the install     *)
(* directory P (slot 0) and its numbered backups P.1 .. P.MaxKeep.        *)
(*                                                                         *)
(* One tool invocation is a run.  A run takes its inputs (the resolved     *)
(* backup policy of the release's descriptor and the command-line flags),  *)
(* then performs one filesystem operation per step.  Every step that can   *)
(* raise (permission checks, rmtree, move, download, SMTP, ...) may abort  *)
(* the run: there is no cleanup and no rollback, the next run starts from  *)
(* whatever the aborted one left on disk.  Between runs the user may edit  *)
(* the preserved configuration file of the live install.                   *)
(***************************************************************************)
EXTENDS Naturals, FiniteSets, Sequences

CONSTANTS
    MaxKeep,     \* largest keepBackups value a descriptor may give (code: 5)
    MaxRuns,     \* number of tool invocations explored
    Policies,    \* resolved BackupPolicy values: [keep, preserve]
    HttpChoices, \* whether the release's tree has a file with an http:// source
    Drivers,     \* [driver, dirOption] pairs a run may use
    EnvFailures, \* whether the environment may make a step raise
    NoDir,       \* the path does not exist
    NoFile,      \* the preserved file does not exist in the directory
    NoLog        \* the directory has no install.log

Slots    == 0..MaxKeep           \* 0 is P, i > 0 is P.i
Releases == 1..MaxRuns           \* run r installs release r

(* Provenance of the preserved configuration file of a directory: the     *)
(* version shipped with release r, or the user's edit made while r was live. *)
Shipped(r)  == [by |-> "ship", rel |-> r]
UserCopy(r) == [by |-> "user", rel |-> r]
PresValues  == {Shipped(r) : r \in Releases} \cup {UserCopy(r) : r \in Releases}

(* A directory: the release whose files it holds, the release named by its *)
(* install.log, and the provenance of its preserved file.                  *)
Dir == [rel : Releases, log : Releases \cup {NoLog}, pres : PresValues \cup {NoFile}]

(* The inputs of one run: the release, its BackupPolicy, -s (simulation),  *)
(* a non-empty mail list, JMX info in a start script (which triggers       *)
(* notifyCenter), an http:// file source in the tree, the install driver  *)
(* (Maven.install with an archive, Commonbuild.install with an archive or  *)
(* a source directory) and whether InstallConfig has an install dir (-d). *)
RunInputs == [rel : Releases, keep : 0..MaxKeep, preserve : BOOLEAN, sim : BOOLEAN,
              mail : BOOLEAN, jmx : BOOLEAN, http : BOOLEAN,
              driver : {"maven", "cbArchive", "cbDir"}, dirOption : BOOLEAN]

Steps == {"idle", "pre", "rmOldest", "shift", "mkdir", "extract", "materialize",
          "scripts", "preserve", "replace", "mail", "notify", "movelog"}

VARIABLES
    disk,    \* [Slots -> Dir \cup {NoDir}]
    pc,      \* the step the current run is about to perform
    run,     \* the inputs of the current (or last) run
    i,       \* loop index of makeBackup's shift loop
    runs,    \* number of runs started
    before   \* disk as it was when the current run started (history)

vars == <<disk, pc, run, i, runs, before>>

TypeOK ==
    /\ disk \in [Slots -> Dir \cup {NoDir}]
    /\ pc \in Steps
    /\ run \in RunInputs
    /\ i \in 0..MaxKeep
    /\ runs \in 0..MaxRuns
    /\ before \in [Slots -> Dir \cup {NoDir}]

Exists(s) == disk[s] # NoDir

(* Bug variant of Move: the source directory is copied and left in place. *)
MoveKeepingSource(src, dst) ==
    IF disk[dst] = NoDir THEN [disk EXCEPT ![dst] = disk[src]] ELSE disk

(* shutil.move(src, dst): a rename when dst does not exist; when dst is an *)
(* existing directory src is moved inside it and is no longer a backup.    *)
Move(src, dst) ==
    IF disk[dst] = NoDir
    THEN [disk EXCEPT ![dst] = disk[src], ![src] = NoDir]
    ELSE [disk EXCEPT ![src] = NoDir]

(* Whether the environment can make the current step raise: the code's    *)
(* checks and operations that are executed (not skipped by simulationMode) *)
(* at this step.                                                           *)
CanRaise ==
    EnvFailures /\
    CASE pc = "pre"         -> TRUE                       \* checkRemove, lsof
      [] pc = "rmOldest"    -> Exists(run.keep)           \* checkRemove, rmtree
      [] pc = "shift"       -> IF i >= 2 THEN Exists(i - 1) ELSE Exists(0)
      [] pc = "mkdir"       -> ~run.sim
      [] pc = "extract"     -> ~run.sim
      [] pc = "materialize" -> ~run.sim \/ run.http       \* wget is not guarded
      [] pc = "scripts"     -> ~run.sim
      [] pc = "preserve"    -> ~run.sim /\ run.preserve
      [] pc = "replace"     -> TRUE                       \* import jarsigner, log read
      [] pc = "mail"        -> ~run.sim /\ run.mail       \* SMTP outside any try
      [] pc = "notify"      -> run.jmx                    \* notifyCenterTracing
      [] pc = "movelog"     -> ~run.sim
      [] OTHER              -> FALSE

Init ==
    /\ disk = [s \in Slots |-> NoDir]
    /\ pc = "idle"
    /\ run = [rel |-> 1, keep |-> 0, preserve |-> FALSE, sim |-> FALSE,
              mail |-> FALSE, jmx |-> FALSE, http |-> FALSE,
              driver |-> "maven", dirOption |-> FALSE]
    /\ i = 0
    /\ runs = 0
    /\ before = disk

(* A tool invocation: the descriptor of the next release is resolved to a *)
(* BackupPolicy, the InstallConfig flags are set (setSimulate also turns   *)
(* mail off) and Maven.install or Commonbuild.install starts the install.   *)
StartRun ==
    /\ pc = "idle"
    /\ runs < MaxRuns
    /\ \E pol \in Policies, sim, mail, jmx \in BOOLEAN, http \in HttpChoices,
         drv \in Drivers :
          run' = [rel |-> runs + 1, keep |-> pol.keep, preserve |-> pol.preserve,
                  sim |-> sim, mail |-> mail, jmx |-> jmx, http |-> http,
                  driver |-> drv.driver, dirOption |-> drv.dirOption]
    /\ runs' = runs + 1
    /\ before' = disk
    /\ pc' = "pre"
    /\ UNCHANGED <<disk, i>>

(* doPreInstall up to makeBackup: transfer.ref warning, temporary log,     *)
(* default bin/log directories, log header, checkRemove(installDir) and    *)
(* the open-file-descriptor check; makeBackup returns at once for 0.       *)
DoPreInstall ==
    /\ pc = "pre"
    /\ pc' = IF run.keep = 0 THEN "mkdir" ELSE "rmOldest"
    /\ UNCHANGED <<disk, run, i, runs, before>>

(* Bug variants of RemoveOldest: the shift loop started one index too     *)
(* high or too low, and the oldest backup not removed.                     *)
RemoveOldestLoopTooHigh ==
    /\ pc = "rmOldest"
    /\ disk' = IF Exists(run.keep) /\ ~run.sim
               THEN [disk EXCEPT ![run.keep] = NoDir] ELSE disk
    /\ i' = run.keep + 1
    /\ pc' = "shift"
    /\ UNCHANGED <<run, runs, before>>

RemoveOldestLoopTooLow ==
    /\ pc = "rmOldest"
    /\ disk' = IF Exists(run.keep) /\ ~run.sim
               THEN [disk EXCEPT ![run.keep] = NoDir] ELSE disk
    /\ i' = run.keep - 1
    /\ pc' = "shift"
    /\ UNCHANGED <<run, runs, before>>

RemoveOldestNoEviction ==
    /\ pc = "rmOldest"
    /\ i' = run.keep
    /\ pc' = "shift"
    /\ UNCHANGED <<disk, run, runs, before>>

(* makeBackup: remove the oldest backup P.N if present.                   *)
RemoveOldest ==
    /\ pc = "rmOldest"
    /\ disk' = IF Exists(run.keep) /\ ~run.sim
               THEN [disk EXCEPT ![run.keep] = NoDir] ELSE disk
    /\ i' = run.keep
    /\ pc' = "shift"
    /\ UNCHANGED <<run, runs, before>>

(* makeBackup: one iteration of the loop for i in range(N, 1, -1),        *)
(* moving P.(i-1) to P.i if it exists.                                    *)
ShiftBackup ==
    /\ pc = "shift"
    /\ i >= 2
    /\ disk' = IF Exists(i - 1) /\ ~run.sim THEN Move(i - 1, i) ELSE disk
    /\ i' = i - 1
    /\ UNCHANGED <<pc, run, runs, before>>

(* makeBackup: after the loop, move P to P.1 if it exists.                *)
MoveLatest ==
    /\ pc = "shift"
    /\ i = 1
    /\ disk' = IF Exists(0) /\ ~run.sim THEN Move(0, 1) ELSE disk
    /\ pc' = "mkdir"
    /\ UNCHANGED <<run, i, runs, before>>

(* Bug variant: mkdir without the simulationMode guard.                    *)
MakeInstallDirUnguarded ==
    /\ pc = "mkdir"
    /\ disk' = IF ~Exists(0)
               THEN [disk EXCEPT ![0] = [rel |-> run.rel, log |-> NoLog, pres |-> NoFile]]
               ELSE disk
    /\ pc' = "extract"
    /\ UNCHANGED <<run, i, runs, before>>

(* doPreInstall: mkdir(installDir) unless simulating; tools.mkdir ignores *)
(* an existing directory, so with keepBackups=0 the run installs into the *)
(* live directory.                                                        *)
MakeInstallDir ==
    /\ pc = "mkdir"
    /\ disk' = IF ~run.sim /\ ~Exists(0)
               THEN [disk EXCEPT ![0] = [rel |-> run.rel, log |-> NoLog, pres |-> NoFile]]
               ELSE disk
    /\ pc' = "extract"
    /\ UNCHANGED <<run, i, runs, before>>

(* The directory extractTar is given: Maven.install passes the            *)
(* application's install dir (-d copied into it); Commonbuild.install      *)
(* passes installConfig.getInstallDir(), which is None without -d.        *)
HasExtractTarget == run.driver = "maven" \/ run.dirOption

(* The install driver between pre- and post-install: an archive source is *)
(* extracted (extractTar does nothing in simulation) and ships the        *)
(* default preserved file; Commonbuild.install skips a source directory.  *)
(* tarfile's extractall(None) raises, and the run stops with P empty.     *)
ExtractArchive ==
    /\ pc = "extract"
    /\ \/ /\ run.sim \/ run.driver = "cbDir"
          /\ pc' = "materialize"
          /\ UNCHANGED disk
       \/ /\ ~run.sim /\ run.driver # "cbDir" /\ HasExtractTarget
          /\ disk' = [disk EXCEPT ![0].rel = run.rel, ![0].pres = Shipped(run.rel)]
          /\ pc' = "materialize"
       \/ /\ ~run.sim /\ run.driver # "cbDir" /\ ~HasExtractTarget
          /\ pc' = "idle"
          /\ UNCHANGED disk
    /\ UNCHANGED <<run, i, runs, before>>

(* doPostInstall: createDirectoryStructure.  Copies and svn fetches are   *)
(* skipped in simulation, but handleWgetGet runs wget regardless: it      *)
(* writes into the live install, or fails when P does not exist.  From a  *)
(* source directory (prefixFilesWithSourceDir) the copies bring every     *)
(* file of the release, the default preserved file included.              *)
CreateDirectoryStructure ==
    /\ pc = "materialize"
    /\ ~(run.sim /\ run.http /\ ~Exists(0))
    /\ disk' = CASE ~run.sim /\ run.driver = "cbDir" ->
                     [disk EXCEPT ![0].rel = run.rel, ![0].pres = Shipped(run.rel)]
                  [] ~run.sim \/ run.http -> [disk EXCEPT ![0].rel = run.rel]
                  [] OTHER -> disk
    /\ pc' = "scripts"
    /\ UNCHANGED <<run, i, runs, before>>

(* doPostInstall: generate each start script and copy it into bin/.       *)
WriteStartScripts ==
    /\ pc = "scripts"
    /\ pc' = "preserve"
    /\ UNCHANGED <<disk, run, i, runs, before>>

(* preserveFile(orig, new): a missing orig is only a warning; otherwise   *)
(* new is removed and replaced by a hard-linked copy of orig.             *)
PreserveFile(src) ==
    IF Exists(src) /\ disk[src].pres # NoFile
    THEN [disk EXCEPT ![0].pres = disk[src].pres] ELSE disk

(* Bug variant: restoring from the oldest backup P.N instead of P.1.      *)
PreserveFilesFromOldest ==
    /\ pc = "preserve"
    /\ disk' = IF run.preserve /\ ~run.sim THEN PreserveFile(run.keep) ELSE disk
    /\ pc' = "replace"
    /\ UNCHANGED <<run, i, runs, before>>

(* doPostInstall: for each preserved path, unless simulating,             *)
(* preserveFile(P.1/path, P/path).                                        *)
PreserveFiles ==
    /\ pc = "preserve"
    /\ disk' = IF run.preserve /\ ~run.sim THEN PreserveFile(1) ELSE disk
    /\ pc' = "replace"
    /\ UNCHANGED <<run, i, runs, before>>

(* doPostInstall: string replacements and jar signing, then reading the   *)
(* temporary install log.  They change file contents the model abstracts. *)
ReplaceAndSign ==
    /\ pc = "replace"
    /\ pc' = "mail"
    /\ UNCHANGED <<disk, run, i, runs, before>>

(* doPostInstall: sendNotification when mail is on and the list is non-   *)
(* empty (it returns at once on an empty list).                           *)
SendMail ==
    /\ pc = "mail"
    /\ pc' = "notify"
    /\ UNCHANGED <<disk, run, i, runs, before>>

(* doPostInstall: readJmxInfo and, if a JMX port is found, notifyCenter.  *)
NotifyCenter ==
    /\ pc = "notify"
    /\ pc' = "movelog"
    /\ UNCHANGED <<disk, run, i, runs, before>>

(* doPostInstall: move the temporary log to P/install.log.                *)
MoveInstallLog ==
    /\ pc = "movelog"
    /\ disk' = IF run.sim THEN disk ELSE [disk EXCEPT ![0].log = run.rel]
    /\ pc' = "idle"
    /\ UNCHANGED <<run, i, runs, before>>

(* An exception at the current step: the run stops, nothing is undone.    *)
Abort ==
    /\ pc # "idle"
    /\ CanRaise
    /\ pc' = "idle"
    /\ UNCHANGED <<disk, run, i, runs, before>>

(* Environment: the user edits the preserved file of the live install.    *)
UserEdit ==
    /\ pc = "idle"
    /\ Exists(0)
    /\ disk[0].pres # UserCopy(disk[0].rel)
    /\ disk' = [disk EXCEPT ![0].pres = UserCopy(disk[0].rel)]
    /\ UNCHANGED <<pc, run, i, runs, before>>

Next ==
    \/ StartRun \/ DoPreInstall
    \/ RemoveOldest \/ ShiftBackup \/ MoveLatest
    \/ MakeInstallDir \/ ExtractArchive \/ CreateDirectoryStructure
    \/ WriteStartScripts \/ PreserveFiles \/ ReplaceAndSign
    \/ SendMail \/ NotifyCenter \/ MoveInstallLog
    \/ Abort \/ UserEdit

Spec == Init /\ [][Next]_vars

(* Fairness.  An invocation is one sequential Python process: once it has *)
(* started it keeps executing until it returns or raises, so its steps,   *)
(* the exception included, are weakly fair.  This assumes that the calls  *)
(* without a timeout (smtplib.SMTP().connect(), svn cat, lsof) return.    *)
(* Starting another invocation and the user's edits are never forced.    *)
RunStep == pc # "idle" /\ Next

FairSpec == Spec /\ WF_vars(RunStep)

-----------------------------------------------------------------------------
(***************************************************************************)
(* Properties                                                              *)
(***************************************************************************)

(* Backup rotation (spec 4.4 and 8): once makeBackup of a real run has    *)
(* finished, P is gone, P.i holds what P.(i-1) held when the run started  *)
(* (P.1 the former P), the former P.N is evicted, and backups above N are *)
(* left alone.                                                            *)
RotationShift ==
    (pc = "mkdir" /\ ~run.sim /\ run.keep >= 1) =>
        \A s \in Slots :
            disk[s] = CASE s = 0        -> NoDir
                        [] s <= run.keep -> before[s - 1]
                        [] OTHER         -> before[s]

(* A directory disappears from the backup chain only when makeBackup      *)
(* evicts the oldest backup P.N; every other step of any run either       *)
(* leaves a directory in place or renames it to a free slot.              *)
NoBackupLostExceptEviction ==
    [][\A s \in Slots :
         (disk[s] # NoDir /\ disk'[s] = NoDir) =>
            \/ pc = "rmOldest" /\ s = run.keep
            \/ \E t \in Slots : t # s /\ disk'[t] = disk[s] /\ disk[t] = NoDir
      ]_vars

(* Simulation mode (-s) never changes the filesystem: every step of a     *)
(* simulated run leaves P and its backups as they were.                   *)
SimulationLeavesDiskUnchanged ==
    [][(pc # "idle" /\ run.sim) => UNCHANGED disk]_vars

(* Preserve (spec 4.6): after the preserve step of a real run, P's        *)
(* preserved file is the one P had when the run started, or the shipped   *)
(* default when P had none.                                               *)
PreservedFromPrevious ==
    (run.preserve /\ ~run.sim /\ pc \in {"replace", "mail", "notify", "movelog"}) =>
        disk[0].pres = IF before[0] # NoDir /\ before[0].pres # NoFile
                       THEN before[0].pres ELSE Shipped(run.rel)

(* Install contract (spec 4: preInstall, extraction into the resolved    *)
(* install directory, postInstall; an explicit -d overrides the default,  *)
(* it is not needed): when nothing in the environment fails, every real   *)
(* run of either driver installs its release, P ending up with the        *)
(* release's install.log.                                                  *)
InstallCompletes ==
    \A r \in Releases :
        (pc = "pre" /\ run.rel = r /\ ~run.sim) ~> (Exists(0) /\ disk[0].log = r)

(* Refinement mapping: the releases held by the existing slots, read in  *)
(* path order P, P.1, ..., P.MaxKeep.                                     *)
ChainOf(d) ==
    LET live == SelectSeq([k \in 1..MaxKeep + 1 |-> d[k - 1]], LAMBDA x : x # NoDir)
    IN  [k \in 1..Len(live) |-> live[k].rel]

BC == INSTANCE BackupChain WITH Ids <- Releases, OverwritesLive <- TRUE,
                                 chain <- ChainOf(disk)

(* Backup chain (makeBackup's rmtree and renames, doPreInstall's mkdir,   *)
(* the extraction): every step of every run, aborted or not, keeps the    *)
(* installations at P, P.1, ... newest first; it only puts the run's      *)
(* release in front or over P, or discards an installation.              *)
RefinesBackupChain == BC!Spec

(* Notifications never escalate (spec 7): a real run that got past the   *)
(* replacements always ends with install.log in P.                        *)
InstallLogWrittenAfterInstall ==
    [][(pc \in {"mail", "notify"} /\ ~run.sim /\ pc' = "idle") =>
         disk'[0].log = run.rel]_vars

=============================================================================
