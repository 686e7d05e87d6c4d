----------------------------- MODULE DemoBuild -----------------------------
(***************************************************************************)
(* The demo build script (demo.py): in ./demo it fetches the newest server *)
(* and DAQ deploy archives from the repository (or, with -s, "the latest   *)
(* snapshot"), unpacks a Tomcat, renames it apache-tomcat-main, adds the   *)
(* newest web viewer war and its configuration, downloads the manuals and  *)
(* packs everything into c2mon-demo.tar.gz.  Nothing is caught: any failing *)
(* download, copy or lookup ends the invocation where it stands, and the   *)
(* next invocation starts from what is left on disk.                      *)
(*                                                                         *)
(* A directory of demo/ is the set of invocations whose files it holds;   *)
(* a repository lookup (MavenRepo) sees any search result of RepoStates.  *)
(***************************************************************************)
EXTENDS MavenRepo

CONSTANTS
    MaxRuns,        \* invocations of the script
    RepoStates,     \* search results the repository may answer with
    NoDir           \* the path does not exist

Runs      == 1..MaxRuns
Parts     == {"server", "daq", "tomcat", "manuals"}   \* the entries of demo/
Artifacts == {"server", "daq", "web"}                 \* looked up in the repository
Steps     == {"idle", "demo", "server", "daq", "tomcat", "war", "conf", "manuals", "tar"}

(* What a run downloaded for an artifact: the package and the search      *)
(* result it was chosen from.                                             *)
Fetched == [pkg : UNION RepoStates, seen : RepoStates]

VARIABLES
    pc,       \* the step the current invocation is about to perform
    snap,     \* -s (isAsking4Snapshot) of the current invocation
    runs,     \* invocations started
    demo,     \* [Parts -> SUBSET Runs \cup {NoDir}], or NoDir
    got,      \* [Artifacts -> Fetched \cup {NoPackage}]: this invocation's downloads
    tarball   \* c2mon-demo.tar.gz: the demo/ it was made from and its run, complete or not; or NoDir

vars == <<pc, snap, runs, demo, got, tarball>>

(* Besides the types: a tarball is only written from a demo/ that has    *)
(* all four entries.                                                      *)
TypeOK ==
    /\ pc \in Steps
    /\ snap \in BOOLEAN
    /\ runs \in 0..MaxRuns
    /\ demo \in [Parts -> SUBSET Runs \cup {NoDir}] \cup {NoDir}
    /\ got \in [Artifacts -> Fetched \cup {NoPackage}]
    /\ \/ tarball = NoDir
       \/ /\ tarball \in [parts : [Parts -> SUBSET Runs \cup {NoDir}], run : Runs,
                            complete : BOOLEAN]
          /\ \A p \in Parts : tarball.parts[p] # NoDir

Init ==
    /\ pc = "idle"
    /\ snap = FALSE
    /\ runs = 0
    /\ demo = NoDir
    /\ got = [a \in Artifacts |-> NoPackage]
    /\ tarball = NoDir

(* The script is started, with or without -s.                            *)
StartRun ==
    /\ pc = "idle"
    /\ runs < MaxRuns
    /\ \E s \in BOOLEAN : snap' = s
    /\ runs' = runs + 1
    /\ got' = [a \in Artifacts |-> NoPackage]
    /\ pc' = "demo"
    /\ UNCHANGED <<demo, tarball>>

(* Bug variant of MakeDemoDir: an existing demo/ is kept, as tools.mkdir  *)
(* does.                                                                  *)
MakeDemoDirKeepingContent ==
    /\ pc = "demo"
    /\ demo' = IF demo = NoDir THEN [p \in Parts |-> NoDir] ELSE demo
    /\ pc' = "server"
    /\ UNCHANGED <<snap, runs, got, tarball>>

(* mkdir("demo"): an existing demo/ is removed with everything in it,     *)
(* then created empty.                                                    *)
MakeDemoDir ==
    /\ pc = "demo"
    /\ demo' = [p \in Parts |-> NoDir]
    /\ pc' = "server"
    /\ UNCHANGED <<snap, runs, got, tarball>>

(* The server and DAQ blocks: mkdir(part) empties it, the newest archive  *)
(* (getLatestSnapshot / getLatestRelease) is downloaded, extracted into   *)
(* it and deleted.  A lookup that does not give exactly one package       *)
(* raises after the mkdir.                                                *)
FetchPart(part, next) ==
    /\ pc = part
    /\ \E res \in RepoStates :
          LET p == LatestUrl(res, snap)
          IN  IF p = NoPackage
              THEN /\ demo' = [demo EXCEPT ![part] = {}]
                   /\ pc' = "idle"
                   /\ UNCHANGED got
              ELSE /\ demo' = [demo EXCEPT ![part] = {runs}]
                   /\ got' = [got EXCEPT ![part] = [pkg |-> p, seen |-> res]]
                   /\ pc' = next
    /\ UNCHANGED <<snap, runs, tarball>>

FetchServer == FetchPart("server", "daq")

FetchDaq == FetchPart("daq", "tomcat")

(* Bug variant of FetchTomcat: the rename loop without its 'tomcat' test *)
(* moves every entry of demo/ into apache-tomcat-main.                    *)
FetchTomcatRenamingEveryEntry ==
    /\ pc = "tomcat"
    /\ demo' = [p \in Parts |->
                  IF p = "tomcat"
                  THEN UNION {demo[q] : q \in {r \in Parts : demo[r] # NoDir}} \cup {runs}
                  ELSE NoDir]
    /\ pc' = "war"
    /\ UNCHANGED <<snap, runs, got, tarball>>

(* The Tomcat block: the archive is copied into demo/, extracted and      *)
(* deleted; then every entry of demo/ whose name contains 'tomcat' is     *)
(* moved to apache-tomcat-main.  When apache-tomcat-main exists already   *)
(* it is listed too: moving it onto itself does nothing and the fresh     *)
(* Tomcat is moved inside it.                                             *)
FetchTomcat ==
    /\ pc = "tomcat"
    /\ demo' = [demo EXCEPT !.tomcat = IF @ = NoDir THEN {runs} ELSE @ \cup {runs}]
    /\ pc' = "war"
    /\ UNCHANGED <<snap, runs, got, tarball>>

(* The newest web viewer war is downloaded into apache-tomcat-main/webapps. *)
FetchWar ==
    /\ pc = "war"
    /\ \E res \in RepoStates :
          LET p == LatestUrl(res, snap)
          IN  IF p = NoPackage
              THEN pc' = "idle" /\ UNCHANGED <<demo, got>>
              ELSE /\ demo' = [demo EXCEPT !.tomcat = @ \cup {runs}]
                   /\ got' = [got EXCEPT !.web = [pkg |-> p, seen |-> res]]
                   /\ pc' = "conf"
    /\ UNCHANGED <<snap, runs, tarball>>

(* WEB-INF/conf with context-security.xml zipped into the war, the start  *)
(* script in bin/, the client properties and configuration in conf/.      *)
ConfigureTomcat ==
    /\ pc = "conf"
    /\ demo' = [demo EXCEPT !.tomcat = @ \cup {runs}]
    /\ pc' = "manuals"
    /\ UNCHANGED <<snap, runs, got, tarball>>

(* The two manuals are downloaded into demo/, over any earlier copies.    *)
FetchManuals ==
    /\ pc = "manuals"
    /\ demo' = [demo EXCEPT !.manuals = {runs}]
    /\ pc' = "tar"
    /\ UNCHANGED <<snap, runs, got, tarball>>

(* c2mon-demo.tar.gz is opened for writing, which truncates it, and      *)
(* demo/ is added to it.  When add raises, the truncated file stays.      *)
WriteTarball ==
    /\ pc = "tar"
    /\ \E complete \in BOOLEAN :
          tarball' = [parts |-> demo, run |-> runs, complete |-> complete]
    /\ pc' = "idle"
    /\ UNCHANGED <<snap, runs, demo, got>>

(* Any step can raise (file system, network, tar); the script stops.      *)
Abort ==
    /\ pc # "idle"
    /\ pc' = "idle"
    /\ UNCHANGED <<snap, runs, demo, got, tarball>>

Next ==
    \/ StartRun \/ MakeDemoDir \/ FetchServer \/ FetchDaq \/ FetchTomcat
    \/ FetchWar \/ ConfigureTomcat \/ FetchManuals \/ WriteTarball \/ Abort

Spec == Init /\ [][Next]_vars

-----------------------------------------------------------------------------
(* The newest release archive of a search result, by the numbers of the   *)
(* versions, computed directly from the result.                           *)
NewestRelease(f) ==
    LET releases == {q \in f.seen : q.packaging \in Archives /\ ~q.version.snap}
    IN  /\ f.pkg \in releases
        /\ \A q \in releases : q.version.num <= f.pkg.version.num

(* Release downloads (getLatestRelease, getLatestReleaseUrl, isSnapshot): *)
(* without -s every archive the script downloads is a release, and no     *)
(* release archive of the artifact in the repository has a newer version. *)
LatestReleasesDownloaded ==
    ~snap => \A a \in Artifacts : got[a] # NoPackage => NewestRelease(got[a])

(* Reruns after a failure (mkdir's rmtree, the Tomcat rename loop): a     *)
(* complete tarball holds server, DAQ, Tomcat and manuals, all from the   *)
(* invocation that wrote it; nothing left by an earlier, failed           *)
(* invocation gets in.                                                     *)
TarballFromOneRun ==
    tarball # NoDir /\ tarball.complete => \A p \in Parts : tarball.parts[p] = {tarball.run}

(* Snapshot option (-s, "take the lates snapshop version for daq, server  *)
(* and web viewer"): with -s every archive downloaded is a snapshot.      *)
SnapshotsWithOption ==
    snap => \A a \in Artifacts : got[a] # NoPackage => IsSnapshot(got[a].pkg)

=============================================================================
