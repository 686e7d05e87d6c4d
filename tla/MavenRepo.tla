----------------------------- MODULE MavenRepo -----------------------------
(***************************************************************************)
(* The repository lookup of maven.py (MavenRepoinfo): the artifact search  *)
(* returns the artifact's files in every repository; getAvailVersions      *)
(* turns them into packages, getLatestRelease keeps those of the newest    *)
(* version and getLatestReleaseUrl / getLatestSnapshotUrl insist on        *)
(* exactly one.  Pure operators, used by the modules of the callers.       *)
(*                                                                         *)
(* A search result is a record per file with the fields getAvailVersions   *)
(* cuts out of its uri (repository, version, classifier, packaging); the   *)
(* string surgery itself is not modelled.  A version is a number and a     *)
(* SNAPSHOT flag: "n" or "n-SNAPSHOT".                                     *)
(***************************************************************************)
EXTENDS Naturals, Sequences, SequencesExt, FiniteSets

CONSTANT NoPackage      \* no package: None, or the lookup raised

(* MavenPackage.isSnapshot: "SNAPSHOT" occurs in the version after its    *)
(* first character.                                                        *)
IsSnapshot(p) == p.version.snap

(* distutils LooseVersion order: numbers compare as numbers, and "n" is   *)
(* a prefix of "n-SNAPSHOT", so it is the smaller of the two.             *)
LooseLess(v, w) == v.num < w.num \/ (v.num = w.num /\ ~v.snap /\ w.snap)

Archives == {"tar.gz", "tgz", "zip", "war"}

(* One iteration of getAvailVersions' loop: with an extension requested,  *)
(* a file of another packaging gives p = None, and the packaging test     *)
(* p.getPackaging() that follows raises; a file that is no archive is     *)
(* skipped; a package equal (__eq__: every field) to one already listed is *)
(* not listed twice.                                                       *)
AvailStep(ext, acc, e) ==
    LET p == IF ext # NoPackage /\ e.packaging # ext THEN NoPackage ELSE e
    IN  CASE acc.raised                 -> acc
          [] p = NoPackage              -> [acc EXCEPT !.raised = TRUE]
          [] p.packaging \notin Archives -> acc
          [] p \notin ToSet(acc.pkgs)   -> [acc EXCEPT !.pkgs = Append(@, p)]
          [] OTHER                      -> acc

(* getAvailVersions over the search results.  The results come as a JSON  *)
(* list in the repository's order; nothing below depends on that order   *)
(* (the listing is sorted, then sorted again), so a fixed one is taken.   *)
AvailVersions(results, ext) ==
    FoldLeft(LAMBDA acc, e : AvailStep(ext, acc, e),
             [pkgs |-> << >>, raised |-> FALSE], SetToSeq(results))

(* Bug variant of LatestRelease: snapshots kept whatever is searched for. *)
LatestReleaseKeepingSnapshots(pkgs, searchForSnapShot) ==
    LET kept == ToSet(pkgs)
    IN  {p \in kept : \A q \in kept : ~LooseLess(p.version, q.version)}

(* getLatestRelease(searchForSnapShot): releases are always kept,         *)
(* snapshots only when searching for them; of those, the packages whose   *)
(* version equals the newest one by LooseVersion.                          *)
LatestRelease(pkgs, searchForSnapShot) ==
    LET kept == {p \in ToSet(pkgs) : ~IsSnapshot(p) \/ searchForSnapShot}
    IN  {p \in kept : \A q \in kept : ~LooseLess(p.version, q.version)}

(* getLatestReleaseUrl / getLatestSnapshotUrl: getRepoInfo raises on an   *)
(* empty search result; then anything but exactly one newest package      *)
(* raises; else that package (its resourceUrl) is returned.               *)
LatestUrl(results, searchForSnapShot) ==
    LET avail  == AvailVersions(results, NoPackage)
        latest == LatestRelease(avail.pkgs, searchForSnapShot)
    IN  IF results = {} \/ avail.raised \/ Cardinality(latest) # 1
        THEN NoPackage
        ELSE CHOOSE p \in latest : TRUE

=============================================================================
