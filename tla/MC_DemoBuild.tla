---------------------------- MODULE MC_DemoBuild ----------------------------
(* Model-checking instance of DemoBuild.  The repository holds, for each   *)
(* artifact, archives of versions 1, 1-SNAPSHOT, 2 and 2-SNAPSHOT, the     *)
(* release 2 also in a second repository, and a pom; a search answers     *)
(* with any one or two of these files (or none).                           *)
EXTENDS DemoBuild

Ver(n, s) == [num |-> n, snap |-> s]
File(r, v, k) == [repo |-> r, version |-> v, classifier |-> "none", packaging |-> k]

MCFiles ==
    {File("local", Ver(n, s), "tar.gz") : n \in 1..2, s \in BOOLEAN}
      \cup {File("remote", Ver(2, FALSE), "tar.gz"), File("local", Ver(2, FALSE), "pom")}

MCRepoStates == {r \in SUBSET MCFiles : Cardinality(r) <= 2}
=============================================================================
