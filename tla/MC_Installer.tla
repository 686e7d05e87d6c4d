---------------------------- MODULE MC_Installer ----------------------------
(* Model-checking instance of Installer: two backups, three releases.      *)
EXTENDS Installer

(* Descriptors whose backupPolicy either keeps at least one backup, or     *)
(* keeps none and preserves nothing.                                       *)
MCPoliciesConsistent ==
    {[keep |-> k, preserve |-> p] : k \in 1..MaxKeep, p \in BOOLEAN}
        \cup {[keep |-> 0, preserve |-> FALSE]}

(* Every descriptor the resolver accepts, including keepBackups="0" with   *)
(* <preserve> entries (readBackupInformation keeps 0 and the entries).      *)
MCPoliciesAll ==
    {[keep |-> k, preserve |-> p] : k \in 0..MaxKeep, p \in BOOLEAN}

(* The install drivers: -d changes nothing for Maven.install (the option  *)
(* is copied into the application) nor for a source directory, so one of *)
(* each, and a Commonbuild archive with and without -d.                   *)
MCDrivers ==
    {[driver |-> "maven", dirOption |-> FALSE], [driver |-> "cbDir", dirOption |-> FALSE],
     [driver |-> "cbArchive", dirOption |-> TRUE], [driver |-> "cbArchive", dirOption |-> FALSE]}

MCMavenOnly == {[driver |-> "maven", dirOption |-> FALSE]}

MCCommonbuildArchive == {[driver |-> "cbArchive", dirOption |-> d] : d \in BOOLEAN}
=============================================================================
