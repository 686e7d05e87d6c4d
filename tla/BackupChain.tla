---------------------------- MODULE BackupChain ----------------------------
(***************************************************************************)
(* What a rotating-backup installer promises about the installations it   *)
(* keeps at an install path P and its backups P.1, P.2, ...: read in path *)
(* order they form a chain, newest first.  An installation step may put a  *)
(* new installation in front, replace the front one by a newer one         *)
(* (installing over the live directory), or discard an installation; it    *)
(* never reorders, duplicates or brings back an installation.              *)
(*                                                                         *)
(* Both installers of the repository (tools.makeBackup with doPreInstall,  *)
(* and the legacy deploy.py makeBackup with installApplication) are shown  *)
(* to implement this module under a refinement mapping that lists the      *)
(* existing slots of the path in order.                                    *)
(***************************************************************************)
EXTENDS Naturals, Sequences, SequencesExt

CONSTANTS
    Ids,            \* installations, numbered in the order they are made
    OverwritesLive  \* whether the installer may install over an existing P

VARIABLE chain      \* the installations at P, P.1, P.2, ... that exist

(* id is newer than every installation in the chain.                       *)
Newer(id) == \A k \in 1..Len(chain) : chain[k] < id

Init == chain = <<>>

(* A new installation becomes P; the former ones stay, in their order.    *)
Install(id) ==
    /\ Newer(id)
    /\ chain' = Cons(id, chain)

(* The live installation P is overwritten by a newer one in place.        *)
InstallInPlace(id) ==
    /\ OverwritesLive
    /\ chain # <<>>
    /\ Newer(id)
    /\ chain' = ReplaceAt(chain, 1, id)

(* An installation is removed from the chain.                             *)
Discard(k) ==
    /\ k \in 1..Len(chain)
    /\ chain' = RemoveAt(chain, k)

Next ==
    \/ \E id \in Ids : Install(id) \/ InstallInPlace(id)
    \/ \E k \in 1..Len(chain) : Discard(k)

Spec == Init /\ [][Next]_chain

=============================================================================
