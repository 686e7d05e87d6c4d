------------------------- MODULE MC_DirectoryTree -------------------------
(* Descriptors with two directory names, one file name, two link names    *)
(* and two targets: enough for a directory declared twice (by the default *)
(* and the inheriting application, or twice in one <deployment>), a       *)
(* nested directory merged into an existing one, a link redeclared with   *)
(* another target and a new link in a redeclared directory.               *)
EXTENDS DirectoryTree

MCFileVals == {[source |-> s, unpack |-> FALSE] : s \in {"s1", "s2"}}

MCLinkTags == {[source |-> "l1", target |-> "t1"], [source |-> "l1", target |-> "t2"],
               [source |-> "l2", target |-> "t1"]}

(* <directory name=n> with at most one <file name="f"> and one <link>.    *)
MCLeafTags ==
    {[name |-> n, dirs |-> << >>, files |-> fs, links |-> ls] :
        n \in {"a", "b"},
        fs \in {<< >>} \cup {<<[name |-> "f", val |-> v]>> : v \in MCFileVals},
        ls \in {<< >>} \cup {<<l>> : l \in MCLinkTags}}

(* <directory name=n> holding one leaf <directory>.                       *)
MCNestedTags ==
    {[name |-> n, dirs |-> <<t>>, files |-> << >>, links |-> << >>] :
        n \in {"a", "b"}, t \in MCLeafTags}

MCDirTags == MCLeafTags \cup MCNestedTags

MCFileTags == {[name |-> "f", val |-> v] : v \in MCFileVals}

=============================================================================
