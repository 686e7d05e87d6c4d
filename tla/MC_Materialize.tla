------------------------- MODULE MC_Materialize --------------------------
(* A <deployment> with at most one <directory name="a"> and, at the root  *)
(* and in "a", at most a plain <file name="f"> and an archive             *)
(* <file name="z" unpack="true">, and a <link> to the file "f" or to a    *)
(* name "t" that nothing creates.  The archive holds "f" and "a/f": it    *)
(* collides with its plain sibling "f" and, at the root, with the file of *)
(* the subdirectory, and lib/j.  A root archive "y" holds a member "a", which        *)
(* collides with the directory "a".                                       *)
EXTENDS Materialize

MCPlain   == [source |-> "s1", unpack |-> FALSE]
MCArchive == [source |-> "z", unpack |-> TRUE]
MCArchiveDir == [source |-> "y", unpack |-> TRUE]

MCFileVals ==
    {MCPlain, MCArchive, MCArchiveDir, ProductXml}
      \cup {SourceVal(d, n) : d \in {"build/dist", "lib", "src"}, n \in {"f", "j", "w"}}

MCUnpacked ==
    [s \in {"s1", "z", "y"} |->
        CASE s = "z" -> (<<"f">> :> "zf") @@ (<<"a", "f">> :> "zaf") @@ (<<"lib", "j">> :> "zlj")
          [] s = "y" -> (<<"a">> :> "ya")
          [] OTHER   -> [r \in {} |-> s]]

MCFiles ==
    {<< >>, <<[name |-> "f", val |-> MCPlain]>>, <<[name |-> "z", val |-> MCArchive]>>,
     <<[name |-> "f", val |-> MCPlain], [name |-> "z", val |-> MCArchive]>>}

MCLinks(targets) == {<< >>} \cup {<<[source |-> "l", target |-> t]>> : t \in targets}

MCDirA(targets) ==
    {[name |-> "a", dirs |-> << >>, files |-> f, links |-> l] :
        f \in MCFiles, l \in MCLinks(targets)}

(* The descriptor's own <directory name="lib"> with a file "j".           *)
MCDirLib == [name |-> "lib", dirs |-> << >>, files |-> <<[name |-> "j", val |-> MCPlain]>>,
             links |-> << >>]

(* Root links to an existing or a missing target; links in "a" only to   *)
(* the existing one.                                                      *)
MCDeployments ==
    {[name |-> "root", dirs |-> d, files |-> f, links |-> l] :
        d \in {<< >>, <<MCDirLib>>} \cup {<<a>> : a \in MCDirA({"f"})},
        f \in MCFiles \cup {<<[name |-> "z", val |-> MCArchiveDir]>>},
        l \in MCLinks({"f", "t"})}

(* A Maven install, and Commonbuild source directories: build/dist/ with  *)
(* the jar and the war or not, lib/ with the jar or not, the jar excluded *)
(* or not, and an old-style src/<product>/f or not.                       *)
MCMaven == {[driver |-> "maven"]}

MCLayouts ==
    {[driver |-> "maven"]}
      \cup {[driver |-> "commonbuild", listed |-> ("build/dist" :> dist) @@ ("lib" :> lib),
             excluded |-> ex, old |-> old] :
               dist \in SUBSET {"j", "w"}, lib \in SUBSET {"j"}, ex \in SUBSET {"j"},
               old \in SUBSET {"f"}}

(* Both orders of the names that can meet in one sort group.              *)
MCFileOrders == {s \o <<"product.xml", "j", "w">> : s \in SetToSeqs({"f", "z"})}

(* Links only in "a", to the file "a/f" the same directory declares.      *)
MCSubdirLinks ==
    {[name |-> "root", dirs |-> <<[name |-> "a", dirs |-> << >>,
                                   files |-> <<[name |-> "f", val |-> MCPlain]>>,
                                   links |-> <<[source |-> "l", target |-> "f"]>>]>>,
      files |-> << >>, links |-> << >>]}

=============================================================================
