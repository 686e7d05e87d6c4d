---------------------------- MODULE Materialize ----------------------------
(***************************************************************************)
(* createDirectoryStructure (tools.py): the tree a <deployment> was read   *)
(* into (DirectoryTree's ReadDirectory, which readDeploymentTag performs   *)
(* on the root Directory) is written under the fresh install directory P. *)
(* The call is sequential; its writes are computed here as the list of    *)
(* operations the recursion performs, in the code's order, and executed  *)
(* one per step, so that a raise leaves the writes before it on disk.     *)
(*                                                                         *)
(* The filesystem is a function from paths under P (sequences of names)  *)
(* to entries.  A file records the source it was copied or unpacked from. *)
(* Links that createLink makes in the tool's own working directory        *)
(* instead of under P are kept apart, by name.  All sources are local     *)
(* copies (handleCopyGet); simulation mode is the Installer's concern.    *)
(***************************************************************************)
EXTENDS Naturals, Sequences, SequencesExt, FiniteSets

CONSTANTS
    DirNames, FileNames, LinkNames, Targets, FileVals, NoNode, NoFile,
    Deployments,   \* <deployment> tags, as directory tags named "root"
    Unpacked,      \* source -> [relative path -> source]: what an archive holds
    Layouts,       \* [driver |-> "maven"], or a Commonbuild source directory
    Jars, Wars,    \* the file names matching .*\.jar and .*\.war
    FileOrders     \* iteration orders of a file dict, each listing FileNames

DT == INSTANCE DirectoryTree
        WITH DirTags <- {}, FileTags <- {}, LinkTags <- {}, MaxApps <- 1,
             MaxTags <- 0, MaxDepth <- 0, root <- NoNode, app <- 1,
             phase <- "dirs", ntags <- 0, incoming <- NoNode

DirEntry      == [kind |-> "dir"]
FileEntry(s)  == [kind |-> "file", src |-> s]
LinkEntry(t)  == [kind |-> "link", target |-> t]
Entries == {DirEntry} \cup {FileEntry(s) : s \in UNION {{v.source : v \in FileVals}}
                                             \cup UNION {Range(Unpacked[s]) : s \in DOMAIN Unpacked}}
           \cup {LinkEntry(t) : t \in Targets}

VARIABLES
    layout,   \* the driver, with the Commonbuild source directory's listings
    tree,     \* the root Directory being materialized
    ops,      \* the operations of the recursion still to perform
    fs,       \* [paths under P -> Entries]
    cwd,      \* names of the links created in the tool's working directory
    status    \* "run", "done" (returned) or "failed" (raised)

vars == <<layout, tree, ops, fs, cwd, status>>

IsDir(f, p) == p \in DOMAIN f /\ f[p] = DirEntry

(* Bug variant of FilesInOrder: the sorted list not reversed.             *)
FilesInOrderNotReversed(dir, order) ==
    LET present == SelectSeq(order, LAMBDA f : dir.files[f] # NoFile)
    IN  SelectSeq(present, LAMBDA f : ~dir.files[f].unpack)
          \o SelectSeq(present, LAMBDA f : dir.files[f].unpack)

(* files = sorted(dir.getFiles(), key=unpack); files.reverse(): getFiles  *)
(* lists the file dict in an unspecified order; the stable sort puts the  *)
(* plain files first, the reverse puts the archives first.                *)
FilesInOrder(dir, order) ==
    LET present == SelectSeq(order, LAMBDA f : dir.files[f] # NoFile)
    IN  Reverse(SelectSeq(present, LAMBDA f : ~dir.files[f].unpack)
                  \o SelectSeq(present, LAMBDA f : dir.files[f].unpack))

(* createDirectoryStructure(installPath, dir) for dir at path p: mkdir,   *)
(* the child directories recursively, the files, then the links.          *)
RECURSIVE CreateOps(_, _, _)
CreateOps(dir, p, order) ==
    LET files == FilesInOrder(dir, order)
    IN  << [op |-> "mkdir", path |-> p] >>
        \o FoldLeft(LAMBDA s, n : s \o CreateOps(dir.dirs[n], Append(p, n), order),
                    << >>, SetToSeq(DT!Present(dir)))
        \o [k \in 1..Len(files) |->
              [op |-> "file", path |-> p, name |-> files[k], val |-> dir.files[files[k]]]]
        \o [k \in DOMAIN dir.links |-> [op |-> "link", path |-> p, link |-> dir.links[k]]]

(* Directory.removeFile: the file of that name, if any, is dropped.      *)
RemoveFile(dir, n) == [dir EXCEPT !.files[n] = NoFile]

(* The default directories bin and log, added when absent (doPreInstall,  *)
(* and the same loop in Commonbuild.install).                             *)
DefaultDirectories(root) ==
    FoldLeft(LAMBDA acc, n : IF acc.dirs[n] = NoNode
                             THEN DT!AddDirectory(acc, DT!NewDirectory(n)) ELSE acc,
             root, <<"bin", "log">>)

(* A file of the Commonbuild source directory d, and the descriptor.      *)
SourceVal(d, n) == [source |-> d \o "/" \o n, unpack |-> FALSE]
ProductXml == [source |-> "deployConfig", unpack |-> FALSE]

(* Bug variant of LibDirs: lib/ listed before build/dist/.                *)
LibDirsSwapped == <<"lib", "build/dist">>

(* for dir in ('build/dist/', 'lib'): the dependency directories, in order. *)
LibDirs == <<"build/dist", "lib">>

(* The files of the dependency directories whose names are in names,     *)
(* added to dir one after the other: a later one replaces an earlier one. *)
Collect(dir, names, src) ==
    FoldLeft(LAMBDA acc, d :
                FoldLeft(LAMBDA a, n : DT!AddFile(a, n, SourceVal(d, n)),
                         acc, SetToSeq(src.listed[d] \cap names)),
             dir, LibDirs)

(* Commonbuild.install for a source directory: default directories,      *)
(* product.xml, the files of the old-style src/<product> folder, then    *)
(* lib with the jars minus lib/excluded, and webapp with the wars when    *)
(* there are any, both merged into the descriptor's tree.                 *)
CommonbuildTree(root, src) ==
    LET withConf == DT!AddFile(DefaultDirectories(root), "product.xml", ProductXml)
        withOld  == FoldLeft(LAMBDA acc, n : DT!AddFile(acc, n, SourceVal("src", n)),
                             withConf, SetToSeq(src.old))
        libs     == FoldLeft(LAMBDA a, n : RemoveFile(a, n),
                             Collect(DT!NewDirectory("lib"), Jars, src),
                             SetToSeq(src.excluded))
        webapp   == Collect(DT!NewDirectory("webapp"), Wars, src)
        withLibs == DT!AddDirectory(withOld, libs)
    IN  IF \E n \in FileNames : webapp.files[n] # NoFile
        THEN DT!AddDirectory(withLibs, webapp) ELSE withLibs

(* The members of an archive unpacked at p and the directories above them. *)
Members(p, src) == {p \o r : r \in DOMAIN Unpacked[src]}
MemberDirs(p, src) ==
    UNION {{p \o SubSeq(r, 1, k) : k \in 1..Len(r) - 1} : r \in DOMAIN Unpacked[src]}

(* extractall raises on a member that is an existing directory, or below  *)
(* an existing entry that is no directory.                                *)
ExtractFails(f, p, src) ==
    \/ \E q \in Members(p, src) : IsDir(f, q)
    \/ \E d \in MemberDirs(p, src) : d \in DOMAIN f /\ ~IsDir(f, d)

(* Bug variant of Extract: the members' directories are not created.      *)
ExtractWithoutParents(f, p, src) ==
    [q \in Members(p, src) |-> FileEntry(Unpacked[src][SubSeq(q, Len(p) + 1, Len(q))])] @@ f

(* extractTar(result, localdir): tarfile creates the members' missing    *)
(* directories and overwrites existing files.                             *)
Extract(f, p, src) ==
    [q \in Members(p, src) |-> FileEntry(Unpacked[src][SubSeq(q, Len(p) + 1, Len(q))])]
      @@ [d \in MemberDirs(p, src) \ DOMAIN f |-> DirEntry] @@ f

(* The directory createLink is given: os.path.join(localdir,             *)
(* link.getSourceParentDir().getPath()), where localdir already is the    *)
(* link's directory joined to P, so the directory's path comes twice.     *)
LinkDir(p) == p \o p

Op == Head(ops)

(* doPreInstall has created P; the tree is the one readDeploymentTag      *)
(* built, completed by the Commonbuild driver and by doPreInstall, and    *)
(* the file dicts have some iteration order.  The directory the tool runs *)
(* in may already hold names (links left by earlier runs).                *)
Init ==
    \E t \in Deployments, src \in Layouts, order \in FileOrders :
        LET read  == DT!ReadDirectory(t)
            built == DefaultDirectories(IF src.driver = "commonbuild"
                                        THEN CommonbuildTree(read, src) ELSE read)
        IN  /\ layout = src
            /\ tree = built
            /\ ops = CreateOps(built, << >>, order)
        /\ fs = (<< >> :> DirEntry)
        /\ cwd \in SUBSET LinkNames
        /\ status = "run"

(* tools.mkdir(localdir): os.makedirs, an existing path (errno 17) is     *)
(* ignored; then the directory's mask.                                    *)
MkDir ==
    /\ status = "run" /\ ops # << >> /\ Op.op = "mkdir"
    /\ fs' = IF Op.path \in DOMAIN fs THEN fs ELSE (Op.path :> DirEntry) @@ fs
    /\ ops' = Tail(ops)
    /\ UNCHANGED <<layout, tree, cwd, status>>

(* handleGetFile -> handleCopyGet: the source is copied to localdir/name; *)
(* a file that needs unpacking is then extracted into localdir (the      *)
(* archive itself stays); then the file's mask.                           *)
GetFile ==
    /\ status = "run" /\ ops # << >> /\ Op.op = "file"
    /\ LET copied == (Append(Op.path, Op.name) :> FileEntry(Op.val.source)) @@ fs
           src    == Op.val.source
       IN  \/ /\ ~Op.val.unpack
              /\ fs' = copied /\ ops' = Tail(ops) /\ UNCHANGED status
           \/ /\ Op.val.unpack /\ ~ExtractFails(copied, Op.path, src)
              /\ fs' = Extract(copied, Op.path, src) /\ ops' = Tail(ops) /\ UNCHANGED status
           \/ /\ Op.val.unpack /\ ExtractFails(copied, Op.path, src)
              /\ fs' = copied /\ status' = "failed" /\ UNCHANGED ops
    /\ UNCHANGED <<layout, tree, cwd>>

(* createLink(dir, source, target): os.chdir(dir) raises when dir is no  *)
(* directory.  When source exists there, or target does not, the code    *)
(* logs an error and changes back to the working directory, where        *)
(* os.symlink then makes the link (raising if the name is taken).        *)
MakeLink ==
    /\ status = "run" /\ ops # << >> /\ Op.op = "link"
    /\ LET d       == LinkDir(Op.path)
           l       == Op.link
           inPlace == /\ Append(d, l.source) \notin DOMAIN fs
                      /\ Append(d, l.target) \in DOMAIN fs
       IN  \/ /\ ~IsDir(fs, d)
              /\ status' = "failed" /\ UNCHANGED <<fs, cwd, ops>>
           \/ /\ IsDir(fs, d) /\ inPlace
              /\ fs' = (Append(d, l.source) :> LinkEntry(l.target)) @@ fs
              /\ ops' = Tail(ops) /\ UNCHANGED <<cwd, status>>
           \/ /\ IsDir(fs, d) /\ ~inPlace /\ l.source \notin cwd
              /\ cwd' = cwd \cup {l.source}
              /\ ops' = Tail(ops) /\ UNCHANGED <<fs, status>>
           \/ /\ IsDir(fs, d) /\ ~inPlace /\ l.source \in cwd
              /\ status' = "failed" /\ UNCHANGED <<fs, cwd, ops>>
    /\ UNCHANGED <<layout, tree>>

(* The outermost call returns to doPostInstall.                           *)
Finish ==
    /\ status = "run" /\ ops = << >>
    /\ status' = "done"
    /\ UNCHANGED <<layout, tree, ops, fs, cwd>>

Next == MkDir \/ GetFile \/ MakeLink \/ Finish

Spec == Init /\ [][Next]_vars

-----------------------------------------------------------------------------
(* Besides the types: the entries under P form a tree, every entry's     *)
(* parent being a directory (makedirs and tarfile create parents).        *)
TypeOK ==
    /\ fs \in [DOMAIN fs -> Entries]
    /\ << >> \in DOMAIN fs
    /\ \A p \in DOMAIN fs : p # << >> => IsDir(fs, Front(p))
    /\ cwd \subseteq LinkNames
    /\ status \in {"run", "done", "failed"}

(* An archive declared in a directory strictly above q's holds q.         *)
ShadowedByEnclosingArchive(q) ==
    \E e \in DT!FileEntries(tree, << >>) :
        /\ e[3].unpack
        /\ Len(e[1]) < Len(q) - 1
        /\ q \in Members(e[1], e[3].source)

(* Unpack before siblings (spec 4.5 and 8, the sort at tools.py 284):    *)
(* after createDirectoryStructure returns, every directory of the tree   *)
(* exists, and every declared file holds what it was copied from - a     *)
(* plain file is never overwritten by an archive of its own directory,   *)
(* whatever the declaration or dict order.  Only an archive of an         *)
(* enclosing directory, unpacked after the subdirectories, may replace it. *)
FilesMaterialized ==
    status = "done" =>
        /\ \A p \in DT!DirPaths(tree, << >>) : IsDir(fs, p)
        /\ \A e \in DT!FileEntries(tree, << >>) :
              LET q == Append(e[1], e[2])
              IN  \/ q \in DOMAIN fs /\ fs[q] = FileEntry(e[3].source)
                  \/ ShadowedByEnclosingArchive(q)

(* The Commonbuild dependency list (commonbuild.py 144-161): after a      *)
(* Commonbuild install returns, P/lib/j holds, for every jar j found in   *)
(* build/dist/ or lib/, the lib/ copy if lib/ has one and the build/dist/ *)
(* copy otherwise - over a file lib/j the descriptor declares - and no    *)
(* copy at all when j is listed in lib/excluded; an archive of the root   *)
(* that holds lib/j is the one exception, as in FilesMaterialized.        *)
LibraryFromSource ==
    (status = "done" /\ layout.driver = "commonbuild") =>
        \A j \in Jars \cap (layout.listed["build/dist"] \cup layout.listed["lib"]) :
            LET q      == <<"lib", j>>
                copies == {FileEntry(SourceVal(d, j).source) : d \in {"build/dist", "lib"}}
                want   == IF j \in layout.listed["lib"] THEN SourceVal("lib", j)
                                                       ELSE SourceVal("build/dist", j)
            IN  \/ ShadowedByEnclosingArchive(q)
                \/ j \in layout.excluded /\ (q \in DOMAIN fs => fs[q] \notin copies)
                \/ j \notin layout.excluded /\ q \in DOMAIN fs /\ fs[q] = FileEntry(want.source)

(* Links (spec 4.5: "finally creates each declared Link relative to the  *)
(* directory"): createDirectoryStructure of a tree with links returns,   *)
(* and each link is in its directory with its target.                    *)
LinksCreated ==
    status # "run" =>
        /\ status = "done"
        /\ \A e \in DT!LinkEntries(tree, << >>) :
              LET q == Append(e[1], e[2])
              IN  q \in DOMAIN fs /\ fs[q] = LinkEntry(e[3])

=============================================================================
