--------------------------- MODULE DirectoryTree ---------------------------
(***************************************************************************)
(* The in-memory directory tree of a deployment (common.py Directory,     *)
(* File, Link) and how the config resolver builds it (config.py           *)
(* readDeploymentTag, readDirectory).                                      *)
(*                                                                         *)
(* A Directory is a record: its name, its files keyed by name, its        *)
(* subdirectories keyed by name and its list of links.  The parent         *)
(* pointers of the code are not stored: the only use of a link's parent    *)
(* directory is its path, and every merge re-parents the merged directory  *)
(* under the node it is merged into, so a link's directory is always the  *)
(* node that holds it.                                                     *)
(*                                                                         *)
(* The descriptor is a sequence of applications: the default one and then *)
(* one that inherits from it (a deep copy of the parent's tree).  Each     *)
(* <deployment> adds its <directory> tags, then its <file> tags, then its *)
(* <link> tags to the root directory, in that order.                       *)
(***************************************************************************)
EXTENDS Naturals, Sequences, SequencesExt, FiniteSets

CONSTANTS
    DirNames,    \* names of directories
    FileNames,   \* names of files
    LinkNames,   \* link names (the 'source' attribute of <link>)
    Targets,     \* link targets
    FileVals,    \* what readFileTag makes of a <file> tag: [source, unpack]
    NoNode,      \* no subdirectory of that name
    NoFile,      \* no file of that name
    DirTags,     \* <directory> tags: [name, dirs : Seq(tag), files, links]
    FileTags,    \* <file> tags at the root: [name, val]
    LinkTags,    \* <link> tags: [source, target]
    MaxApps,     \* applications in the descriptor (default + inheriting)
    MaxTags,     \* tags read over the whole descriptor
    MaxDepth     \* depth of the trees the descriptors describe

LinkVal == [source : LinkNames, target : Targets]

(* The trees of depth at most k: a Directory record whose subdirectories  *)
(* are trees of depth k - 1.  Links are bounded by the tags read.         *)
RECURSIVE Trees(_)
Trees(k) ==
    [name  : DirNames \cup {"root"},
     files : [FileNames -> FileVals \cup {NoFile}],
     dirs  : [DirNames -> IF k = 0 THEN {NoNode} ELSE Trees(k - 1) \cup {NoNode}],
     links : BoundedSeq(LinkVal, MaxTags)]

(* Directory(name): no files, no subdirectories, no links.               *)
NewDirectory(n) ==
    [name |-> n, files |-> [f \in FileNames |-> NoFile],
     dirs |-> [d \in DirNames |-> NoNode], links |-> << >>]

(* Directory.addFile: a file of the same name is replaced.               *)
AddFile(dir, n, f) == [dir EXCEPT !.files[n] = f]

(* Directory.addLink: appended; the code's TODO notes that a link of the  *)
(* same name is not checked.                                               *)
AddLink(dir, l) == [dir EXCEPT !.links = Append(@, l)]

(* The link loop of addDirectoryContent: for each incoming link, every    *)
(* existing link with the same source is overwritten by it; an incoming   *)
(* link whose source is not yet there is not added.                       *)
ReplaceLinks(links, incoming) ==
    FoldLeft(LAMBDA ls, l : [k \in DOMAIN ls |->
                               IF ls[k].source = l.source THEN l ELSE ls[k]],
             links, incoming)

Present(dir) == {n \in DirNames : dir.dirs[n] # NoNode}

RECURSIVE AddDirectory(_, _), AddDirectoryContent(_, _)

(* Directory.addDirectoryContent(d): d's files are added (replacing),     *)
(* d's subdirectories are added (merging), d's links replace links of the *)
(* same source.                                                           *)
AddDirectoryContent(self, d) ==
    LET withFiles == [self EXCEPT !.files =
                        [f \in FileNames |-> IF d.files[f] # NoFile
                                             THEN d.files[f] ELSE @[f]]]
        withDirs  == FoldSet(LAMBDA c, acc : AddDirectory(acc, c), withFiles,
                             {d.dirs[n] : n \in Present(d)})
    IN  [withDirs EXCEPT !.links = ReplaceLinks(@, d.links)]

(* Bug variants of addDirectory: calling addDirectory instead of          *)
(* addDirectoryContent on the existing node (nests d inside it), and      *)
(* replacing the existing node instead of merging.                        *)
AddDirectoryNested(self, d) ==
    IF self.dirs[d.name] # NoNode
    THEN [self EXCEPT !.dirs[d.name] = AddDirectory(@, d)]
    ELSE [self EXCEPT !.dirs[d.name] = d]

AddDirectoryReplacing(self, d) == [self EXCEPT !.dirs[d.name] = d]

(* Directory.addDirectory(d): merged into the existing subdirectory of    *)
(* the same name, or inserted as it is.                                    *)
AddDirectory(self, d) ==
    IF self.dirs[d.name] # NoNode
    THEN [self EXCEPT !.dirs[d.name] = AddDirectoryContent(@, d)]
    ELSE [self EXCEPT !.dirs[d.name] = d]

(* readDirectory: a fresh Directory, then its <directory> children (each  *)
(* read recursively and added with addDirectory), its <file> children and *)
(* its <link> children.                                                   *)
RECURSIVE ReadDirectory(_)
ReadDirectory(tag) ==
    LET withDirs  == FoldLeft(LAMBDA acc, t : AddDirectory(acc, ReadDirectory(t)),
                              NewDirectory(tag.name), tag.dirs)
        withFiles == FoldLeft(LAMBDA acc, ft : AddFile(acc, ft.name, ft.val),
                              withDirs, tag.files)
    IN  FoldLeft(LAMBDA acc, l : AddLink(acc, l), withFiles, tag.links)

-----------------------------------------------------------------------------
VARIABLES
    root,      \* the root Directory of the current application's DeploymentInfo
    app,       \* the application being read: 1 is the default one
    phase,     \* which kind of child tag of <deployment> is being read
    ntags,     \* tags read so far
    incoming   \* the Directory the last step added (NoNode for other steps)

vars == <<root, app, phase, ntags, incoming>>

TypeOK ==
    /\ root \in Trees(MaxDepth)
    /\ app \in 1..MaxApps
    /\ phase \in {"dirs", "files", "links"}
    /\ ntags \in 0..MaxTags
    /\ incoming \in Trees(MaxDepth) \cup {NoNode}

(* DeploymentInfo(): the root directory is Directory("root").            *)
Init ==
    /\ root = NewDirectory("root")
    /\ app = 1
    /\ phase = "dirs"
    /\ ntags = 0
    /\ incoming = NoNode

(* readDeploymentTag: rootInstallDir.addDirectory(readDirectory(d)) for   *)
(* each <directory> child, before any <file> or <link> child.             *)
ReadDirectoryTag ==
    /\ phase = "dirs"
    /\ ntags < MaxTags
    /\ \E t \in DirTags :
          LET d == ReadDirectory(t)
          IN  /\ root' = AddDirectory(root, d)
              /\ incoming' = d
    /\ ntags' = ntags + 1
    /\ UNCHANGED <<app, phase>>

(* readDeploymentTag: rootInstallDir.addFile(readFileTag(f)).            *)
ReadFileTag ==
    /\ phase \in {"dirs", "files"}
    /\ ntags < MaxTags
    /\ \E ft \in FileTags : root' = AddFile(root, ft.name, ft.val)
    /\ phase' = "files"
    /\ ntags' = ntags + 1
    /\ incoming' = NoNode
    /\ UNCHANGED app

(* readDeploymentTag: rootInstallDir.addLink(readSymbolicLinkInformation). *)
ReadLinkTag ==
    /\ ntags < MaxTags
    /\ \E l \in LinkTags : root' = AddLink(root, l)
    /\ phase' = "links"
    /\ ntags' = ntags + 1
    /\ incoming' = NoNode
    /\ UNCHANGED app

(* readNormalApplicationTag for the next application: a deep copy of the *)
(* default application (getCopy), whose <deployment> is then read into    *)
(* the copied DeploymentInfo.                                             *)
InheritApplication ==
    /\ app < MaxApps
    /\ app' = app + 1
    /\ phase' = "dirs"
    /\ incoming' = NoNode
    /\ UNCHANGED <<root, ntags>>

Next == ReadDirectoryTag \/ ReadFileTag \/ ReadLinkTag \/ InheritApplication

Spec == Init /\ [][Next]_vars

-----------------------------------------------------------------------------
(* Flat views of a tree: the paths of its directories, the (path, name)  *)
(* of its files with their value, the (path, source, target) of its links. *)
RECURSIVE DirPaths(_, _), FileEntries(_, _), LinkEntries(_, _)
DirPaths(dir, p) ==
    {p} \cup UNION {DirPaths(dir.dirs[n], Append(p, n)) : n \in Present(dir)}
FileEntries(dir, p) ==
    {<<p, f, dir.files[f]>> : f \in {g \in FileNames : dir.files[g] # NoFile}}
      \cup UNION {FileEntries(dir.dirs[n], Append(p, n)) : n \in Present(dir)}
LinkEntries(dir, p) ==
    {<<p, dir.links[k].source, dir.links[k].target>> : k \in DOMAIN dir.links}
      \cup UNION {LinkEntries(dir.dirs[n], Append(p, n)) : n \in Present(dir)}

Keys(entries) == {<<e[1], e[2]>> : e \in entries}

(* Directory merge is a tree union (spec 3, 4.1 and 8): reading a tag    *)
(* never loses a directory, file or link the tree already had, and        *)
(* afterwards every directory and file of the added Directory is in the   *)
(* tree, each file with the added version.                                *)
DirectoryMergeIsUnion ==
    [][/\ DirPaths(root, << >>) \subseteq DirPaths(root', << >>)
       /\ Keys(FileEntries(root, << >>)) \subseteq Keys(FileEntries(root', << >>))
       /\ Keys(LinkEntries(root, << >>)) \subseteq Keys(LinkEntries(root', << >>))
       /\ incoming' # NoNode =>
            /\ DirPaths(incoming', <<incoming'.name>>) \subseteq DirPaths(root', << >>)
            /\ FileEntries(incoming', <<incoming'.name>>) \subseteq FileEntries(root', << >>)
      ]_vars

(* Links of merged directories are unioned (spec 3 and 8): after adding  *)
(* a Directory, each of its links is in the tree with the added target.   *)
LinksUnionedOnMerge ==
    [][incoming' # NoNode =>
         LinkEntries(incoming', <<incoming'.name>>) \subseteq LinkEntries(root', << >>)]_vars

(* Links are deduplicated by source (spec 3): no directory of the tree   *)
(* holds two links with the same name, which createLink could not both   *)
(* create.                                                                *)
RECURSIVE DuplicateLinkDirs(_, _)
DuplicateLinkDirs(dir, p) ==
    (IF \E j, k \in DOMAIN dir.links : j # k /\ dir.links[j].source = dir.links[k].source
     THEN {p} ELSE {})
      \cup UNION {DuplicateLinkDirs(dir.dirs[n], Append(p, n)) : n \in Present(dir)}

LinksUniqueBySource == DuplicateLinkDirs(root, << >>) = {}

=============================================================================
