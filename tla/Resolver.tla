----------------------------- MODULE Resolver -----------------------------
(***************************************************************************)
(* The config resolver (config.py getApplicationsFromConfig and            *)
(* readNormalApplicationTag with the readers they call): how the          *)
(* <application> tags of a descriptor become the Applications of a         *)
(* Product, with inheritance from the default application.                 *)
(*                                                                         *)
(* Strings are abstracted to small sets of names; a start script keeps    *)
(* its process name and environment (env, JVM args and user properties    *)
(* are merged the same way, key by key); a DeploymentInfo keeps its       *)
(* install location flag, backup policy, notification list, string       *)
(* replacements and jar signer.  The directory tree is DirectoryTree.     *)
(* Any exception ends resolution in state "failed".                       *)
(***************************************************************************)
EXTENDS Naturals, Sequences, SequencesExt, FiniteSets

CONSTANTS
    AppNames,       \* names of the named applications (not "default")
    ScriptNames,    \* explicit <startscript name=...> values (not "default")
    EnvKeys,        \* <env name=...>
    Vals,           \* values of env vars and replacements
    PreserveNames,  \* <preserve name=...>
    Addrs,          \* <mail address=...>
    ReplFiles,      \* <replaceString><file name=...>
    ReplVars,       \* <replaceString><file var=...>
    None,           \* Python None: an absent attribute or tag
    NoApp,          \* no application of that name
    NoScript,       \* no start script of that process name
    Descriptors     \* the descriptors (and -a option) a run may be given

AppKeys    == AppNames \cup {"default"}
ScriptKeys == ScriptNames \cup AppKeys \cup {None}

Name(tag) == IF tag.name = None THEN "default" ELSE tag.name

(* Application(product, name): /opt/<product>/<name>, an empty            *)
(* DeploymentInfo (BackupPolicy keeps 1) and no start scripts.            *)
NewApplication(n) ==
    [name |-> n, dir |-> n, scripts |-> [k \in ScriptKeys |-> NoScript],
     location |-> FALSE, keep |-> 1, preserve |-> << >>, mails |-> << >>,
     repl |-> [f \in ReplFiles |-> << >>], signer |-> FALSE]

(* Application.getCopy then setName: everything is copied, the install    *)
(* directory included.                                                     *)
CopyApplication(app, n) == [app EXCEPT !.name = n]

ScriptsOf(app) == {k \in ScriptKeys : app.scripts[k] # NoScript}
AppsIn(p)      == {a \in AppKeys : p[a] # NoApp}

(* Bug variant: the inherited values win over the tag's.                 *)
ReadJavaStartScriptParentWins(tag, inherit) ==
    LET base == IF inherit = NoScript
                THEN [proc |-> None, env |-> [k \in EnvKeys |-> None]]
                ELSE inherit
    IN  [proc |-> IF tag.name # None THEN tag.name ELSE base.proc,
         env  |-> [k \in EnvKeys |-> IF base.env[k] # None THEN base.env[k]
                                     ELSE tag.env[k]]]

(* readJavaStartScript(tag, appName, inherit): a copy of inherit (or a    *)
(* fresh script), each <env> of the tag set over it, and the process name *)
(* set only when the tag has a name.                                       *)
ReadJavaStartScript(tag, inherit) ==
    LET base == IF inherit = NoScript
                THEN [proc |-> None, env |-> [k \in EnvKeys |-> None]]
                ELSE inherit
    IN  [proc |-> IF tag.name # None THEN tag.name ELSE base.proc,
         env  |-> [k \in EnvKeys |-> IF tag.env[k] # None THEN tag.env[k]
                                     ELSE base.env[k]]]

(* readBackupInformation(node, inherit): keepBackups (else the inherited  *)
(* value) must be in 0..5; setKeepBackups empties the preserve list; then *)
(* every <preserve> entry is appended.                                     *)
BackupFails(app, bt) == LET n == IF bt.keep = None THEN app.keep ELSE bt.keep
                        IN  n > 5
ReadBackupInformation(app, bt) ==
    [app EXCEPT !.keep = IF bt.keep = None THEN @ ELSE bt.keep,
                !.preserve = bt.preserve]

(* readNotification: a mail with sendAtRestart refers to the misspelt    *)
(* 'notifcation' and raises NameError; the list read is appended to the  *)
(* inherited one (addNotificationList).                                   *)
NotificationFails(mt) == \E j \in DOMAIN mt : mt[j].restart
ReadNotification(app, mt) ==
    [app EXCEPT !.mails = @ \o [j \in DOMAIN mt |-> mt[j].addr]]

(* readStringReplacement as written: the result is reset to {}, the      *)
(* 'if' after the loop only sees the last <file> (NameError when there is *)
(* none), and the map replaces the inherited one.                         *)
ReplacementFails(rt) == rt = << >>
ReadStringReplacement(app, rt) ==
    LET last == rt[Len(rt)]
    IN  [app EXCEPT !.repl = [f \in ReplFiles |->
                                IF f = last.file THEN <<[var |-> last.var, val |-> last.val]>>
                                ELSE << >>]]

(* readDeploymentTag: the exceptions it can raise.                        *)
DeploymentFails(app, dt) ==
    \/ dt.backup # None /\ BackupFails(app, dt.backup)
    \/ dt.mails # None /\ NotificationFails(dt.mails)
    \/ dt.repl # None /\ ReplacementFails(dt.repl)
    \/ dt.sign /\ app.signer

(* readDeploymentTag: installLocation, (the tree,) backupPolicy,          *)
(* notification, replaceString and signJars, each only when present.     *)
ReadDeployment(app, dt) ==
    LET a1 == IF dt.location THEN [app EXCEPT !.location = TRUE] ELSE app
        a2 == IF dt.backup # None THEN ReadBackupInformation(a1, dt.backup) ELSE a1
        a3 == IF dt.mails # None THEN ReadNotification(a2, dt.mails) ELSE a2
        a4 == IF dt.repl # None THEN ReadStringReplacement(a3, dt.repl) ELSE a3
    IN  IF dt.sign THEN [a4 EXCEPT !.signer = TRUE] ELSE a4

-----------------------------------------------------------------------------
VARIABLES
    desc,        \* the descriptor being resolved (and the -a option)
    pc,          \* where getApplicationsFromConfig is
    queue,       \* <application> tags still to read: [tag, global]
    tag,         \* the <application> tag being read
    global,      \* whether it is the global (default) application tag
    stags,       \* its <startscript> tags not yet read
    cur,         \* newApp of readNormalApplicationTag
    defaultApp,  \* the application read from the global tag, or NoApp
    product      \* Product.__applications: [AppKeys -> App or NoApp]

vars == <<desc, pc, queue, tag, global, stags, cur, defaultApp, product>>

Steps == {"start", "begin", "scripts", "finish", "removeDefault", "prune", "done", "failed"}

Scripts == [proc : ScriptKeys, env : [EnvKeys -> Vals \cup {None}]]
Apps == [name : AppKeys, dir : AppKeys \cup {"location"},
         scripts : [ScriptKeys -> Scripts \cup {NoScript}],
         location : BOOLEAN, keep : 0..5, preserve : Seq(PreserveNames),
         mails : Seq(Addrs), repl : [ReplFiles -> Seq([var : ReplVars, val : Vals])],
         signer : BOOLEAN]

(* Besides the types: applications are keyed by their name and scripts   *)
(* by their process name.                                                 *)
TypeOK ==
    /\ pc \in Steps
    /\ queue \in Seq([tag : Range(desc.apps), global : BOOLEAN])
    /\ global \in BOOLEAN
    /\ stags \in Seq(UNION {Range(t.scripts) : t \in Range(desc.apps)})
    /\ cur \in Apps \cup {NoApp}
    /\ defaultApp \in Apps \cup {NoApp}
    /\ product \in [AppKeys -> Apps \cup {NoApp}]
    /\ \A a \in AppsIn(product) :
          /\ product[a].name = a
          /\ \A k \in ScriptsOf(product[a]) : product[a].scripts[k].proc = k

Init ==
    /\ desc \in Descriptors
    /\ pc = "start"
    /\ queue = << >>
    /\ tag = None
    /\ global = FALSE
    /\ stags = << >>
    /\ cur = NoApp
    /\ defaultApp = NoApp
    /\ product = [a \in AppKeys |-> NoApp]

(* getApplicationsFromConfig: the global tag is the unnamed <application>  *)
(* (more than one raises) or else the one named "default"; the others are *)
(* the named ones, "default" included only when -a names an application. *)
SelectApplicationTags ==
    /\ pc = "start"
    /\ LET unnamed == SelectSeq(desc.apps, LAMBDA t : t.name = None)
            globals == IF unnamed = << >>
                       THEN SelectSeq(desc.apps, LAMBDA t : t.name = "default")
                       ELSE unnamed
            others  == IF desc.requested # None
                       THEN SelectSeq(desc.apps, LAMBDA t : t.name # None)
                       ELSE SelectSeq(desc.apps, LAMBDA t : t.name \notin {None, "default"})
            Mark(sq, g) == [j \in DOMAIN sq |-> [tag |-> sq[j], global |-> g]]
        IN  IF Len(unnamed) > 1
            THEN pc' = "failed" /\ UNCHANGED queue
            ELSE /\ queue' = Mark(globals, TRUE) \o Mark(others, FALSE)
                 /\ pc' = "begin"
    /\ UNCHANGED <<desc, tag, global, stags, cur, defaultApp, product>>

(* readNormalApplicationTag, first part: newApp is a copy of the default  *)
(* application when there is one to inherit from, else a new one.        *)
BeginApplication ==
    /\ pc = "begin"
    /\ queue # << >>
    /\ LET e == Head(queue)
        IN  /\ tag' = e.tag
            /\ global' = e.global
            /\ cur' = IF e.global \/ defaultApp = NoApp
                      THEN NewApplication(Name(e.tag))
                      ELSE CopyApplication(defaultApp, Name(e.tag))
            /\ stags' = e.tag.scripts
    /\ queue' = Tail(queue)
    /\ pc' = "scripts"
    /\ UNCHANGED <<desc, defaultApp, product>>

(* Bug variant: the script is keyed by its tag's name, not by its final  *)
(* process name.                                                          *)
ReadStartScriptTagByTagName ==
    /\ pc = "scripts"
    /\ stags # << >>
    /\ LET s      == Head(stags)
            sname  == IF cur.scripts[s.name] = NoScript THEN None ELSE s.name
            script == ReadJavaStartScript(s, cur.scripts[sname])
            final  == IF cur.name # "default" /\ script.proc \in {None, "default"}
                      THEN [script EXCEPT !.proc = cur.name] ELSE script
        IN  cur' = [cur EXCEPT !.scripts[IF s.name = None THEN final.proc ELSE s.name] = final]
    /\ stags' = Tail(stags)
    /\ UNCHANGED <<desc, pc, queue, tag, global, defaultApp, product>>

(* One iteration of the <startscript> loop: inherit from the script of    *)
(* the same name, else from the unnamed one; read the tag over a copy of *)
(* it; in a named application an unnamed or "default" script takes the   *)
(* application's name; addStartScript keys it by process name.           *)
ReadStartScriptTag ==
    /\ pc = "scripts"
    /\ stags # << >>
    /\ LET s      == Head(stags)
            sname  == IF cur.scripts[s.name] = NoScript THEN None ELSE s.name
            script == ReadJavaStartScript(s, cur.scripts[sname])
            final  == IF cur.name # "default" /\ script.proc \in {None, "default"}
                      THEN [script EXCEPT !.proc = cur.name] ELSE script
        IN  cur' = [cur EXCEPT !.scripts[final.proc] = final]
    /\ stags' = Tail(stags)
    /\ UNCHANGED <<desc, pc, queue, tag, global, defaultApp, product>>

(* readNormalApplicationTag: the <deployment> tag, if any.               *)
ReadDeploymentTag ==
    /\ pc = "scripts"
    /\ stags = << >>
    /\ IF tag.deploy # None /\ DeploymentFails(cur, tag.deploy)
       THEN pc' = "failed" /\ UNCHANGED cur
       ELSE /\ cur' = IF tag.deploy = None THEN cur ELSE ReadDeployment(cur, tag.deploy)
            /\ pc' = "finish"
    /\ UNCHANGED <<desc, queue, tag, global, stags, defaultApp, product>>

(* End of readNormalApplicationTag (a named application drops the script  *)
(* without process name) and the caller's loop: the global application   *)
(* becomes defaultApp; a named one takes its installLocation; both are   *)
(* added to the product under their name.                                *)
FinishApplication ==
    /\ pc = "finish"
    /\ LET pruned == IF cur.name # "default"
                     THEN [cur EXCEPT !.scripts[None] = NoScript] ELSE cur
            app    == IF ~global /\ pruned.location THEN [pruned EXCEPT !.dir = "location"]
                      ELSE pruned
        IN  /\ defaultApp' = IF global THEN app ELSE defaultApp
            /\ product' = [product EXCEPT ![app.name] = app]
    /\ pc' = IF queue = << >> THEN "removeDefault" ELSE "begin"
    /\ UNCHANGED <<desc, queue, tag, global, stags, cur>>

(* Bug variant: 'default' counted twice (more than two applications).    *)
RemoveDefaultApplicationOffByOne ==
    /\ pc = "removeDefault"
    /\ IF product["default"] # NoApp
       THEN IF Cardinality(AppsIn(product)) > 2
            THEN product' = [product EXCEPT !["default"] = NoApp] /\ pc' = "prune"
            ELSE pc' = "failed" /\ UNCHANGED product
       ELSE pc' = "prune" /\ UNCHANGED product
    /\ UNCHANGED <<desc, queue, tag, global, stags, cur, defaultApp>>

(* The 'default' application is removed when there are others; when it   *)
(* is the only one, resolution raises.                                    *)
RemoveDefaultApplication ==
    /\ pc = "removeDefault"
    /\ IF product["default"] # NoApp
       THEN IF Cardinality(AppsIn(product)) # 1
            THEN product' = [product EXCEPT !["default"] = NoApp] /\ pc' = "prune"
            ELSE pc' = "failed" /\ UNCHANGED product
       ELSE pc' = "prune" /\ UNCHANGED product
    /\ UNCHANGED <<desc, queue, tag, global, stags, cur, defaultApp>>

(* Every application with other than exactly one start script loses the  *)
(* script named 'default'.                                                *)
PruneDefaultScripts ==
    /\ pc = "prune"
    /\ product' = [a \in AppKeys |->
                     IF product[a] # NoApp /\ Cardinality(ScriptsOf(product[a])) # 1
                     THEN [product[a] EXCEPT !.scripts["default"] = NoScript]
                     ELSE product[a]]
    /\ pc' = "done"
    /\ UNCHANGED <<desc, queue, tag, global, stags, cur, defaultApp>>

Next ==
    \/ SelectApplicationTags \/ BeginApplication \/ ReadStartScriptTag
    \/ ReadDeploymentTag \/ FinishApplication
    \/ RemoveDefaultApplication \/ PruneDefaultScripts

Spec == Init /\ [][Next]_vars

-----------------------------------------------------------------------------
(***************************************************************************)
(* Properties.  They speak of the descriptor through the following        *)
(* operators, which read the tags directly, as the spec does.             *)
(***************************************************************************)
Tags         == Range(desc.apps)
NamedApps    == {t.name : t \in Tags} \ {None, "default"}
TagOf(a)     == CHOOSE t \in Tags : t.name = a
GlobalTags   == IF \E t \in Tags : t.name = None
                THEN {t \in Tags : t.name = None} ELSE {t \in Tags : t.name = "default"}
GlobalScript == IF \E t \in GlobalTags : t.scripts # << >>
                THEN (CHOOSE t \in GlobalTags : t.scripts # << >>).scripts[1] ELSE None

(* Spec 7: the ConfigErrors of a descriptor.                             *)
SpecValid ==
    /\ Cardinality({j \in DOMAIN desc.apps : desc.apps[j].name = None}) <= 1
    /\ NamedApps # {}
    /\ \A t \in Tags : t.deploy # None /\ t.deploy.backup # None =>
                          t.deploy.backup.keep \in 0..5 \cup {None}

(* Resolution fails only on a descriptor the spec calls invalid: more    *)
(* than one unnamed application, no application besides "default", or a  *)
(* keepBackups outside 0..5 (getApplicationsFromConfig, readBackupInformation). *)
ResolvesValidDescriptors == pc = "failed" => ~SpecValid

(* Application inheritance (spec 4.2 and 8): once resolved, the product  *)
(* holds exactly the named applications, and each one's start scripts    *)
(* are the default application's named script and its own script, whose  *)
(* environment is its own <env> values over those of the script it       *)
(* inherits (the default one of the same name, else the unnamed one).    *)
(* Stated for descriptors with at most one <startscript> per application. *)
ScriptsInherited ==
    pc = "done" =>
      /\ AppsIn(product) = NamedApps
      /\ \A a \in NamedApps :
           LET c    == IF TagOf(a).scripts = << >> THEN None ELSE TagOf(a).scripts[1]
               d    == GlobalScript
               keyC == IF c = None THEN None
                       ELSE IF c.name \in {None, "default"} THEN a ELSE c.name
               keyD == IF d = None THEN None ELSE d.name
               parent(k) == IF d # None /\ (d.name = None \/ d.name = c.name)
                            THEN d.env[k] ELSE None
           IN  /\ ScriptsOf(product[a]) = ({keyC, keyD} \ {None})
               /\ keyC # None =>
                    product[a].scripts[keyC].env =
                      [k \in EnvKeys |-> IF c.env[k] # None THEN c.env[k] ELSE parent(k)]
               /\ keyD \notin {None, keyC} => product[a].scripts[keyD].env = d.env

(* Install directory (spec 3): an application without installLocation   *)
(* is installed in /opt/<product>/<its own name>.                        *)
InstallDirIsOwn ==
    pc = "done" => \A a \in AppsIn(product) :
                      ~product[a].location => product[a].dir = a

(* Backup policy inheritance (spec 3 and 4.2): a child <backupPolicy>    *)
(* that does not change keepBackups extends the inherited preserve list. *)
PreserveEntriesInherited ==
    pc = "done" => \A a \in AppsIn(product), g \in GlobalTags :
      LET bt == TagOf(a).deploy.backup
          gb == g.deploy.backup
      IN  (TagOf(a).deploy # None /\ bt # None /\ bt.keep = None
           /\ g.deploy # None /\ gb # None)
            => Range(gb.preserve) \subseteq Range(product[a].preserve)

(* String replacements (spec 4.2 and 4.6): an application has every      *)
(* replacement of the default application and every one it declares.     *)
ReplacementsExtended ==
    pc = "done" => \A a \in AppsIn(product) :
      \A t \in GlobalTags \cup {TagOf(a)} :
        t.deploy # None /\ t.deploy.repl # None =>
          \A j \in DOMAIN t.deploy.repl :
            LET r == t.deploy.repl[j]
            IN  [var |-> r.var, val |-> r.val] \in Range(product[a].repl[r.file])

(* extends (spec 4.2): an application extending another named one and    *)
(* declaring no <deployment> has that application's backup policy.       *)
ExtendsHonoured ==
    pc = "done" => \A a \in AppsIn(product) :
      LET x == TagOf(a).extends
      IN  (x \in AppsIn(product) /\ TagOf(a).deploy = None)
            => product[a].keep = product[x].keep

(* Start-script pruning (spec 4.2): no resolved application keeps a      *)
(* script whose process name is None or "default".                       *)
DefaultScriptsPruned ==
    pc = "done" => \A a \in AppsIn(product) : ScriptsOf(product[a]) \cap {None, "default"} = {}

=============================================================================
