--------------------------- MODULE MC_Resolver ---------------------------
(* Descriptor families for Resolver.  Names: applications "web" and "daq", *)
(* one explicit script name "srv", two env keys, two values.  Each family *)
(* enumerates every combination of the tags below.                       *)
EXTENDS Resolver

Script(n, e)   == [name |-> n, env |-> e]
MCEnvs         == {[FOO |-> "1", BAR |-> None], [FOO |-> None, BAR |-> "2"],
                   [FOO |-> "2", BAR |-> "2"]}
Backup(k, p)   == [keep |-> k, preserve |-> p]
Deploy(loc, b, m, r, s) == [location |-> loc, backup |-> b, mails |-> m, repl |-> r, sign |-> s]
App(n, x, ss, d) == [name |-> n, extends |-> x, scripts |-> ss, deploy |-> d]
Desc(apps, r)  == [apps |-> apps, requested |-> r]

ScriptSeqs(names) == {<< >>} \cup {<<Script(n, e)>> : n \in names, e \in MCEnvs}

(* The default application: unnamed or named "default", at most one      *)
(* start script (unnamed or "srv"), with or without a valid deployment.   *)
DefaultDeploy == Deploy(FALSE, Backup(2, <<"conf">>), <<[addr |-> "ops", restart |-> FALSE]>>,
                        <<[file |-> "cfg", var |-> "HOST", val |-> "1"]>>, FALSE)
DefaultTags == {App(n, None, ss, d) : n \in {None, "default"},
                                      ss \in ScriptSeqs({None, "srv"}),
                                      d \in {None, DefaultDeploy}}

(* "web": at most one start script (unnamed, "srv" or "default"), no      *)
(* deployment, one with an installLocation and a backupPolicy without     *)
(* keepBackups, or one with keepBackups=6 (a ConfigError).                *)
WebDeploys == {None,
               Deploy(TRUE, Backup(None, <<"data">>), None, None, TRUE),
               Deploy(FALSE, Backup(6, << >>), None, None, FALSE)}
WebTags == {App("web", None, ss, d) : ss \in ScriptSeqs({None, "srv", "default"}),
                                      d \in WebDeploys}
DaqTag == App("daq", None, <<Script(None, [FOO |-> "2", BAR |-> None])>>, None)

MCPassDescriptors ==
    {Desc(apps, r) :
        apps \in {<<g, w>> : g \in DefaultTags, w \in WebTags}
                 \cup {<<w, g>> : g \in DefaultTags, w \in WebTags}
                 \cup {<<g, w, DaqTag>> : g \in DefaultTags, w \in WebTags}
                 \cup {<<w>> : w \in WebTags}
                 \cup {<<g>> : g \in DefaultTags}
                 \cup {<<App(None, None, << >>, None), App(None, None, << >>, None), w>> :
                         w \in WebTags},
        r \in {None, "web"}}

=============================================================================
