----------------------------- MODULE JvmMemory -----------------------------
(***************************************************************************)
(* The JVM memory settings of a Java start script (config.py).             *)
(* readJvmMemorySettings checks the text of <initial-heap-size> and       *)
(* <max-heap-size> with two regular expressions and turns it into -Xms /  *)
(* -Xmx flags; readJavaStartScript sets them on the script, which is a    *)
(* fresh JavaStartScript or a copy of the script it inherits from.        *)
(*                                                                         *)
(* The model follows one script through the two readings the resolver     *)
(* performs: the default application's <startscript>, then the same      *)
(* script in an inheriting application (getCopy of the first).  A tag's   *)
(* text is a sequence of one-character strings; a flag is a pair of the  *)
(* flag's name and that text.                                             *)
(***************************************************************************)
EXTENDS Naturals, Sequences

CONSTANTS
    Digits,    \* the characters \d matches
    Values,    \* texts a heap-size tag may hold
    None       \* no such tag

Tags == Values \cup {None}

VARIABLES
    heap,       \* [app |-> [init, max]]: the tags of each <startscript>
    parentMem,  \* the flags of the default application's script
    childMem,   \* the flags of the inheriting application's script
    status      \* "parent", "child" (reading), "done" or "failed" (raised)

vars == <<heap, parentMem, childMem, status>>

Apps == {"parent", "child"}

(* re.match(p, s): p must match a prefix of s.  For "\d{1,k}[...]" that  *)
(* is some run of 1..k digits followed by one character of the class.     *)
REMatch(s, k, class) ==
    \E n \in 1..k : n < Len(s) /\ (\A i \in 1..n : s[i] \in Digits) /\ s[n + 1] \in class

(* not re.match("\d{1,4}[M|m]", v) and not re.match("\d{1,2}[G|g]", v)   *)
(* raises; the "|" in a character class is a character of the class.      *)
HeapValueValid(s) ==
    REMatch(s, 4, {"M", "|", "m"}) \/ REMatch(s, 2, {"G", "|", "g"})

(* readJvmMemorySettings raises when a given tag fails the check.        *)
MemoryFails(t) ==
    \E v \in {t.init, t.max} : v # None /\ ~HeapValueValid(v)

(* readJvmMemorySettings: "-Xms" + init, then " -Xmx" + max, each when    *)
(* the tag is there; "" when neither is.                                  *)
ReadJvmMemorySettings(t) ==
    (IF t.init # None THEN << <<"Xms", t.init>> >> ELSE << >>)
      \o (IF t.max # None THEN << <<"Xmx", t.max>> >> ELSE << >>)

ReadScriptAppended(mem0, t) == mem0 \o ReadJvmMemorySettings(t)

(* readJavaStartScript: the script starts as mem0 (the copy of the       *)
(* inherited script, or a fresh one with ''); setJvmMemArgs is called    *)
(* only when readJvmMemorySettings returned something.                   *)
ReadScript(mem0, t) ==
    LET mem == ReadJvmMemorySettings(t)
    IN  IF mem # << >> THEN mem ELSE mem0

Init ==
    /\ heap \in [Apps -> [init : Tags, max : Tags]]
    /\ parentMem = << >>
    /\ childMem = << >>
    /\ status = "parent"

(* The default application's script: a fresh JavaStartScript.            *)
ReadParent ==
    /\ status = "parent"
    /\ \/ /\ MemoryFails(heap["parent"])
          /\ status' = "failed" /\ UNCHANGED parentMem
       \/ /\ ~MemoryFails(heap["parent"])
          /\ parentMem' = ReadScript(<< >>, heap["parent"])
          /\ status' = "child"
    /\ UNCHANGED <<heap, childMem>>

(* The inheriting application's script: inherit.getCopy(), then its tags. *)
ReadChild ==
    /\ status = "child"
    /\ \/ /\ MemoryFails(heap["child"])
          /\ status' = "failed" /\ UNCHANGED childMem
       \/ /\ ~MemoryFails(heap["child"])
          /\ childMem' = ReadScript(parentMem, heap["child"])
          /\ status' = "done"
    /\ UNCHANGED <<heap, parentMem>>

Next == ReadParent \/ ReadChild

Spec == Init /\ [][Next]_vars

-----------------------------------------------------------------------------
(* The heap-size rule of spec 4.2: digits followed by M or G, either case. *)
SpecValid(s) ==
    /\ Len(s) >= 2
    /\ \A i \in 1..Len(s) - 1 : s[i] \in Digits
    /\ s[Len(s)] \in {"M", "m", "G", "g"}

Declared(t) == {v \in {t.init, t.max} : v # None}

Flags == {<<f, v>> : f \in {"Xms", "Xmx"}, v \in Values}

TypeOK ==
    /\ parentMem \in Seq(Flags) /\ Len(parentMem) <= 2
    /\ childMem \in Seq(Flags) /\ Len(childMem) <= 2
    /\ status \in {"parent", "child", "done", "failed"}

(* The tag each flag is read from.                                        *)
FlagTag == [Xms |-> "init", Xmx |-> "max"]

MemoryMergedPerTag ==
    status = "done" =>
        \A f \in DOMAIN FlagTag :
            (heap["child"][FlagTag[f]] = None /\ heap["parent"][FlagTag[f]] # None) =>
                \E i \in 1..Len(childMem) : childMem[i] = <<f, heap["parent"][FlagTag[f]]>>

(* Heap-size pattern (no run checks it, see README section 3).             *)
(* Spec 4.2: "Heap-size values must match pattern digits + {M,G} (case-    *)
(* insensitive); otherwise fails with ConfigError" - the two readings    *)
(* succeed exactly when every declared heap size has that form.           *)
HeapSizeAsSpecified ==
    /\ status = "done" => \A a \in Apps : \A v \in Declared(heap[a]) : SpecValid(v)
    /\ status = "failed" => \E a \in Apps : \E v \in Declared(heap[a]) : ~SpecValid(v)

=============================================================================
