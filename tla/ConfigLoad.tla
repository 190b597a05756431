------------------------------ MODULE ConfigLoad ------------------------------
(***************************************************************************)
(* Start-up: the configuration file is read section by section and the     *)
(* modules are made.  Source: cfg.cpp.                                     *)
(*                                                                         *)
(* A section is chosen when it is read.  A setting that is missing or      *)
(* wrong ends the program (error_exit), here "exit"; a section that may be *)
(* left out is skipped.                                                    *)
(***************************************************************************)
EXTENDS Integers, Sequences, FiniteSets

CONSTANTS
    ConfigNames,     \* the names of the instances in the file, in that order
    MaxConfigured    \* bound: modules next to the sources (the code: no limit)

\* Double names are logged only; here there are none, nor is an instance called
\* what stands for "<id> to <new id>" or for no name at all.
ASSUME ConfigAssumption ==
    /\ ConfigNames \in Seq(STRING) /\ MaxConfigured \in Nat
    /\ \A i, j \in DOMAIN ConfigNames : ConfigNames[i] = ConfigNames[j] => i = j
    /\ \A i \in DOMAIN ConfigNames : ConfigNames[i] \notin {"new", "nobody"}

VARIABLE load    \* load_configuration() and what it made

configVars == <<load>>

\* A module: made is its place in the order in which the modules are made, refers
\* the modules (by made) that it keeps a pointer to, asked the instance that its
\* "motion-source" names.
ConfigModule(kind, made, refers, asked) ==
    [kind |-> kind, made |-> made, refers |-> refers, asked |-> asked]

NoInstance == [name |-> "none", modules |-> {}]
Nobody == "nobody"

ConfigInit ==
    load = [at |-> "root", locked |-> FALSE, section |-> 0, made |-> 0,
            instances |-> <<>>,       \* cfg->instances
            current |-> NoInstance,   \* ci, or the views
            inner |-> {},             \* targets of motion triggers
            global |-> {}]            \* global servers, GUIs, announcers

LoadedInstances == {load.instances[i] : i \in DOMAIN load.instances}
LoadedModules == UNION {inst.modules : inst \in LoadedInstances}

FindInstanceAtOnce(name) == {inst \in LoadedInstances \cup {load.current} : inst.name = name}

\* What a section can find: the instances of that name that were read before.
FindInstance(name) == {inst \in LoadedInstances : inst.name = name}

Sources(modules) == {m \in modules : m.kind = "source"}
TheSource == CHOOSE m \in Sources(load.current.modules) : TRUE
Made(m) == [load EXCEPT !.made = m.made, !.current.modules = @ \cup {m}]

Room(n) == load.made + n <= MaxConfigured + load.section

\* A module of the current instance that refers to its source.
OwnModule(kind) == ConfigModule(kind, load.made + 1, {TheSource.made}, Nobody)

-----------------------------------------------------------------------------
(* The file, and the settings that are not of an instance.                 *)

\* A file that cannot be read, a resizer that is not known: false is returned,
\* and the configuration stays locked.  Failure handling, feeds, the database
\* and the cleaner follow.
LoadRoot ==
    /\ load.at = "root"
    /\ \E result \in {"instance", "refused", "exit"} :
          load' = [load EXCEPT !.at = result, !.locked = TRUE]

-----------------------------------------------------------------------------
(* An instance.                                                            *)

\* A source of its own, or one that shows another one: that must be there.
LoadSource ==
    /\ load.at = "instance" /\ load.section < Len(ConfigNames)
    /\ \/ \E result \in {"refused", "exit"} : load' = [load EXCEPT !.at = result]
       \/ \E refers \in {{}} \cup {{m.made} : m \in LoadedModules} :
             LET s == ConfigModule("source", load.made + 1, refers, Nobody)
             IN load' = [load EXCEPT !.at = "http", !.made = s.made, !.section = @ + 1,
                            !.current = [name |-> ConfigNames[load.section + 1],
                                         modules |-> {s}]]

LoadHttp ==
    /\ load.at = "http"
    /\ \/ load' = [load EXCEPT !.at = "loopback"]
       \/ Room(1) /\ load' = [Made(OwnModule("http")) EXCEPT !.at = "loopback"]

LoadLoopback ==
    /\ load.at = "loopback"
    /\ \/ load' = [load EXCEPT !.at = "trigger"]
       \/ Room(1) /\ load' = [Made(OwnModule("loopback")) EXCEPT !.at = "trigger"]

\* A target that is a new source puts an instance with that source in the list,
\* at once: before the instance the target belongs to.
NewSourceInstance(t) ==
    [name |-> "new", modules |-> {ConfigModule("source", t.made + 1, {t.made}, Nobody)}]

WithNewSource(l, t) ==
    [l EXCEPT !.instances = Append(@, NewSourceInstance(t)), !.made = t.made + 1]

\* The targets of a trigger belong to the trigger, not to the list.
LoadTriggerTarget ==
    /\ load.at = "trigger"
    /\ LET t == OwnModule("target")
           l == [load EXCEPT !.at = "motion", !.made = t.made, !.inner = @ \cup {t}]
       IN \/ Room(1) /\ load' = [load EXCEPT !.at = "motion"]
          \/ Room(2) /\ load' = l
          \/ Room(3) /\ load' = WithNewSource(l, t)

\* "motion-source" is the name of an instance, or empty.  When there is no such
\* instance yet, the trigger monitors its own source.
LoadTrigger ==
    /\ load.at = "motion" /\ Room(1)
    /\ \E name \in {ConfigNames[i] : i \in DOMAIN ConfigNames} \cup {Nobody} :
          LET found  == FindInstance(name)
              refers == {s.made : s \in UNION {Sources(inst.modules) : inst \in found}}
              m == ConfigModule(IF found = {} THEN "generic" ELSE "linked",
                                load.made + 1, {TheSource.made} \cup refers, name)
          IN load' = [Made(m) EXCEPT !.at = "audio"]

NoTrigger ==
    /\ load.at = "trigger"
    /\ load' = [load EXCEPT !.at = "audio"]

LoadAudio ==
    /\ load.at = "audio"
    /\ \/ load' = [load EXCEPT !.at = "targets"]
       \/ Room(1) /\ load' = [Made(OwnModule("audio")) EXCEPT !.at = "targets"]

LoadTarget ==
    /\ load.at = "targets"
    /\ LET t == OwnModule("target")
           l == [Made(t) EXCEPT !.at = "end"]
       IN \/ load' = [load EXCEPT !.at = "end"]
          \/ Room(1) /\ load' = l
          \/ Room(2) /\ load' = WithNewSource(l, t)

LoadInstanceEnd ==
    /\ load.at = "end"
    /\ load' = [load EXCEPT !.at = "instance", !.current = NoInstance,
                            !.instances = Append(@, load.current)]

-----------------------------------------------------------------------------
(* What needs the instances.                                               *)

NoViews ==
    /\ load.at = "instance" /\ load.section = Len(ConfigNames)
    /\ load' = [load EXCEPT !.at = "global"]

LoadViews ==
    /\ load.at = "instance" /\ load.section = Len(ConfigNames)
    /\ load' = [load EXCEPT !.at = "view", !.current = [name |-> "views", modules |-> {}]]

\* A html view returns no vector of targets; it is walked through all the same.
HtmlView ==
    /\ load.at = "view"
    /\ load' = [load EXCEPT !.at = "null pointer"]

\* The sources of another view are looked up when it runs.  Its targets, and a
\* loopback, are modules of the views.
OtherView ==
    /\ load.at = "view"
    /\ LET v == ConfigModule("view", load.made + 1, {}, Nobody)
           t == ConfigModule("target", load.made + 2, {v.made}, Nobody)
           one  == {v}
           both == {v, t}
       IN \E modules \in {one, both} :
             load' = [load EXCEPT !.at = "views end", !.made = @ + Cardinality(modules),
                                  !.current.modules = @ \cup modules]

ViewsEnd ==
    /\ load.at = "views end"
    /\ load' = [load EXCEPT !.at = "global", !.current = NoInstance,
                            !.instances = Append(@, load.current)]

\* Global HTTP servers and announcers refer to nothing; a GUI needs its source.
LoadGlobal ==
    /\ load.at = "global"
    /\ \/ load' = [load EXCEPT !.at = "check"]
       \/ load' = [load EXCEPT !.at = "exit"]
       \/ \E refers \in {{}} \cup {{m.made} : m \in LoadedModules} :
             load' = [load EXCEPT !.at = "check", !.made = @ + 1,
                         !.global = @ \cup {ConfigModule("global", load.made + 1, refers,
                                                         Nobody)}]

\* Double names are logged.
LoadReady ==
    /\ load.at = "check"
    /\ load' = [load EXCEPT !.at = "loaded", !.locked = FALSE]

-----------------------------------------------------------------------------
ConfigNext ==
    \/ LoadRoot \/ LoadSource \/ LoadHttp \/ LoadLoopback \/ LoadTriggerTarget \/ LoadTrigger
    \/ NoTrigger \/ LoadAudio \/ LoadTarget \/ LoadInstanceEnd
    \/ NoViews \/ LoadViews \/ HtmlView \/ OtherView \/ ViewsEnd \/ LoadGlobal \/ LoadReady

ConfigSpec == ConfigInit /\ [][ConfigNext]_configVars

AllModules == LoadedModules \cup load.current.modules \cup load.inner \cup load.global

\* What the program can hold on to: a module refers to modules that were made
\* before it, so that no two triggers follow each other; a trigger follows
\* another instance than its own; nothing is in two lists.
ConfigOrder ==
    /\ \A m \in AllModules : \A r \in m.refers :
          r < m.made /\ \E n \in AllModules : n.made = r
    /\ \A m, n \in AllModules : m.made = n.made => m = n
    /\ \A i, j \in DOMAIN load.instances :
          /\ i # j => load.instances[i].modules \cap load.instances[j].modules = {}
          /\ \A m \in load.instances[i].modules :
                m.kind = "linked" => m.asked # load.instances[i].name
    /\ \A i \in DOMAIN load.instances :
          load.instances[i].modules \cap (load.inner \cup load.global) = {}

\* constatus.cfg:947-950: a view of a html type (which has no targets) can be
\* configured.
HtmlViewsLoad == load.at # "null pointer"
=============================================================================
