------------------------------ MODULE Lifecycle ------------------------------
(***************************************************************************)
(* The life of one module ("interface") of constatus: the thread that runs *)
(* its operator()(), the reference count of its users, the pause gate, the *)
(* stop flag, and everybody who drives them concurrently: main() at start- *)
(* up and termination, the watchdog of a source, the threads that use the  *)
(* module (stream viewers, triggers, targets) and the HTTP/REST control    *)
(* threads.  Source: interface.cpp, source.cpp (watchdog), main.cpp,       *)
(* http_server_rest.cpp, http_server_support.cpp, http_server.cpp.         *)
(*                                                                         *)
(* The build defines NDEBUG (CMakeLists.txt selects RelWithDebInfo), hence *)
(* the assert()s of interface.cpp do nothing and are not part of a step.   *)
(***************************************************************************)
EXTENDS Integers, FiniteSets

CONSTANTS
    Main,            \* the thread of main()
    Watchdog,        \* the watchdog thread of a source
    Viewers,         \* threads that use the module between start() and stop()
    Controllers,     \* HTTP/REST threads that serve control commands
    Workers,         \* thread objects that can run operator()()
    None,            \* null pointer, mutex without owner
    OnDemandChoices, \* initial values of on_demand of a source ("on-demand" setting)
    Kinds,           \* the kinds of module considered, a subset of AllKinds
    Commands,        \* the control commands that are served
    MaxUsers         \* bound on |user_count| below which commands are served

Threads == {Main, Watchdog} \cup Viewers \cup Controllers

AllCommands == {"start", "stop", "toggle", "cycle", "list",
                "pause", "unpause", "togglepause"}

\* The loop of a source does not call pauseCheck(); a source can have a
\* watchdog ("watched"); the destructors of some sources (source_delay,
\* source_pipewire, source_static, source_black) do not call stop()
\* ("unstopped").  The loops of triggers, targets and guis do call pauseCheck().
AllKinds == {"source", "watched", "unstopped", "pausable"}

ASSUME ThreadsAssumption ==
    /\ Main # Watchdog
    /\ {Main, Watchdog} \cap (Viewers \cup Controllers) = {}
    /\ Viewers \cap Controllers = {}
    /\ None \notin Threads
    /\ None \notin Workers

ASSUME ConfigAssumption ==
    /\ OnDemandChoices \subseteq BOOLEAN
    /\ Kinds \subseteq AllKinds
    /\ Commands \subseteq AllCommands
    /\ MaxUsers \in Nat

VARIABLES
    kind,             \* which kind of module this is: never changes
    th,               \* the worker the module points to, or None
    th_lock,          \* the thread that holds th_lock across a join, or None
    user_count,
    on_demand,
    running,
    local_stop_flag,
    error,            \* an error is registered
    paused,
    pause_lock,       \* "free", or held by a "worker" or by a "pause" request
    cfg_lock,         \* the owner of cfg->lock, or None
    wpc,              \* where each worker is in operator()()
    at,               \* where each thread is in its own code
    call,             \* the interface method a thread is executing
    saved             \* old_user_count of restart()

config == <<kind, on_demand>>
module == <<th, th_lock, user_count, running, saved>>
gates  == <<paused, pause_lock>>
vars   == <<kind, th, th_lock, user_count, on_demand, running, local_stop_flag, error,
            paused, pause_lock, cfg_lock, wpc, at, call, saved>>

WorkerStates == {"free", "loop", "gate", "held", "work", "ending", "ended"}
MainStates   == {"startup", "run", "lock", "announce", "stop", "drain",
                 "delete", "done"}
ThreadStates == MainStates
    \cup {"init", "loop", "test", "probe", "restart", "relock", "final", "ended"}
    \cup {"out", "in"}
    \cup AllCommands
    \cup {"idle", "trylock", "setpaused", "unpausing", "unlock", "stopped", "reply"}

PauseChecks == kind = "pausable"

Init ==
    /\ kind \in Kinds
    /\ th = None
    /\ th_lock = None
    /\ user_count = 0
    /\ on_demand \in IF kind = "pausable" THEN {FALSE} ELSE OnDemandChoices
    /\ running = FALSE
    /\ local_stop_flag = FALSE
    /\ error = FALSE
    /\ paused = FALSE
    /\ pause_lock = "free"
    /\ cfg_lock = None
    /\ wpc = [w \in Workers |-> "free"]
    /\ at = [t \in Threads |-> CASE t = Main -> "startup"
                                 [] t = Watchdog -> IF kind \in {"watched", "unstopped"} THEN "init" ELSE "ended"
                                 [] t \in Viewers -> "out"
                                 [] OTHER -> "idle"]
    /\ call = [t \in Threads |-> "none"]
    /\ saved = 0

-----------------------------------------------------------------------------
(* The methods of class interface.  A method runs under th_lock; as only a *)
(* join keeps th_lock over several steps, a call without a join is a step. *)

Invoke(t, method) == call' = [call EXCEPT ![t] = method]
Return(t)         == call' = [call EXCEPT ![t] = "none"]
Goto(t, place)    == at' = [at EXCEPT ![t] = place]

\* start(): the first user clears the stop flag and creates the thread,
\* unless one "was already started?".
StartWith(t, clears) ==
    /\ call[t] = "start"
    /\ user_count' = user_count + 1
    /\ local_stop_flag' = (local_stop_flag /\ ~clears)
    /\ error' = (error /\ ~clears)
    /\ IF user_count = 0 /\ th = None
       THEN \E w \in Workers : /\ wpc[w] = "free"
                              /\ wpc' = [wpc EXCEPT ![w] = "loop"]
                              /\ th' = w
                              /\ running' = TRUE
       ELSE UNCHANGED <<th, wpc, running>>
    /\ Return(t)
    /\ UNCHANGED <<th_lock, config, gates, cfg_lock, at, saved>>

\* Mutated forms of StartCall: th_lock is not taken; every start clears.
StartCallUnlocked(t)     == StartWith(t, user_count = 0)
StartCallAlwaysClears(t) == th_lock = None /\ StartWith(t, TRUE)

StartCall(t) == th_lock = None /\ StartWith(t, user_count = 0)

\* stop(): a module without thread "was already stopped!"; the last user of
\* an on-demand module tells the thread to stop and joins it under th_lock.
StopWith(t, ends) ==
    /\ call[t] = "stop"
    /\ th_lock = None
    /\ IF th = None
       THEN Return(t) /\ UNCHANGED <<user_count, th_lock, running, local_stop_flag>>
       ELSE /\ user_count' = user_count - 1
            /\ IF ends
               THEN /\ running' = FALSE
                    /\ local_stop_flag' = TRUE
                    /\ th_lock' = t
                    /\ UNCHANGED call
               ELSE Return(t) /\ UNCHANGED <<th_lock, running, local_stop_flag>>
    /\ UNCHANGED <<th, config, error, gates, cfg_lock, wpc, at, saved>>

\* Mutated forms of StopCall: on_demand, or the count, is not tested.
StopCallIgnoresOnDemand(t) == StopWith(t, user_count = 1)
StopCallIgnoresCount(t)    == StopWith(t, on_demand)

StopCall(t) == StopWith(t, user_count = 1 /\ on_demand)

\* Mutated form of StopJoined: the thread is detached instead of joined.
StopDetached(t) ==
    /\ call[t] = "stop"
    /\ th_lock = t
    /\ th' = None
    /\ th_lock' = None
    /\ Return(t)
    /\ UNCHANGED <<user_count, config, running, local_stop_flag, error, gates,
                   cfg_lock, wpc, at, saved>>

\* join_thread() of stop() returns: the handle is deleted, th_lock released.
StopJoined(t) ==
    /\ call[t] = "stop"
    /\ th_lock = t
    /\ wpc[th] = "ended"
    /\ wpc' = [wpc EXCEPT ![th] = "free"]
    /\ th' = None
    /\ th_lock' = None
    /\ Return(t)
    /\ UNCHANGED <<user_count, config, running, local_stop_flag, error, gates,
                   cfg_lock, at, saved>>

\* restart() up to its join.
RestartCall(t) ==
    /\ call[t] = "restart"
    /\ th_lock = None
    /\ \/ /\ th = None
          /\ Return(t)
          /\ UNCHANGED <<module, local_stop_flag>>
       \/ /\ th # None
          /\ saved' = user_count
          /\ user_count' = 0
          /\ running' = FALSE
          /\ local_stop_flag' = TRUE
          /\ th_lock' = t
          /\ UNCHANGED <<th, call>>
    /\ UNCHANGED <<config, error, gates, cfg_lock, wpc, at>>

\* restart() after its join: a new thread, and the old count again.
RestartWith(t, runs, count) ==
    /\ call[t] = "restart"
    /\ th_lock = t
    /\ wpc[th] = "ended"
    /\ \E w \in Workers : /\ wpc[w] = "free"
                          /\ wpc' = [wpc EXCEPT ![th] = "free", ![w] = "loop"]
                          /\ th' = w
    /\ local_stop_flag' = FALSE
    /\ error' = FALSE
    /\ running' = runs
    /\ user_count' = count
    /\ saved' = 0
    /\ th_lock' = None
    /\ Return(t)
    /\ UNCHANGED <<config, gates, cfg_lock, at>>

\* Mutated forms of RestartJoined: running, or the count, is not restored.
RestartJoinedNotRunning(t) == RestartWith(t, FALSE, saved)
RestartJoinedLosesCount(t) == RestartWith(t, TRUE, user_count)

RestartJoined(t) == RestartWith(t, TRUE, saved)

Call(t) == StartCall(t) \/ StopCall(t) \/ StopJoined(t)
             \/ RestartCall(t) \/ RestartJoined(t)

\* Mutated form of AnnounceStop: it only sets the stop flag.
AnnounceStopFlagOnly ==
    /\ local_stop_flag' = TRUE
    /\ UNCHANGED config

\* announce_stop(): takes no lock.
AnnounceStop ==
    /\ on_demand' = TRUE
    /\ local_stop_flag' = TRUE
    /\ UNCHANGED kind

-----------------------------------------------------------------------------
(* The thread of the module: the loop every operator()() has.              *)

WorkerMove(w, from, to) ==
    /\ wpc[w] = from
    /\ wpc' = [wpc EXCEPT ![w] = to]

\* for(;!local_stop_flag;), and the entry of pauseCheck().
WorkerLoop(w) ==
    /\ \/ local_stop_flag /\ WorkerMove(w, "loop", "ending")
       \/ ~local_stop_flag /\ WorkerMove(w, "loop", IF PauseChecks THEN "gate" ELSE "work")
    /\ UNCHANGED <<module, config, local_stop_flag, error, gates, cfg_lock, at, call>>

\* pauseCheck(): pause_lock.lock()
WorkerGate(w) ==
    /\ pause_lock = "free"
    /\ WorkerMove(w, "gate", "held")
    /\ pause_lock' = "worker"
    /\ UNCHANGED <<module, config, local_stop_flag, error, paused, cfg_lock, at, call>>

\* pauseCheck(): pause_lock.unlock()
WorkerGateLeave(w) ==
    /\ WorkerMove(w, "held", "work")
    /\ pause_lock' = "free"
    /\ UNCHANGED <<module, config, local_stop_flag, error, paused, cfg_lock, at, call>>

\* One round of work; it can register or clear an error, or end the loop by
\* itself (a camera that was resized, a device that cannot be opened).
WorkerWork(w) ==
    /\ WorkerMove(w, "work", "loop") \/ WorkerMove(w, "work", "ending")
    /\ error' \in BOOLEAN
    /\ UNCHANGED <<module, config, local_stop_flag, gates, cfg_lock, at, call>>

\* register_thread_end() and the return of operator()().
WorkerEnd(w) ==
    /\ WorkerMove(w, "ending", "ended")
    /\ error' = (error \/ ~local_stop_flag)
    /\ UNCHANGED <<module, config, local_stop_flag, gates, cfg_lock, at, call>>

Worker(w) == WorkerLoop(w) \/ WorkerGate(w) \/ WorkerGateLeave(w)
               \/ WorkerWork(w) \/ WorkerEnd(w)

-----------------------------------------------------------------------------
(* main(): start-up, waiting for a signal, and termination.                *)

Step(t, from, to) == at[t] = from /\ call[t] = "none" /\ Goto(t, to)

MainStartup ==
    /\ Step(Main, "startup", "run")
    /\ IF on_demand THEN UNCHANGED call ELSE Invoke(Main, "start")
    /\ UNCHANGED <<module, config, local_stop_flag, error, gates, cfg_lock, wpc>>

\* SIGTERM, SIGINT or enter.
MainTerminate ==
    /\ Step(Main, "run", "lock")
    /\ UNCHANGED <<module, config, local_stop_flag, error, gates, cfg_lock, wpc, call>>

\* cfg->lock.lock(): never released again.
MainLock ==
    /\ Step(Main, "lock", "announce")
    /\ cfg_lock = None
    /\ cfg_lock' = Main
    /\ UNCHANGED <<module, config, local_stop_flag, error, gates, wpc, call>>

MainAnnounce ==
    /\ Step(Main, "announce", "stop")
    /\ AnnounceStop
    /\ UNCHANGED <<module, error, gates, cfg_lock, wpc, call>>

MainStop ==
    /\ Step(Main, "stop", "drain")
    /\ Invoke(Main, "stop")
    /\ UNCHANGED <<module, config, local_stop_flag, error, gates, cfg_lock, wpc>>

\* Every HTTP server has joined its clients before the first module is
\* deleted; most destructors then call stop() once more.
MainDelete ==
    /\ Step(Main, "drain", "delete")
    /\ \A v \in Viewers : at[v] = "out" /\ call[v] = "none"
    /\ IF kind = "unstopped" THEN UNCHANGED call ELSE Invoke(Main, "stop")
    /\ UNCHANGED <<module, config, local_stop_flag, error, gates, cfg_lock, wpc>>

\* ~source() joins the watchdog; the object is gone.
MainDone ==
    /\ Step(Main, "delete", "done")
    /\ at[Watchdog] = "ended" /\ call[Watchdog] = "none"
    /\ UNCHANGED <<module, config, local_stop_flag, error, gates, cfg_lock, wpc, call>>

MainStep == MainStartup \/ MainLock \/ MainAnnounce \/ MainStop \/ MainDelete \/ MainDone

-----------------------------------------------------------------------------
(* The watchdog of a source.                                               *)

WdStart ==
    /\ Step(Watchdog, "init", "loop")
    /\ Invoke(Watchdog, "start")
    /\ UNCHANGED <<module, config, local_stop_flag, error, gates, cfg_lock, wpc>>

\* while(!local_stop_flag), then the test of work_required(); whether the
\* interval has passed is the clock's choice.
WdLoop ==
    /\ \/ local_stop_flag /\ Step(Watchdog, "loop", "final")
       \/ ~local_stop_flag /\ Step(Watchdog, "loop", "test")
    /\ UNCHANGED <<module, config, local_stop_flag, error, gates, cfg_lock, wpc, call>>

WdTest ==
    /\ \/ running /\ Step(Watchdog, "test", "probe")
       \/ Step(Watchdog, "test", "loop")
    /\ UNCHANGED <<module, config, local_stop_flag, error, gates, cfg_lock, wpc, call>>

\* Under th_lock: is there a thread whose last frame is too old?
WdProbe ==
    /\ th_lock = None
    /\ \/ th # None /\ Step(Watchdog, "probe", "restart")
       \/ Step(Watchdog, "probe", "loop")
    /\ UNCHANGED <<module, config, local_stop_flag, error, gates, cfg_lock, wpc, call>>

\* th_lock was released before restart() takes it again.
WdRestart ==
    /\ Step(Watchdog, "restart", "relock")
    /\ Invoke(Watchdog, "restart")
    /\ UNCHANGED <<module, config, local_stop_flag, error, gates, cfg_lock, wpc>>

WdRelock ==
    /\ Step(Watchdog, "relock", "loop")
    /\ th_lock = None
    /\ UNCHANGED <<module, config, local_stop_flag, error, gates, cfg_lock, wpc, call>>

WdStop ==
    /\ Step(Watchdog, "final", "ended")
    /\ Invoke(Watchdog, "stop")
    /\ UNCHANGED <<module, config, local_stop_flag, error, gates, cfg_lock, wpc>>

WdStep == WdStart \/ WdLoop \/ WdTest \/ WdProbe \/ WdRestart \/ WdRelock \/ WdStop

-----------------------------------------------------------------------------
(* A user of the module: start(), use it, stop().                          *)

ViewerEnter(v) ==
    /\ at[Main] \notin {"drain", "delete", "done"}
    /\ Step(v, "out", "in")
    /\ Invoke(v, "start")
    /\ UNCHANGED <<module, config, local_stop_flag, error, gates, cfg_lock, wpc>>

ViewerLeave(v) ==
    /\ Step(v, "in", "out")
    /\ Invoke(v, "stop")
    /\ UNCHANGED <<module, config, local_stop_flag, error, gates, cfg_lock, wpc>>

-----------------------------------------------------------------------------
(* A control command: all of it runs under cfg->lock.                      *)

ControllerTake(c) ==
    /\ cfg_lock = None
    /\ user_count + saved \in (1 - MaxUsers) .. (MaxUsers - 1)
    /\ \E cmd \in Commands : Step(c, "idle", cmd)
    /\ cfg_lock' = c
    /\ UNCHANGED <<module, config, local_stop_flag, error, gates, wpc, call>>

\* start_stop(), and restart_module() as a stop followed by a start
CommandStartStop(c) ==
    /\ \/ Step(c, "start", "reply") /\ Invoke(c, "start")
       \/ Step(c, "stop", "stopped") /\ Invoke(c, "stop")
       \/ Step(c, "cycle", "start") /\ Invoke(c, "stop")
    /\ UNCHANGED <<module, config, local_stop_flag, error, gates, cfg_lock, wpc>>

CommandStopped(c) ==
    /\ Step(c, "stopped", "reply")
    /\ UNCHANGED <<module, config, local_stop_flag, error, gates, cfg_lock, wpc, call>>

\* toggle_start_stop() and the list command: is_running() takes th_lock.
CommandIsRunning(c) ==
    /\ th_lock = None
    /\ \/ Step(c, "toggle", IF th = None THEN "start" ELSE "stop")
       \/ Step(c, "list", "reply")
    /\ UNCHANGED <<module, config, local_stop_flag, error, gates, cfg_lock, wpc, call>>

\* Mutated form of CommandTestPaused: unpause() does not test paused.
CommandUnpauseUntested(c) ==
    /\ \/ Step(c, "togglepause", IF paused THEN "unpause" ELSE "pause")
       \/ Step(c, "pause", IF paused THEN "reply" ELSE "trylock")
       \/ Step(c, "unpause", "unpausing")
    /\ UNCHANGED <<module, config, local_stop_flag, error, gates, cfg_lock, wpc, call>>

\* toggle_pause(), and the test of paused in pause() and unpause().
CommandTestPaused(c) ==
    /\ \/ Step(c, "togglepause", IF paused THEN "unpause" ELSE "pause")
       \/ Step(c, "pause", IF paused THEN "reply" ELSE "trylock")
       \/ Step(c, "unpause", IF paused THEN "unpausing" ELSE "reply")
    /\ UNCHANGED <<module, config, local_stop_flag, error, gates, cfg_lock, wpc, call>>

\* pause_lock.try_lock_for(100ms): taken, or given up while somebody has it.
CommandTryLock(c) ==
    /\ \/ /\ pause_lock = "free"
          /\ pause_lock' = "pause"
          /\ Step(c, "trylock", "setpaused")
       \/ /\ pause_lock # "free"
          /\ Step(c, "trylock", "reply")
          /\ UNCHANGED pause_lock
    /\ UNCHANGED <<module, config, local_stop_flag, error, paused, cfg_lock, wpc, call>>

CommandSetPaused(c) ==
    /\ \/ Step(c, "setpaused", "reply") /\ paused' = TRUE
       \/ Step(c, "unpausing", "unlock") /\ paused' = FALSE
    /\ UNCHANGED <<module, config, local_stop_flag, error, pause_lock, cfg_lock, wpc, call>>

CommandUnlock(c) ==
    /\ Step(c, "unlock", "reply")
    /\ pause_lock' = "free"
    /\ UNCHANGED <<module, config, local_stop_flag, error, paused, cfg_lock, wpc, call>>

\* The command is done: cfg->lock is released.
ControllerReply(c) ==
    /\ Step(c, "reply", "idle")
    /\ cfg_lock' = None
    /\ UNCHANGED <<module, config, local_stop_flag, error, gates, wpc, call>>

Command(c) ==
    \/ CommandStartStop(c) \/ CommandStopped(c) \/ CommandIsRunning(c)
    \/ CommandTestPaused(c) \/ CommandTryLock(c) \/ CommandSetPaused(c)
    \/ CommandUnlock(c) \/ ControllerReply(c)

-----------------------------------------------------------------------------

\* After main() has deleted the module nothing needs to happen any more.
Finished == at[Main] = "done" /\ UNCHANGED vars

Next ==
    \/ \E t \in Threads : Call(t)
    \/ \E w \in Workers : Worker(w)
    \/ MainStep
    \/ MainTerminate
    \/ WdStep
    \/ \E v \in Viewers : ViewerEnter(v) \/ ViewerLeave(v)
    \/ \E c \in Controllers : ControllerTake(c) \/ Command(c)
    \/ Finished

Spec == Init /\ [][Next]_vars

\* Threads run, a mutex that is free again and again is obtained, a command
\* that was accepted is carried out, and viewers leave once main() drains.
Fairness ==
    /\ \A t \in Threads : SF_vars(Call(t))
    /\ \A w \in Workers : WF_vars(Worker(w))
    /\ SF_vars(MainStep)
    /\ SF_vars(WdStep)
    /\ \A v \in Viewers : WF_vars(at[Main] = "drain" /\ ViewerLeave(v))
    /\ \A c \in Controllers : SF_vars(Command(c))

FairSpec == Spec /\ Fairness

-----------------------------------------------------------------------------
(* The promise to the users: restarts are invisible, and a release that    *)
(* ends the thread takes effect when the thread has been joined.           *)

Service == INSTANCE DemandService WITH
    demand  <- IF th_lock = None THEN user_count
               ELSE IF call[th_lock] = "restart" THEN saved ELSE user_count + 1,
    serving <- th # None,
    kept    <- ~on_demand

ServiceSpec == Service!Spec

-----------------------------------------------------------------------------
(* Properties                                                              *)

\* Every variable keeps its type.
TypeOK ==
    /\ kind \in Kinds
    /\ th \in Workers \cup {None}
    /\ th_lock \in Threads \cup {None}
    /\ user_count \in Int /\ saved \in Int
    /\ on_demand \in BOOLEAN /\ running \in BOOLEAN
    /\ local_stop_flag \in BOOLEAN /\ error \in BOOLEAN
    /\ paused \in BOOLEAN
    /\ pause_lock \in {"free", "worker", "pause"}
    /\ cfg_lock \in Controllers \cup {Main, None}
    /\ wpc \in [Workers -> WorkerStates]
    /\ at \in [Threads -> ThreadStates]
    /\ call \in [Threads -> {"none", "start", "stop", "restart"}]

\* However start(), stop() and restart() of several threads interleave, at
\* most one thread runs operator()() of a module, and th is that thread: a
\* thread is never lost (left running with nobody able to join it).
OneThreadPerModule ==
    /\ \A w \in Workers : wpc[w] # "free" => w = th
    /\ th # None => wpc[th] # "free"

\* Whoever joins the thread holds th_lock, the thread exists, and the stop
\* flag stays set, so that the join can end.
JoinKeepsStopFlag ==
    th_lock # None => /\ call[th_lock] \in {"stop", "restart"}
                      /\ th # None
                      /\ ~running
                      /\ local_stop_flag

\* work_required(), which the workers and the watchdog read without a lock,
\* agrees with the existence of the thread whenever th_lock is free.
RunningMeansThread == th_lock = None => (running <=> th # None)

\* The inductive invariant behind the three properties above.
ThreadInv ==
    /\ TypeOK
    /\ OneThreadPerModule
    /\ JoinKeepsStopFlag
    /\ RunningMeansThread

\* Only a source has the "on-demand" setting; these two properties are
\* about sources that have it (OnDemandChoices = {TRUE}).
OnDemandModule == kind # "pausable"

\* An on-demand module runs exactly while it has users, and its count never
\* becomes negative, whatever mix of users, control commands, restarts of
\* the watchdog and termination drives it.
DemandRuns == OnDemandModule /\ th_lock = None => /\ user_count >= 0
                                                  /\ th # None <=> user_count > 0

\* The inductive invariant behind DemandRuns: in a join the count is zero,
\* and restart() keeps a positive one for afterwards.
DemandInv ==
    /\ ThreadInv
    /\ DemandRuns
    /\ OnDemandModule => on_demand
    /\ OnDemandModule /\ th_lock # None =>
           user_count = 0 /\ (call[th_lock] = "restart" => saved > 0)

\* An on-demand thread that was told to stop is not told otherwise before it
\* has ended: nobody clears the stop flag under a thread that has yet to see it.
StopFlagHolds ==
    [][OnDemandModule /\ local_stop_flag /\ ~local_stop_flag'
           => th = None \/ wpc[th] = "ended"]_vars

\* pause() and unpause() keep the gate and the flag in step: the gate is held
\* by a pause request exactly while the module is paused or the request is
\* between its two halves, so unpause() never unlocks a mutex that is free
\* or that the worker holds.
PauseGateOwned ==
    pause_lock = "pause" <=>
        paused \/ \E c \in Controllers : at[c] \in {"setpaused", "unlock"}

Unannounced == at[Main] \in {"startup", "run", "lock", "announce"}

\* The threads between the return of start() and that of stop().
Users ==
    {v \in Viewers : \/ at[v] = "in" /\ call[v] = "none"
                     \/ at[v] = "out" /\ call[v] = "stop"}
    \cup {t \in {Main} : at[t] \in {"run", "lock", "announce"} /\ call[t] = "none" /\ ~on_demand}
    \cup {t \in {Watchdog} : at[t] \notin {"init", "ended"} /\ call[t] # "start"}

\* Without stop commands of an operator the count is the number of threads that use
\* the module, also across the restarts of the watchdog; and nobody ends the thread
\* under a viewer before termination, except the watchdog, which replaces it.
BalancedCount == th_lock = None => user_count = Cardinality(Users)
ViewerKeepsModule ==
    (\E v \in Viewers : at[v] = "in" /\ call[v] = "none")
        => th # None /\ (local_stop_flag => th_lock = Watchdog)
UsersInv == Unannounced => BalancedCount /\ ViewerKeepsModule

\* A source whose destructor calls stop() is deleted after termination was
\* announced, and no thread runs on in the deleted object: also when the
\* watchdog was just restarting it and undid the announcement.  (Not when
\* the watchdog has not even executed its first start() by then.)
Termination ==
    at[Main] = "announce" /\ at[Watchdog] # "init" /\ call[Watchdog] # "start"
        ~> at[Main] = "done" /\ th = None

\* interface.cpp:255-257 of announce_stop(): "only used when terminating
\* application in that case things should really stop".
AnnouncedStopHappens == at[Main] = "stop" ~> th = None

=============================================================================
