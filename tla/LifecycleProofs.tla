--------------------------- MODULE LifecycleProofs ---------------------------
(***************************************************************************)
(* Proofs about Lifecycle for every number of viewers, controllers and     *)
(* workers, every kind of module and every set of commands.                *)
(***************************************************************************)
EXTENDS Lifecycle, FiniteSetTheorems, TLAPS

USE DEF Threads, AllCommands

(* A thread that starts a new call has none: it does not hold th_lock.     *)
LEMMA IdleThreadsHoldNoLock ==
    ASSUME ThreadInv, NEW t \in Threads, call[t] = "none"
    PROVE  th_lock # t
  BY ThreadsAssumption DEF ThreadInv, JoinKeepsStopFlag

(* The initial states satisfy the invariant. *)
LEMMA InitThreadInv == Init => ThreadInv
  <1> SUFFICES ASSUME Init PROVE ThreadInv
    OBVIOUS
  <1>1. TypeOK
    <2>1. at \in [Threads -> ThreadStates]
      BY DEF Init, ThreadStates, MainStates
    <2>2. on_demand \in BOOLEAN
      BY ConfigAssumption DEF Init
    <2>3. /\ wpc \in [Workers -> WorkerStates]
          /\ call \in [Threads -> {"none", "start", "stop", "restart"}]
      BY DEF Init, WorkerStates
    <2>4. /\ running \in BOOLEAN /\ local_stop_flag \in BOOLEAN
          /\ error \in BOOLEAN /\ paused \in BOOLEAN
      BY Zenon DEF Init
    <2>5. /\ kind \in Kinds /\ th = None /\ th_lock = None /\ cfg_lock = None
          /\ user_count = 0 /\ saved = 0 /\ pause_lock = "free"
      BY Zenon DEF Init
    <2> QED
      BY <2>1, <2>2, <2>3, <2>4, <2>5 DEF TypeOK
  <1>2. OneThreadPerModule /\ JoinKeepsStopFlag /\ RunningMeansThread
    BY DEF Init, OneThreadPerModule, JoinKeepsStopFlag, RunningMeansThread
  <1> QED
    BY <1>1, <1>2 DEF ThreadInv

(* Calls of start(), stop() and restart(). *)
LEMMA StartCallThreadInv ==
    ASSUME ThreadInv, NEW t \in Threads, StartCall(t)
    PROVE  ThreadInv'
  <1> USE DEF ThreadInv, StartCall, StartWith, Return, config, gates
  <1>1. /\ th_lock' = th_lock /\ kind' = kind /\ cfg_lock' = cfg_lock /\ at' = at
        /\ pause_lock' = pause_lock /\ saved' = saved
        /\ user_count' = user_count + 1
        /\ call' = [call EXCEPT ![t] = "none"]
    OBVIOUS
  <1>2. /\ on_demand' \in BOOLEAN /\ local_stop_flag' \in BOOLEAN
        /\ error' \in BOOLEAN /\ paused' \in BOOLEAN
    BY Zenon DEF TypeOK
  <1>3. /\ th' \in Workers \cup {None}
        /\ wpc' \in [Workers -> WorkerStates]
        /\ running' \in BOOLEAN
        /\ OneThreadPerModule'
    <2>1. CASE user_count = 0 /\ th = None
      <3>1. PICK w \in Workers : /\ wpc[w] = "free"
                                 /\ wpc' = [wpc EXCEPT ![w] = "loop"]
                                 /\ th' = w
                                 /\ running' = TRUE
        BY <2>1, Zenon
      <3>2. th' \in Workers /\ wpc' \in [Workers -> WorkerStates]
        BY <3>1 DEF TypeOK, WorkerStates
      <3>3. OneThreadPerModule'
        BY <2>1, <3>1, ThreadsAssumption DEF OneThreadPerModule, TypeOK
      <3> QED
        BY <3>1, <3>2, <3>3
    <2>2. CASE ~(user_count = 0 /\ th = None)
      <3>1. UNCHANGED <<th, wpc, running>>
        BY <2>2, Zenon
      <3> QED
        BY <3>1 DEF OneThreadPerModule, TypeOK
    <2> QED
      BY <2>1, <2>2
  <1>6. TypeOK'
    BY <1>1, <1>2, <1>3 DEF TypeOK
  <1>7. JoinKeepsStopFlag'
    BY DEF JoinKeepsStopFlag
  <1>8. RunningMeansThread'
    BY ThreadsAssumption DEF RunningMeansThread, TypeOK
  <1> QED
    BY <1>3, <1>6, <1>7, <1>8

LEMMA StopCallThreadInv ==
    ASSUME ThreadInv, NEW t \in Threads, StopCall(t)
    PROVE  ThreadInv'
  <1> USE DEF ThreadInv, StopCall, StopWith, Return, config, gates
  <1>0. /\ on_demand' \in BOOLEAN /\ local_stop_flag' \in BOOLEAN
        /\ error' \in BOOLEAN /\ paused' \in BOOLEAN /\ running' \in BOOLEAN
    BY Zenon DEF TypeOK
  <1>1. TypeOK'
    BY <1>0 DEF TypeOK
  <1>2. OneThreadPerModule'
    BY DEF OneThreadPerModule
  <1>3. JoinKeepsStopFlag' /\ RunningMeansThread'
    BY ThreadsAssumption DEF JoinKeepsStopFlag, RunningMeansThread, TypeOK
  <1> QED
    BY <1>1, <1>2, <1>3

LEMMA StopJoinedThreadInv ==
    ASSUME ThreadInv, NEW t \in Threads, StopJoined(t)
    PROVE  ThreadInv'
  <1> USE DEF ThreadInv, StopJoined, Return, config, gates
  <1>1. th \in Workers /\ ~running
    BY ThreadsAssumption DEF JoinKeepsStopFlag, TypeOK
  <1>2. TypeOK'
    BY <1>1 DEF TypeOK, WorkerStates
  <1>3. OneThreadPerModule'
    BY <1>1 DEF OneThreadPerModule, TypeOK
  <1>4. JoinKeepsStopFlag' /\ RunningMeansThread'
    BY <1>1 DEF JoinKeepsStopFlag, RunningMeansThread
  <1> QED
    BY <1>2, <1>3, <1>4

LEMMA RestartCallThreadInv ==
    ASSUME ThreadInv, NEW t \in Threads, RestartCall(t)
    PROVE  ThreadInv'
  <1> USE DEF ThreadInv, RestartCall, Return, config, gates, module
  <1>0. /\ on_demand' \in BOOLEAN /\ local_stop_flag' \in BOOLEAN
        /\ error' \in BOOLEAN /\ paused' \in BOOLEAN /\ running' \in BOOLEAN
    BY Zenon DEF TypeOK
  <1>1. TypeOK'
    BY <1>0 DEF TypeOK
  <1>2. OneThreadPerModule'
    BY DEF OneThreadPerModule
  <1>3. JoinKeepsStopFlag' /\ RunningMeansThread'
    BY ThreadsAssumption DEF JoinKeepsStopFlag, RunningMeansThread, TypeOK
  <1> QED
    BY <1>1, <1>2, <1>3

LEMMA RestartJoinedThreadInv ==
    ASSUME ThreadInv, NEW t \in Threads, RestartJoined(t)
    PROVE  ThreadInv'
  <1> USE DEF ThreadInv, RestartJoined, RestartWith, Return, config, gates
  <1>1. th \in Workers
    BY ThreadsAssumption DEF JoinKeepsStopFlag, TypeOK
  <1>2. PICK w \in Workers : /\ wpc[w] = "free"
                             /\ wpc' = [wpc EXCEPT ![th] = "free", ![w] = "loop"]
                             /\ th' = w
    BY Zenon
  <1>0. /\ on_demand' \in BOOLEAN /\ local_stop_flag' \in BOOLEAN
        /\ error' \in BOOLEAN /\ paused' \in BOOLEAN /\ running' \in BOOLEAN
    BY Zenon DEF TypeOK
  <1>3. TypeOK'
    BY <1>0, <1>1, <1>2 DEF TypeOK, WorkerStates
  <1>4. OneThreadPerModule'
    BY <1>1, <1>2 DEF OneThreadPerModule, TypeOK
  <1>5. JoinKeepsStopFlag' /\ RunningMeansThread'
    BY <1>2, ThreadsAssumption DEF JoinKeepsStopFlag, RunningMeansThread
  <1> QED
    BY <1>3, <1>4, <1>5

(* Steps of the worker only move it between states that are not "free".    *)
LEMMA WorkerThreadInv ==
    ASSUME ThreadInv, NEW w \in Workers, Worker(w)
    PROVE  ThreadInv'
  <1> USE DEF ThreadInv, WorkerMove, config, gates, module
  <1>1. /\ UNCHANGED <<th, th_lock, user_count, saved, kind, on_demand, running,
                       local_stop_flag, cfg_lock, at, call>>
        /\ \E s \in WorkerStates \ {"free"} : wpc' = [wpc EXCEPT ![w] = s]
        /\ wpc[w] # "free"
        /\ error' \in BOOLEAN
        /\ paused' \in BOOLEAN /\ pause_lock' \in {"free", "worker", "pause"}
    <2>1. CASE WorkerLoop(w)
      BY <2>1 DEF WorkerLoop, TypeOK, WorkerStates
    <2>2. CASE WorkerGate(w)
      BY <2>2 DEF WorkerGate, TypeOK, WorkerStates
    <2>3. CASE WorkerGateLeave(w)
      BY <2>3 DEF WorkerGateLeave, TypeOK, WorkerStates
    <2>4. CASE WorkerWork(w)
      BY <2>4 DEF WorkerWork, TypeOK, WorkerStates
    <2>5. CASE WorkerEnd(w)
      BY <2>5 DEF WorkerEnd, TypeOK, WorkerStates
    <2> QED
      BY <2>1, <2>2, <2>3, <2>4, <2>5 DEF Worker
  <1>2. TypeOK'
    BY <1>1 DEF TypeOK
  <1>3. OneThreadPerModule'
    BY <1>1 DEF OneThreadPerModule, TypeOK
  <1>4. JoinKeepsStopFlag' /\ RunningMeansThread'
    BY <1>1 DEF JoinKeepsStopFlag, RunningMeansThread
  <1> QED
    BY <1>2, <1>3, <1>4

(* The scripts of main(), the watchdog, the viewers and the controllers    *)
(* move a thread that has no call, and at most give it one.                *)
ScriptStep(t) ==
    /\ call[t] = "none"
    /\ \E m \in {"none", "start", "stop", "restart"} : call' = [call EXCEPT ![t] = m]
    /\ \E s \in ThreadStates : at' = [at EXCEPT ![t] = s]
    /\ UNCHANGED <<kind, th, th_lock, user_count, running, error, wpc, saved>>
    /\ on_demand' \in BOOLEAN
    /\ local_stop_flag' \in BOOLEAN /\ (local_stop_flag => local_stop_flag')
    /\ paused' \in BOOLEAN
    /\ pause_lock' \in {"free", "worker", "pause"}
    /\ cfg_lock' \in Controllers \cup {Main, None}

LEMMA ScriptStepThreadInv ==
    ASSUME ThreadInv, NEW t \in Threads, ScriptStep(t)
    PROVE  ThreadInv'
  <1> USE DEF ThreadInv, ScriptStep
  <1>1. TypeOK'
    BY DEF TypeOK
  <1>2. OneThreadPerModule' /\ RunningMeansThread'
    BY DEF OneThreadPerModule, RunningMeansThread
  <1>3. JoinKeepsStopFlag'
    BY IdleThreadsHoldNoLock DEF JoinKeepsStopFlag, TypeOK
  <1> QED
    BY <1>1, <1>2, <1>3

LEMMA UnchangedCallIsScript ==
    ASSUME TypeOK, NEW t \in Threads, UNCHANGED call, call[t] = "none"
    PROVE  \E m \in {"none", "start", "stop", "restart"} : call' = [call EXCEPT ![t] = m]
  BY DEF TypeOK

LEMMA MainIsScript ==
    ASSUME TypeOK, MainStep \/ MainTerminate
    PROVE  ScriptStep(Main)
  <1> USE DEF TypeOK, ScriptStep, Step, Goto, Invoke, config, gates, module,
              ThreadStates, MainStates
  <1>1. CASE MainStartup
    BY <1>1, UnchangedCallIsScript DEF MainStartup
  <1>2. CASE MainTerminate
    BY <1>2, UnchangedCallIsScript DEF MainTerminate
  <1>3. CASE MainLock
    BY <1>3, UnchangedCallIsScript DEF MainLock
  <1>4. CASE MainAnnounce
    BY <1>4, UnchangedCallIsScript DEF MainAnnounce, AnnounceStop
  <1>5. CASE MainStop
    BY <1>5 DEF MainStop
  <1>6. CASE MainDelete
    BY <1>6, UnchangedCallIsScript DEF MainDelete
  <1>7. CASE MainDone
    BY <1>7, UnchangedCallIsScript DEF MainDone
  <1> QED
    BY <1>1, <1>2, <1>3, <1>4, <1>5, <1>6, <1>7 DEF MainStep

LEMMA WatchdogIsScript ==
    ASSUME TypeOK, WdStep
    PROVE  ScriptStep(Watchdog)
  <1> USE DEF TypeOK, ScriptStep, Step, Goto, Invoke, config, gates, module,
              ThreadStates
  <1>1. CASE WdStart
    BY <1>1 DEF WdStart
  <1>2. CASE WdLoop
    BY <1>2, UnchangedCallIsScript DEF WdLoop
  <1>3. CASE WdTest
    BY <1>3, UnchangedCallIsScript DEF WdTest
  <1>4. CASE WdProbe
    BY <1>4, UnchangedCallIsScript DEF WdProbe
  <1>5. CASE WdRestart
    BY <1>5 DEF WdRestart
  <1>6. CASE WdRelock
    BY <1>6, UnchangedCallIsScript DEF WdRelock
  <1>7. CASE WdStop
    BY <1>7 DEF WdStop
  <1> QED
    BY <1>1, <1>2, <1>3, <1>4, <1>5, <1>6, <1>7 DEF WdStep

LEMMA ViewerIsScript ==
    ASSUME TypeOK, NEW v \in Viewers, ViewerEnter(v) \/ ViewerLeave(v)
    PROVE  ScriptStep(v)
  BY DEF TypeOK, ScriptStep, Step, Goto, Invoke, config, gates, module,
         ThreadStates, ViewerEnter, ViewerLeave

LEMMA ControllerIsScript ==
    ASSUME TypeOK, NEW c \in Controllers, ControllerTake(c) \/ Command(c)
    PROVE  ScriptStep(c)
  <1> USE DEF TypeOK, ScriptStep, Step, Goto, Invoke, config, gates, module,
              ThreadStates
  <1>1. CASE ControllerTake(c)
    BY <1>1, UnchangedCallIsScript, ConfigAssumption DEF ControllerTake
  <1>2. CASE CommandStartStop(c)
    BY <1>2 DEF CommandStartStop
  <1>3. CASE CommandStopped(c)
    BY <1>3, UnchangedCallIsScript DEF CommandStopped
  <1>4. CASE CommandIsRunning(c)
    BY <1>4, UnchangedCallIsScript DEF CommandIsRunning
  <1>5. CASE CommandTestPaused(c)
    BY <1>5, UnchangedCallIsScript DEF CommandTestPaused
  <1>6. CASE CommandTryLock(c)
    BY <1>6, UnchangedCallIsScript DEF CommandTryLock
  <1>7. CASE CommandSetPaused(c)
    BY <1>7, UnchangedCallIsScript DEF CommandSetPaused
  <1>8. CASE CommandUnlock(c)
    BY <1>8, UnchangedCallIsScript DEF CommandUnlock
  <1>9. CASE ControllerReply(c)
    BY <1>9, UnchangedCallIsScript DEF ControllerReply
  <1> QED
    BY <1>1, <1>2, <1>3, <1>4, <1>5, <1>6, <1>7, <1>8, <1>9 DEF Command

(* Every step preserves the invariant. *)
LEMMA NextThreadInv == ThreadInv /\ [Next]_vars => ThreadInv'
  <1> SUFFICES ASSUME ThreadInv, [Next]_vars PROVE ThreadInv'
    OBVIOUS
  <1>0. TypeOK
    BY DEF ThreadInv
  <1>1. CASE \E t \in Threads : Call(t)
    BY <1>1, StartCallThreadInv, StopCallThreadInv, StopJoinedThreadInv,
       RestartCallThreadInv, RestartJoinedThreadInv DEF Call
  <1>2. CASE \E w \in Workers : Worker(w)
    BY <1>2, WorkerThreadInv
  <1>3. CASE MainStep \/ MainTerminate
    BY <1>0, <1>3, MainIsScript, ScriptStepThreadInv
  <1>4. CASE WdStep
    BY <1>0, <1>4, WatchdogIsScript, ScriptStepThreadInv
  <1>5. CASE \E v \in Viewers : ViewerEnter(v) \/ ViewerLeave(v)
    BY <1>0, <1>5, ViewerIsScript, ScriptStepThreadInv
  <1>6. CASE \E c \in Controllers : ControllerTake(c) \/ Command(c)
    BY <1>0, <1>6, ControllerIsScript, ScriptStepThreadInv
  <1>7. CASE UNCHANGED vars
    BY <1>7 DEF vars, ThreadInv, TypeOK, OneThreadPerModule, JoinKeepsStopFlag,
                RunningMeansThread
  <1> QED
    BY <1>1, <1>2, <1>3, <1>4, <1>5, <1>6, <1>7 DEF Next, Finished

(* Whatever the threads do, the invariant holds in every reachable state:  *)
(* types, a single worker, a set stop flag during a join.                  *)
THEOREM ThreadInvHolds == Spec => []ThreadInv
  BY InitThreadInv, NextThreadInv, PTL DEF Spec

(* However start(), stop() and restart() of any number of threads          *)
(* interleave, a module never has two threads and never loses its thread.  *)
THEOREM OneThread == Spec => []OneThreadPerModule
  <1>1. ThreadInv => OneThreadPerModule
    BY DEF ThreadInv
  <1> QED
    BY <1>1, ThreadInvHolds, PTL

(* A join always finds the stop flag set. *)
THEOREM JoinsCanEnd == Spec => []JoinKeepsStopFlag
  <1>1. ThreadInv => JoinKeepsStopFlag
    BY DEF ThreadInv
  <1> QED
    BY <1>1, ThreadInvHolds, PTL

-----------------------------------------------------------------------------
(* The reference count of on-demand sources.                               *)

LEMMA InitDemandInv ==
    ASSUME OnDemandChoices = {TRUE}, Init
    PROVE  DemandInv
  <1>1. ThreadInv
    BY InitThreadInv
  <1>2. OnDemandModule => on_demand
    BY Zenon DEF Init, OnDemandModule
  <1> QED
    BY <1>1, <1>2 DEF Init, DemandInv, DemandRuns

(* The calls of start(), stop() and restart(). *)
LEMMA CallDemandInv ==
    ASSUME DemandInv, NEW t \in Threads, Call(t)
    PROVE  DemandInv'
  <1> USE DEF DemandInv, DemandRuns, OnDemandModule, config, gates, Return
  <1>1. ThreadInv'
    BY StartCallThreadInv, StopCallThreadInv, StopJoinedThreadInv,
       RestartCallThreadInv, RestartJoinedThreadInv DEF Call
  <1>2. /\ user_count \in Int /\ saved \in Int /\ th_lock \in Threads \cup {None}
        /\ call \in [Threads -> {"none", "start", "stop", "restart"}]
        /\ None \notin Threads /\ None \notin Workers
    BY ThreadsAssumption DEF ThreadInv, TypeOK
  <1>3. CASE StartCall(t)
    <2>1. /\ th_lock = None /\ th_lock' = None /\ user_count' = user_count + 1
          /\ kind' = kind /\ on_demand' = on_demand
      BY <1>3 DEF StartCall, StartWith
    <2>2. th' # None \/ th' = th
      BY <1>2, <1>3 DEF StartCall, StartWith
    <2>3. user_count = 0 /\ th = None => th' # None
      BY <1>2, <1>3 DEF StartCall, StartWith
    <2> QED
      BY <1>1, <1>2, <2>1, <2>2, <2>3
  <1>4. CASE StopCall(t)
    BY <1>1, <1>2, <1>4 DEF StopCall, StopWith
  <1>5. CASE StopJoined(t)
    BY <1>1, <1>2, <1>5 DEF StopJoined
  <1>6. CASE RestartCall(t)
    BY <1>1, <1>2, <1>6 DEF RestartCall, module
  <1>7. CASE RestartJoined(t)
    <2>1. th' # None /\ th_lock' = None /\ user_count' = saved
          /\ kind' = kind /\ on_demand' = on_demand
      BY <1>2, <1>7 DEF RestartJoined, RestartWith
    <2>2. OnDemandModule => saved > 0
      BY <1>2, <1>7 DEF RestartJoined, RestartWith
    <2> QED
      BY <1>1, <1>2, <2>1, <2>2
  <1> QED
    BY <1>3, <1>4, <1>5, <1>6, <1>7 DEF Call

(* A script step does not touch the module, and never withdraws on_demand. *)
LEMMA ScriptDemandInv ==
    ASSUME DemandInv, NEW t \in Threads, ScriptStep(t), on_demand => on_demand'
    PROVE  DemandInv'
  <1>1. ThreadInv /\ ThreadInv'
    BY ScriptStepThreadInv DEF DemandInv
  <1>2. th_lock # None => th_lock # t
    BY <1>1, IdleThreadsHoldNoLock DEF ScriptStep
  <1>3. th_lock # None => call'[th_lock] = call[th_lock]
    BY <1>1, <1>2 DEF ThreadInv, TypeOK, ScriptStep
  <1> QED
    BY <1>1, <1>3 DEF DemandInv, DemandRuns, OnDemandModule, ScriptStep

LEMMA OnDemandStays ==
    ASSUME on_demand,
           \/ MainStep \/ MainTerminate \/ WdStep
           \/ \E v \in Viewers : ViewerEnter(v) \/ ViewerLeave(v)
           \/ \E c \in Controllers : ControllerTake(c) \/ Command(c)
    PROVE  on_demand'
  BY DEF config, MainStep, MainStartup, MainTerminate, MainLock, MainAnnounce, AnnounceStop,
     MainStop, MainDelete, MainDone, WdStep, WdStart, WdLoop, WdTest, WdProbe, WdRestart,
     WdRelock, WdStop, ViewerEnter, ViewerLeave, ControllerTake, Command, CommandStartStop,
     CommandStopped, CommandIsRunning, CommandTestPaused, CommandTryLock, CommandSetPaused,
     CommandUnlock, ControllerReply

LEMMA WorkerDemandInv ==
    ASSUME DemandInv, NEW w \in Workers, Worker(w)
    PROVE  DemandInv'
  <1>1. ThreadInv'
    BY WorkerThreadInv DEF DemandInv
  <1>2. UNCHANGED <<module, config, call>>
    BY DEF Worker, WorkerLoop, WorkerGate, WorkerGateLeave, WorkerWork, WorkerEnd
  <1> QED
    BY <1>1, <1>2 DEF DemandInv, DemandRuns, OnDemandModule, module, config

LEMMA NextDemandInv == DemandInv /\ [Next]_vars => DemandInv'
  <1> SUFFICES ASSUME DemandInv, [Next]_vars PROVE DemandInv'
    OBVIOUS
  <1>0. TypeOK
    BY DEF DemandInv, ThreadInv
  <1>1. CASE \E t \in Threads : Call(t)
    BY <1>1, CallDemandInv
  <1>2. CASE \E w \in Workers : Worker(w)
    BY <1>2, WorkerDemandInv
  <1>3. CASE MainStep \/ MainTerminate
    BY <1>0, <1>3, MainIsScript, OnDemandStays, ScriptDemandInv
  <1>4. CASE WdStep
    BY <1>0, <1>4, WatchdogIsScript, OnDemandStays, ScriptDemandInv
  <1>5. CASE \E v \in Viewers : ViewerEnter(v) \/ ViewerLeave(v)
    BY <1>0, <1>5, ViewerIsScript, OnDemandStays, ScriptDemandInv
  <1>6. CASE \E c \in Controllers : ControllerTake(c) \/ Command(c)
    BY <1>0, <1>6, ControllerIsScript, OnDemandStays, ScriptDemandInv
  <1>7. CASE UNCHANGED vars
    <2>1. ThreadInv'
      BY <1>7, NextThreadInv DEF DemandInv
    <2> QED
      BY <1>7, <2>1 DEF vars, DemandInv, DemandRuns, OnDemandModule
  <1> QED
    BY <1>1, <1>2, <1>3, <1>4, <1>5, <1>6, <1>7 DEF Next, Finished

(* If every source is on-demand, a source runs exactly while it has users  *)
(* and no interleaving makes its count negative.                           *)
THEOREM DemandRunsHolds ==
    ASSUME OnDemandChoices = {TRUE}
    PROVE  Spec => []DemandRuns
  <1>1. Init => DemandInv
    BY InitDemandInv
  <1>2. DemandInv => DemandRuns
    BY DEF DemandInv
  <1> QED
    BY <1>1, <1>2, NextDemandInv, PTL DEF Spec

(* An on-demand thread that was told to stop is not told otherwise before  *)
(* it has ended, however many threads start and stop the source.           *)
THEOREM StopFlagHoldsAlways ==
    ASSUME OnDemandChoices = {TRUE}
    PROVE  Spec => StopFlagHolds
  <1> DEFINE Held == OnDemandModule /\ local_stop_flag /\ ~local_stop_flag'
                         => th = None \/ wpc[th] = "ended"
  <1>1. Init => DemandInv
    BY InitDemandInv
  <1>2. DemandInv /\ [Next]_vars => [Held]_vars
    <2> SUFFICES ASSUME DemandInv, [Next]_vars, local_stop_flag, ~local_stop_flag',
                        OnDemandModule
                 PROVE  th = None \/ wpc[th] = "ended"
      OBVIOUS
    <2>0. TypeOK
      BY DEF DemandInv, ThreadInv
    <2>1. CASE \E t \in Threads : Call(t)
      <3>1. PICK t \in Threads : Call(t)
        BY <2>1
      <3>2. CASE StartCall(t)
        <4>1. user_count = 0 /\ th_lock = None
          BY <3>2 DEF StartCall, StartWith
        <4> QED
          BY <4>1 DEF DemandInv, DemandRuns
      <3>3. CASE StopCall(t)
        BY <3>3 DEF StopCall, StopWith
      <3>4. CASE StopJoined(t)
        BY <3>4 DEF StopJoined
      <3>5. CASE RestartCall(t)
        BY <3>5 DEF RestartCall
      <3>6. CASE RestartJoined(t)
        BY <3>6 DEF RestartJoined, RestartWith
      <3> QED
        BY <3>1, <3>2, <3>3, <3>4, <3>5, <3>6 DEF Call
    <2>2. CASE \E w \in Workers : Worker(w)
      BY <2>2 DEF Worker, WorkerLoop, WorkerGate, WorkerGateLeave, WorkerWork, WorkerEnd
    <2>3. CASE MainStep \/ MainTerminate
      BY <2>0, <2>3, MainIsScript DEF ScriptStep
    <2>4. CASE WdStep
      BY <2>0, <2>4, WatchdogIsScript DEF ScriptStep
    <2>5. CASE \E v \in Viewers : ViewerEnter(v) \/ ViewerLeave(v)
      BY <2>0, <2>5, ViewerIsScript DEF ScriptStep
    <2>6. CASE \E c \in Controllers : ControllerTake(c) \/ Command(c)
      BY <2>0, <2>6, ControllerIsScript DEF ScriptStep
    <2>7. CASE UNCHANGED vars
      BY <2>7 DEF vars
    <2> QED
      BY <2>1, <2>2, <2>3, <2>4, <2>5, <2>6, <2>7 DEF Next, Finished
  <1> QED
    BY <1>1, <1>2, NextDemandInv, PTL DEF Spec, StopFlagHolds

-----------------------------------------------------------------------------
(* The pause gate.                                                         *)

\* One command is served at a time; what it has tested still holds.
PauseInv ==
    /\ ThreadInv
    /\ PauseGateOwned
    /\ \A c \in Controllers :
          /\ at[c] # "idle" => cfg_lock = c
          /\ at[c] \in {"setpaused", "unlock"} => ~paused
          /\ at[c] = "unpausing" => paused
    /\ \A w \in Workers : wpc[w] = "held" => pause_lock = "worker"

LEMMA InitPauseInv == Init => PauseInv
  <1> SUFFICES ASSUME Init PROVE PauseInv
    OBVIOUS
  <1>1. ASSUME NEW c \in Controllers PROVE at[c] = "idle"
    BY ThreadsAssumption DEF Init
  <1>2. ThreadInv /\ ~paused /\ pause_lock = "free" /\ wpc = [w \in Workers |-> "free"]
    BY InitThreadInv DEF Init
  <1> QED
    BY <1>1, <1>2 DEF PauseInv, PauseGateOwned

\* Everybody but the controllers leaves gate and commands alone.
Elsewhere ==
    /\ UNCHANGED gates
    /\ \A c \in Controllers : at'[c] = at[c]
    /\ cfg_lock' = cfg_lock \/ cfg_lock = None
    /\ \A w \in Workers : wpc'[w] = "held" => wpc[w] = "held"

LEMMA ElsewherePauseInv ==
    ASSUME PauseInv, ThreadInv', Elsewhere
    PROVE  PauseInv'
  <1>1. None \notin Controllers
    BY ThreadsAssumption
  <1> QED
    BY <1>1 DEF PauseInv, PauseGateOwned, Elsewhere, gates

LEMMA CallElsewhere ==
    ASSUME ThreadInv, NEW t \in Threads, Call(t)
    PROVE  Elsewhere
  <1>1. CASE StartCall(t)
    BY <1>1 DEF StartCall, StartWith, Elsewhere, ThreadInv, TypeOK
  <1>2. CASE StopCall(t)
    BY <1>2 DEF StopCall, StopWith, Elsewhere
  <1>3. CASE StopJoined(t)
    BY <1>3 DEF StopJoined, Elsewhere, ThreadInv, TypeOK
  <1>4. CASE RestartCall(t)
    BY <1>4 DEF RestartCall, Elsewhere
  <1>5. CASE RestartJoined(t)
    BY <1>5 DEF RestartJoined, RestartWith, Elsewhere, ThreadInv, TypeOK
  <1> QED
    BY <1>1, <1>2, <1>3, <1>4, <1>5 DEF Call

LEMMA ScriptsElsewhere ==
    ASSUME ThreadInv,
           \/ MainStep \/ MainTerminate \/ WdStep
           \/ \E v \in Viewers : ViewerEnter(v) \/ ViewerLeave(v)
    PROVE  Elsewhere
  <1> USE DEF Step, Goto, Elsewhere
  <1>0. at \in [Threads -> ThreadStates]
    BY DEF ThreadInv, TypeOK
  <1>1. CASE MainStep \/ MainTerminate
    BY <1>0, <1>1, ThreadsAssumption
       DEF MainStep, MainStartup, MainTerminate, MainLock, MainAnnounce, MainStop,
           MainDelete, MainDone
  <1>2. CASE WdStep
    BY <1>0, <1>2, ThreadsAssumption
       DEF WdStep, WdStart, WdLoop, WdTest, WdProbe, WdRestart, WdRelock, WdStop
  <1>3. CASE \E v \in Viewers : ViewerEnter(v) \/ ViewerLeave(v)
    BY <1>0, <1>3, ThreadsAssumption DEF ViewerEnter, ViewerLeave
  <1> QED
    BY <1>1, <1>2, <1>3

\* A worker is in the gate only with the lock.
LEMMA WorkerPauseInv ==
    ASSUME PauseInv, NEW w \in Workers, Worker(w)
    PROVE  PauseInv'
  <1>0. ThreadInv' /\ wpc \in [Workers -> WorkerStates]
    BY WorkerThreadInv DEF PauseInv, ThreadInv, TypeOK
  <1>1. CASE WorkerLoop(w) \/ WorkerWork(w) \/ WorkerEnd(w)
    BY <1>0, <1>1, ElsewherePauseInv
       DEF WorkerLoop, WorkerWork, WorkerEnd, WorkerMove, Elsewhere
  <1>2. CASE WorkerGate(w)
    BY <1>0, <1>2 DEF WorkerGate, WorkerMove, PauseInv, PauseGateOwned
  <1>3. CASE WorkerGateLeave(w)
    <2>1. pause_lock = "worker" /\ pause_lock' = "free" /\ UNCHANGED <<paused, at, cfg_lock>>
      BY <1>3 DEF WorkerGateLeave, WorkerMove, PauseInv
    <2>2. \A x \in Workers : wpc'[x] # "held"
      BY <1>0, <1>3
         DEF WorkerGateLeave, WorkerMove, PauseInv, ThreadInv, OneThreadPerModule
    <2> QED
      BY <1>0, <2>1, <2>2 DEF PauseInv, PauseGateOwned
  <1> QED
    BY <1>1, <1>2, <1>3 DEF Worker

LEMMA ControllerPauseInv ==
    ASSUME PauseInv, NEW c \in Controllers, ControllerTake(c) \/ Command(c)
    PROVE  PauseInv'
  <1>0. /\ ThreadInv' /\ wpc' = wpc /\ at \in [Threads -> ThreadStates]
        /\ None \notin Controllers
    <2>1. TypeOK
      BY DEF PauseInv, ThreadInv
    <2>2. ScriptStep(c)
      BY <2>1, ControllerIsScript
    <2> QED
      BY <2>1, <2>2, ScriptStepThreadInv, ThreadsAssumption DEF PauseInv, ScriptStep, TypeOK
  <1> USE <1>0 DEF PauseInv, PauseGateOwned, Step, Goto, gates
  <1>1. CASE ControllerTake(c)
    <2>1. PICK cmd \in Commands : at[c] = "idle" /\ at' = [at EXCEPT ![c] = cmd]
      BY <1>1 DEF ControllerTake
    <2>2. cmd \notin {"setpaused", "unlock", "unpausing"}
      BY ConfigAssumption
    <2>3. cfg_lock = None /\ cfg_lock' = c /\ UNCHANGED <<paused, pause_lock>>
      BY <1>1 DEF ControllerTake
    <2> QED
      BY <2>1, <2>2, <2>3
  <1>2. CASE Command(c)
    <2>1. at[c] # "idle" /\ cfg_lock = c
      BY <1>2 DEF Command, CommandStartStop, CommandStopped, CommandIsRunning,
                  CommandTestPaused, CommandTryLock, CommandSetPaused, CommandUnlock,
                  ControllerReply
    <2>2. \A d \in Controllers \ {c} : at[d] = "idle" /\ at'[d] = "idle"
      <3>1. \A d \in Controllers \ {c} : at[d] = "idle"
        BY <2>1
      <3>2. \A d \in Controllers \ {c} : at'[d] = at[d]
        BY <1>2 DEF Command, CommandStartStop, CommandStopped, CommandIsRunning,
                    CommandTestPaused, CommandTryLock, CommandSetPaused, CommandUnlock,
                    ControllerReply
      <3> QED
        BY <3>1, <3>2
    <2>3. CASE CommandStartStop(c)
      BY <2>1, <2>2, <2>3 DEF CommandStartStop
    <2>4. CASE CommandStopped(c) \/ CommandIsRunning(c)
      BY <2>1, <2>2, <2>4 DEF CommandStopped, CommandIsRunning
    <2>5. CASE CommandTestPaused(c)
      BY <2>1, <2>2, <2>5 DEF CommandTestPaused
    <2>6. CASE CommandTryLock(c)
      BY <2>1, <2>2, <2>6 DEF CommandTryLock
    <2>7. CASE CommandSetPaused(c)
      BY <2>1, <2>2, <2>7 DEF CommandSetPaused
    <2>8. CASE CommandUnlock(c)
      BY <2>1, <2>2, <2>8 DEF CommandUnlock
    <2>9. CASE ControllerReply(c)
      BY <2>1, <2>2, <2>9 DEF ControllerReply
    <2> QED
      BY <1>2, <2>3, <2>4, <2>5, <2>6, <2>7, <2>8, <2>9 DEF Command
  <1> QED
    BY <1>1, <1>2

LEMMA NextPauseInv == PauseInv /\ [Next]_vars => PauseInv'
  <1> SUFFICES ASSUME PauseInv, [Next]_vars PROVE PauseInv'
    OBVIOUS
  <1>0. ThreadInv /\ ThreadInv'
    BY NextThreadInv DEF PauseInv
  <1>1. CASE \E t \in Threads : Call(t)
    BY <1>0, <1>1, CallElsewhere, ElsewherePauseInv
  <1>2. CASE \E w \in Workers : Worker(w)
    BY <1>2, WorkerPauseInv
  <1>3. CASE \/ MainStep \/ MainTerminate \/ WdStep
             \/ \E v \in Viewers : ViewerEnter(v) \/ ViewerLeave(v)
    BY <1>0, <1>3, ScriptsElsewhere, ElsewherePauseInv
  <1>4. CASE \E c \in Controllers : ControllerTake(c) \/ Command(c)
    BY <1>4, ControllerPauseInv
  <1>5. CASE UNCHANGED vars
    BY <1>0, <1>5 DEF vars, PauseInv, PauseGateOwned
  <1> QED
    BY <1>1, <1>2, <1>3, <1>4, <1>5 DEF Next, Finished

(* The gate is a pause request's exactly while the module is paused or the *)
(* request is between its halves, for any number of controllers: nobody    *)
(* unlocks a gate that is free or that the thread of the module holds.     *)
THEOREM PauseGateOwnedHolds == Spec => []PauseGateOwned
  <1>1. PauseInv => PauseGateOwned
    BY DEF PauseInv
  <1> QED
    BY <1>1, InitPauseInv, NextPauseInv, PTL DEF Spec

-----------------------------------------------------------------------------
(* Lifecycle implements DemandService.                                     *)

\* A module without thread has no users, and a stop() that joins was called by
\* the last user of an on-demand module.
ServiceInv ==
    /\ ThreadInv
    /\ th_lock = None /\ th = None => user_count = 0
    /\ th_lock # None /\ call[th_lock] = "stop" => user_count = 0 /\ on_demand

LEMMA InitServiceInv == Init => ServiceInv
  BY InitThreadInv DEF Init, ServiceInv

\* What the implementation is seen as.
Promised == <<IF th_lock = None THEN user_count
              ELSE IF call[th_lock] = "restart" THEN saved ELSE user_count + 1,
              th # None, ~on_demand>>

LEMMA SeenAlike ==
    ASSUME UNCHANGED Promised
    PROVE  [Service!Next]_Service!vars
  BY DEF Service!vars, Promised

\* A call is an acquire, a release, or not seen.
LEMMA CallServes ==
    ASSUME ServiceInv, ThreadInv', NEW t \in Threads, Call(t)
    PROVE  ServiceInv' /\ [Service!Next]_Service!vars
  <1> USE DEF ServiceInv
  <1>0. /\ user_count \in Int /\ saved \in Int
        /\ call \in [Threads -> {"none", "start", "stop", "restart"}]
        /\ th \in Workers \cup {None} /\ th_lock \in Threads \cup {None}
        /\ None \notin Threads /\ None \notin Workers
        /\ on_demand \in BOOLEAN
    BY ThreadsAssumption DEF ThreadInv, TypeOK
  <1>1. CASE StartCall(t)
    <2>1. /\ th_lock = None /\ th_lock' = None /\ user_count' = user_count + 1
          /\ on_demand' = on_demand
      BY <1>1 DEF StartCall, StartWith, config
    <2>2. th' # None
      <3>1. CASE user_count = 0 /\ th = None
        BY <1>0, <1>1, <3>1 DEF StartCall, StartWith
      <3>2. CASE ~(user_count = 0 /\ th = None)
        BY <1>0, <1>1, <2>1, <3>2 DEF StartCall, StartWith
      <3> QED
        BY <3>1, <3>2
    <2>3. ServiceInv'
      BY <2>1, <2>2
    <2>4. Service!Acquire
      BY <2>1, <2>2 DEF Service!Acquire
    <2> QED
      BY <2>3, <2>4 DEF Service!Next
  <1>2. CASE StopCall(t)
    <2>1. /\ th_lock = None /\ call[t] = "stop" /\ on_demand' = on_demand
          /\ saved' = saved /\ th' = th
      BY <1>2 DEF StopCall, StopWith, config
    <2>2. CASE th = None
      <3>1. UNCHANGED <<user_count, th_lock>>
        BY <1>2, <2>2 DEF StopCall, StopWith
      <3>2. UNCHANGED Promised
        BY <2>1, <3>1 DEF Promised
      <3> QED
        BY <2>1, <3>1, <3>2, SeenAlike
    <2>3. CASE th # None /\ user_count = 1 /\ on_demand
      <3>1. user_count' = 0 /\ th_lock' = t /\ call' = call
        BY <1>2, <2>3 DEF StopCall, StopWith
      <3>2. UNCHANGED Promised
        BY <1>0, <2>1, <2>3, <3>1 DEF Promised
      <3> QED
        BY <2>1, <2>3, <3>1, <3>2, SeenAlike
    <2>4. CASE th # None /\ ~(user_count = 1 /\ on_demand)
      <3>1. user_count' = user_count - 1 /\ th_lock' = None
        BY <1>2, <2>1, <2>4 DEF StopCall, StopWith
      <3>2. ServiceInv'
        BY <2>1, <2>4, <3>1
      <3>3. Service!Release
        BY <1>0, <2>1, <2>4, <3>1 DEF Service!Release
      <3> QED
        BY <3>2, <3>3 DEF Service!Next
    <2> QED
      BY <2>2, <2>3, <2>4
  <1>3. CASE StopJoined(t)
    <2>1. /\ th_lock = t /\ call[t] = "stop" /\ th' = None /\ th_lock' = None
          /\ user_count' = user_count /\ on_demand' = on_demand
          /\ user_count = 0 /\ on_demand
      BY <1>0, <1>3 DEF StopJoined, config
    <2>2. th # None
      BY <1>0, <2>1 DEF ThreadInv, JoinKeepsStopFlag
    <2>3. ServiceInv'
      BY <2>1
    <2>4. Service!Release
      BY <1>0, <2>1, <2>2 DEF Service!Release
    <2> QED
      BY <2>3, <2>4 DEF Service!Next
  <1>4. CASE RestartCall(t)
    <2>1. th_lock = None /\ call[t] = "restart" /\ on_demand' = on_demand
      BY <1>4 DEF RestartCall, config
    <2>2. CASE th = None
      <3>1. UNCHANGED <<user_count, th_lock, th, saved>>
        BY <1>4, <2>2 DEF RestartCall, module
      <3>2. UNCHANGED Promised
        BY <2>1, <3>1 DEF Promised
      <3> QED
        BY <2>1, <3>1, <3>2, SeenAlike
    <2>3. CASE th # None
      <3>1. saved' = user_count /\ th_lock' = t /\ th' = th /\ call' = call
        BY <1>4, <2>3 DEF RestartCall, module
      <3>2. UNCHANGED Promised
        BY <1>0, <2>1, <3>1 DEF Promised
      <3> QED
        BY <1>0, <2>1, <3>1, <3>2, SeenAlike
    <2> QED
      BY <2>2, <2>3
  <1>5. CASE RestartJoined(t)
    <2>1. /\ th_lock = t /\ call[t] = "restart" /\ th_lock' = None
          /\ user_count' = saved /\ on_demand' = on_demand /\ th' # None
      BY <1>0, <1>5 DEF RestartJoined, RestartWith, config
    <2>2. th # None
      BY <1>0, <2>1 DEF ThreadInv, JoinKeepsStopFlag
    <2>3. UNCHANGED Promised
      BY <1>0, <2>1, <2>2 DEF Promised
    <2> QED
      BY <2>1, <2>3, SeenAlike
  <1> QED
    BY <1>1, <1>2, <1>3, <1>4, <1>5 DEF Call

\* The steps of a script are not seen, but for the announcement of the end.
LEMMA ScriptServes ==
    ASSUME ServiceInv, NEW t \in Threads, ScriptStep(t), on_demand => on_demand'
    PROVE  ServiceInv' /\ [Service!Next]_Service!vars
  <1>0. ThreadInv /\ ThreadInv'
    BY ScriptStepThreadInv DEF ServiceInv
  <1>1. /\ UNCHANGED <<th, th_lock, user_count, saved>>
        /\ on_demand \in BOOLEAN /\ on_demand' \in BOOLEAN
    BY <1>0 DEF ThreadInv, TypeOK, ScriptStep
  <1>2. th_lock # None => th_lock # t
    BY <1>0, IdleThreadsHoldNoLock DEF ScriptStep
  <1>3. th_lock # None => call'[th_lock] = call[th_lock]
    BY <1>0, <1>2 DEF ThreadInv, TypeOK, ScriptStep
  <1>4. ServiceInv'
    BY <1>0, <1>1, <1>3 DEF ServiceInv
  <1>5. CASE on_demand' = on_demand
    BY <1>1, <1>3, <1>4, <1>5, SeenAlike DEF Promised
  <1>6. CASE on_demand' # on_demand
    <2>1. ~on_demand /\ on_demand'
      BY <1>1, <1>6
    <2>2. Service!Retire
      BY <1>1, <1>3, <2>1 DEF Service!Retire
    <2> QED
      BY <1>4, <2>2 DEF Service!Next
  <1> QED
    BY <1>5, <1>6

LEMMA WorkerServes ==
    ASSUME ServiceInv, NEW w \in Workers, Worker(w)
    PROVE  ServiceInv' /\ [Service!Next]_Service!vars
  <1>1. ThreadInv'
    BY WorkerThreadInv DEF ServiceInv
  <1>2. UNCHANGED <<th, th_lock, user_count, saved, on_demand, call>>
    BY DEF Worker, WorkerLoop, WorkerGate, WorkerGateLeave, WorkerWork, WorkerEnd,
           module, config
  <1> QED
    BY <1>1, <1>2, SeenAlike DEF ServiceInv, Promised

LEMMA NextServes ==
    ServiceInv /\ [Next]_vars => ServiceInv' /\ [Service!Next]_Service!vars
  <1> SUFFICES ASSUME ServiceInv, [Next]_vars
               PROVE  ServiceInv' /\ [Service!Next]_Service!vars
    OBVIOUS
  <1>0. TypeOK /\ ThreadInv'
    BY NextThreadInv DEF ServiceInv, ThreadInv
  <1>1. CASE \E t \in Threads : Call(t)
    BY <1>0, <1>1, CallServes
  <1>2. CASE \E w \in Workers : Worker(w)
    BY <1>2, WorkerServes
  <1>3. CASE MainStep \/ MainTerminate
    BY <1>0, <1>3, MainIsScript, OnDemandStays, ScriptServes
  <1>4. CASE WdStep
    BY <1>0, <1>4, WatchdogIsScript, OnDemandStays, ScriptServes
  <1>5. CASE \E v \in Viewers : ViewerEnter(v) \/ ViewerLeave(v)
    BY <1>0, <1>5, ViewerIsScript, OnDemandStays, ScriptServes
  <1>6. CASE \E c \in Controllers : ControllerTake(c) \/ Command(c)
    BY <1>0, <1>6, ControllerIsScript, OnDemandStays, ScriptServes
  <1>7. CASE UNCHANGED vars
    BY <1>0, <1>7, SeenAlike DEF vars, ServiceInv, Promised
  <1> QED
    BY <1>1, <1>2, <1>3, <1>4, <1>5, <1>6, <1>7 DEF Next, Finished

(* Behind its locks, joins and restarts a module is a service with a       *)
(* demand: it serves from the first acquire on, until the last release or, *)
(* if it is kept running, until the program ends.                          *)
THEOREM LifecycleServes == Spec => ServiceSpec
  <1>1. Init => Service!Init
    <2> SUFFICES ASSUME Init PROVE Service!Init
      OBVIOUS
    <2>1. user_count = 0 /\ th = None /\ th_lock = None /\ on_demand \in BOOLEAN
      BY InitServiceInv DEF Init, ServiceInv, ThreadInv, TypeOK
    <2> QED
      BY <2>1 DEF Service!Init
  <1> QED
    BY <1>1, InitServiceInv, NextServes, PTL DEF Spec, ServiceSpec, Service!Spec

-----------------------------------------------------------------------------
(* The users of a module that no operator starts or stops.                 *)

\* What a thread can call, by its place in its own code, before termination.
UsersPlaces ==
    /\ \A c \in Controllers :
          /\ call[c] = "none"
          /\ at[c] \in {"idle", "list", "pause", "unpause", "togglepause", "trylock",
                        "setpaused", "unpausing", "unlock", "reply"}
    /\ \A v \in Viewers : \/ at[v] = "in" /\ call[v] \in {"none", "start"}
                          \/ at[v] = "out" /\ call[v] \in {"none", "stop"}
    /\ \/ call[Main] = "none"
       \/ call[Main] = "start" /\ at[Main] = "run" /\ ~on_demand
    /\ \/ at[Watchdog] \in {"init", "ended", "test", "probe", "restart"}
             /\ call[Watchdog] = "none"
       \/ at[Watchdog] = "loop" /\ call[Watchdog] \in {"none", "start"}
       \/ at[Watchdog] = "relock" /\ call[Watchdog] \in {"none", "restart"}

Demand == IF th_lock = None THEN user_count
          ELSE IF call[th_lock] = "restart" THEN saved ELSE user_count + 1

\* The count, as it will be after a join, is the number of users; while there
\* are some, the thread is there and was not told to stop.
UsersCounted ==
    /\ Demand = Cardinality(Users)
    /\ th_lock = None /\ th = None => user_count = 0
    /\ th_lock = None /\ user_count >= 1 => ~local_stop_flag
    /\ th_lock # None /\ call[th_lock] = "stop" => user_count = 0 /\ th_lock \in Users

UserInv == ThreadInv /\ (Unannounced => UsersPlaces /\ UsersCounted)

\* One thread as a user.
Using(t) ==
    \/ /\ t \in Viewers
       /\ \/ at[t] = "in" /\ call[t] = "none"
          \/ at[t] = "out" /\ call[t] = "stop"
    \/ /\ t = Main
       /\ at[t] \in {"run", "lock", "announce"} /\ call[t] = "none" /\ ~on_demand
    \/ /\ t = Watchdog
       /\ at[t] \notin {"init", "ended"} /\ call[t] # "start"

LEMMA UsersAreThreads == Users \subseteq Threads /\ \A t \in Threads : t \in Users <=> Using(t)
  <1>1. Users \subseteq Threads
    BY DEF Users
  <1>2. ASSUME NEW t \in Threads PROVE t \in Users <=> Using(t)
    BY Zenon DEF Users, Using
  <1> QED
    BY <1>1, <1>2

LEMMA UsersFinite == IsFiniteSet(Viewers) => IsFiniteSet(Users) /\ Cardinality(Users) \in Nat
  <1> SUFFICES ASSUME IsFiniteSet(Viewers)
               PROVE  IsFiniteSet(Users) /\ Cardinality(Users) \in Nat
    OBVIOUS
  <1>1. IsFiniteSet((Viewers \cup {Main}) \cup {Watchdog})
    BY FS_AddElement
  <1>2. Users \in SUBSET ((Viewers \cup {Main}) \cup {Watchdog})
    BY DEF Users
  <1>3. IsFiniteSet(Users)
    BY <1>1, <1>2, FS_Subset
  <1> QED
    BY <1>3, FS_CardinalityType

\* Two users are more than one.
LEMMA TwoUsers ==
    ASSUME IsFiniteSet(Viewers), NEW t \in Users, NEW u \in Users, t # u
    PROVE  Cardinality(Users) >= 2
  <1>1. IsFiniteSet(Users)
    BY UsersFinite
  <1>2. /\ IsFiniteSet(Users \ {t}) /\ Cardinality(Users \ {t}) = Cardinality(Users) - 1
    BY <1>1, FS_RemoveElement
  <1>3. Cardinality(Users \ {t}) # 0
    BY <1>2, FS_EmptySet
  <1>4. Cardinality(Users \ {t}) \in Nat /\ Cardinality(Users) \in Nat
    BY <1>1, <1>2, FS_CardinalityType
  <1> QED
    BY <1>2, <1>3, <1>4

LEMMA OneUser ==
    ASSUME IsFiniteSet(Viewers), NEW t \in Users
    PROVE  Cardinality(Users) >= 1
  <1>1. IsFiniteSet(Users) /\ Cardinality(Users) \in Nat
    BY UsersFinite
  <1>2. Cardinality(Users) # 0
    BY <1>1, FS_EmptySet
  <1> QED
    BY <1>1, <1>2

LEMMA UserInvInit ==
    ASSUME Init
    PROVE  UserInv
  <1>1. ThreadInv
    BY InitThreadInv
  <1>2. /\ call = [t \in Threads |-> "none"] /\ th_lock = None /\ user_count = 0
        /\ at[Main] = "startup"
        /\ at[Watchdog] \in {"init", "ended"}
        /\ \A v \in Viewers : at[v] = "out"
        /\ \A c \in Controllers : at[c] = "idle"
    BY ThreadsAssumption DEF Init
  <1>3. UsersPlaces
    BY <1>2 DEF UsersPlaces
  <1>4. Users = {}
    BY <1>2 DEF Users
  <1>5. UsersCounted
    BY <1>2, <1>4, FS_EmptySet DEF UsersCounted, Demand
  <1> QED
    BY <1>1, <1>3, <1>5 DEF UserInv

\* Who calls is a user or about to be one, and only its own part changes.
LEMMA CallUserInv ==
    ASSUME IsFiniteSet(Viewers), UserInv, NEW t \in Threads, Call(t)
    PROVE  UserInv'
  <1>0. ThreadInv'
    BY StartCallThreadInv, StopCallThreadInv, StopJoinedThreadInv,
       RestartCallThreadInv, RestartJoinedThreadInv DEF Call, UserInv
  <1> SUFFICES ASSUME Unannounced' PROVE UsersPlaces' /\ UsersCounted'
    BY <1>0 DEF UserInv
  <1>1. at' = at /\ on_demand' = on_demand
    BY DEF Call, StartCall, StartWith, StopCall, StopWith, StopJoined, RestartCall,
           RestartJoined, RestartWith, config
  <1>2. Unannounced /\ UsersPlaces /\ UsersCounted /\ ThreadInv
    BY <1>1 DEF Unannounced, UserInv
  <1>3. /\ user_count \in Int /\ saved \in Int
        /\ call \in [Threads -> {"none", "start", "stop", "restart"}]
        /\ th \in Workers \cup {None} /\ th_lock \in Threads \cup {None}
        /\ None \notin Threads /\ None \notin Workers
        /\ Main # Watchdog /\ {Main, Watchdog} \cap (Viewers \cup Controllers) = {}
        /\ Viewers \cap Controllers = {}
    BY <1>2, ThreadsAssumption DEF ThreadInv, TypeOK
  <1>4. IsFiniteSet(Users) /\ Cardinality(Users) \in Nat
    BY UsersFinite
  <1>5. call[t] # "none" /\ t \notin Controllers
    BY <1>2 DEF Call, StartCall, StartWith, StopCall, StopWith, StopJoined, RestartCall,
                RestartJoined, RestartWith, UsersPlaces
  <1>6. CASE call' = call
    <2>1. Users' = Users /\ UsersPlaces'
      BY <1>1, <1>2, <1>6 DEF Users, UsersPlaces
    <2>2. CASE StopCall(t)
      <3>1. /\ th_lock = None /\ call[t] = "stop" /\ th_lock' = t /\ th # None
            /\ user_count = 1 /\ user_count' = 0
        BY <1>3, <1>6, <2>2 DEF StopCall, StopWith, Return
      <3>2. t \in Users
        BY <1>2, <1>3, <1>5, <3>1 DEF UsersPlaces, Users
      <3> QED
        BY <1>2, <1>3, <1>6, <2>1, <3>1, <3>2 DEF UsersCounted, Demand
    <2>3. CASE RestartCall(t)
      <3>1. /\ th_lock = None /\ call[t] = "restart" /\ th_lock' = t
            /\ saved' = user_count
        BY <1>3, <1>6, <2>3 DEF RestartCall, Return, module
      <3> QED
        BY <1>2, <1>3, <1>6, <2>1, <3>1 DEF UsersCounted, Demand
    <2>4. ~StartCall(t) /\ ~StopJoined(t) /\ ~RestartJoined(t)
      BY <1>3, <1>5, <1>6 DEF StartCall, StartWith, StopJoined, RestartJoined, RestartWith, Return
    <2> QED
      BY <2>1, <2>2, <2>3, <2>4 DEF Call
  <1>7. CASE call' = [call EXCEPT ![t] = "none"]
    <2>1. UsersPlaces'
      BY <1>1, <1>2, <1>3, <1>5, <1>7 DEF UsersPlaces
    <2>2. \A u \in Threads \ {t} : Using(u)' <=> Using(u)
      BY <1>1, <1>3, <1>7 DEF Using
    <2>3. Users' \subseteq Threads /\ \A u \in Threads : u \in Users' <=> Using(u)'
      <3>1. Users' \subseteq Threads
        BY DEF Users
      <3>2. ASSUME NEW u \in Threads PROVE u \in Users' <=> Using(u)'
        BY Zenon DEF Users, Using
      <3> QED
        BY <3>1, <3>2
    <2>4. CASE StartCall(t)
      <3>1. /\ th_lock = None /\ th_lock' = None /\ call[t] = "start"
            /\ user_count' = user_count + 1
            /\ local_stop_flag' = (local_stop_flag /\ user_count # 0)
        BY <2>4 DEF StartCall, StartWith
      <3>2. t \notin Users /\ Using(t)'
        BY <1>1, <1>2, <1>3, <1>5, <1>7, <3>1 DEF UsersPlaces, Users, Using, Unannounced
      <3>3. Users' = Users \cup {t}
        BY <2>2, <2>3, <3>2, UsersAreThreads
      <3>4. Cardinality(Users') = Cardinality(Users) + 1
        BY <1>4, <3>2, <3>3, FS_AddElement
      <3>5. user_count = Cardinality(Users)
        BY <1>2, <3>1 DEF UsersCounted, Demand
      <3>6. Demand' = Cardinality(Users')
        BY <3>1, <3>4, <3>5 DEF Demand
      <3>7. th' # None \/ user_count' = 0
        BY <1>2, <1>3, <2>4, <3>1 DEF StartCall, StartWith, UsersCounted
      <3>8. ~local_stop_flag'
        <4>1. CASE user_count = 0
          BY <3>1, <4>1
        <4>2. CASE user_count # 0
          <5>1. user_count >= 1
            BY <1>4, <3>5, <4>2
          <5>2. ~local_stop_flag
            BY <1>2, <3>1, <5>1 DEF UsersCounted
          <5> QED
            BY <3>1, <5>2
        <4> QED
          BY <4>1, <4>2
      <3> QED
        BY <2>1, <3>1, <3>6, <3>7, <3>8 DEF UsersCounted
    <2>5. CASE StopCall(t)
      <3>1. th_lock = None /\ call[t] = "stop"
        BY <2>5 DEF StopCall, StopWith
      <3>2. t \in Users /\ ~Using(t)'
        BY <1>1, <1>2, <1>3, <1>5, <1>7, <3>1 DEF UsersPlaces, Users, Using
      <3>3. user_count = Cardinality(Users) /\ user_count >= 1 /\ th # None /\ ~local_stop_flag
        BY <1>2, <3>1, <3>2, OneUser DEF UsersCounted, Demand
      <3>4. /\ user_count' = user_count - 1 /\ th_lock' = None /\ th' = th
            /\ ~local_stop_flag'
        BY <1>3, <1>7, <2>5, <3>1, <3>3 DEF StopCall, StopWith
      <3>5. Users' = Users \ {t}
        BY <2>2, <2>3, <3>2, UsersAreThreads
      <3>6. Cardinality(Users') = Cardinality(Users) - 1
        BY <1>4, <3>2, <3>5, FS_RemoveElement
      <3>7. Demand' = Cardinality(Users')
        BY <3>3, <3>4, <3>6 DEF Demand
      <3> QED
        BY <2>1, <3>3, <3>4, <3>7 DEF UsersCounted
    <2>6. CASE StopJoined(t)
      <3>1. /\ th_lock = t /\ call[t] = "stop" /\ th_lock' = None
            /\ user_count' = user_count
        BY <2>6 DEF StopJoined
      <3>2. user_count = 0 /\ t \in Users /\ Cardinality(Users) = 1
        BY <1>2, <1>3, <3>1 DEF UsersCounted, Demand
      <3>3. ~Using(t)'
        BY <1>1, <1>2, <1>3, <1>5, <1>7, <3>1 DEF UsersPlaces, Using
      <3>4. Users' = Users \ {t}
        BY <2>2, <2>3, <3>3, UsersAreThreads
      <3>5. Cardinality(Users') = 0
        <4>1. Cardinality(Users \ {t}) = Cardinality(Users) - 1
          BY <1>4, <3>2, FS_RemoveElement
        <4> QED
          BY <3>2, <3>4, <4>1
      <3> QED
        BY <2>1, <3>1, <3>2, <3>5 DEF UsersCounted, Demand
    <2>7. CASE RestartCall(t)
      <3>1. /\ th_lock = None /\ th_lock' = None /\ call[t] = "restart"
            /\ UNCHANGED <<th, user_count, local_stop_flag>>
        BY <1>3, <1>5, <1>7, <2>7 DEF RestartCall, module
      <3>2. t = Watchdog /\ Using(t) /\ Using(t)'
        BY <1>1, <1>2, <1>3, <1>5, <1>7, <3>1 DEF UsersPlaces, Using
      <3>3. Users' = Users
        BY <2>2, <2>3, <3>2, UsersAreThreads
      <3> QED
        BY <1>2, <2>1, <3>1, <3>3 DEF UsersCounted, Demand
    <2>8. CASE RestartJoined(t)
      <3>1. /\ th_lock = t /\ th_lock' = None /\ call[t] = "restart"
            /\ user_count' = saved /\ th' # None /\ ~local_stop_flag'
        BY <1>3, <2>8 DEF RestartJoined, RestartWith
      <3>2. t = Watchdog /\ Using(t) /\ Using(t)'
        BY <1>1, <1>2, <1>3, <1>5, <1>7, <3>1 DEF UsersPlaces, Using
      <3>3. Users' = Users
        BY <2>2, <2>3, <3>2, UsersAreThreads
      <3> QED
        BY <1>2, <1>3, <2>1, <3>1, <3>3 DEF UsersCounted, Demand
    <2> QED
      BY <2>4, <2>5, <2>6, <2>7, <2>8 DEF Call
  <1>8. call' = call \/ call' = [call EXCEPT ![t] = "none"]
    BY DEF Call, StartCall, StartWith, StopCall, StopWith, StopJoined, RestartCall,
           RestartJoined, RestartWith, Return
  <1> QED
    BY <1>6, <1>7, <1>8

\* A step that keeps the users, the count and the joins.
LEMMA SameUsers ==
    ASSUME UserInv, NEW t \in Threads, ScriptStep(t),
           Unannounced' => /\ Unannounced /\ UNCHANGED local_stop_flag
                           /\ UsersPlaces' /\ Users' = Users
    PROVE  UserInv'
  <1>0. ThreadInv /\ ThreadInv'
    BY ScriptStepThreadInv DEF UserInv
  <1> SUFFICES ASSUME Unannounced' PROVE UsersPlaces' /\ UsersCounted'
    BY <1>0 DEF UserInv
  <1>1. UNCHANGED <<th, th_lock, user_count, saved>>
    BY DEF ScriptStep
  <1>2. th_lock # None => th_lock # t
    BY <1>0, IdleThreadsHoldNoLock DEF ScriptStep
  <1>3. th_lock # None => call'[th_lock] = call[th_lock]
    BY <1>0, <1>2 DEF ThreadInv, TypeOK, ScriptStep
  <1> QED
    BY <1>1, <1>3 DEF UserInv, UsersCounted, Demand

LEMMA UsersAlike ==
    ASSUME \A t \in Threads : Using(t)' <=> Using(t)
    PROVE  Users' = Users
  <1>1. Users' \subseteq Threads
    BY DEF Users
  <1>2. ASSUME NEW u \in Threads PROVE u \in Users' <=> Using(u)'
    BY Zenon DEF Users, Using
  <1> QED
    BY <1>1, <1>2, UsersAreThreads

LEMMA MainUserInv ==
    ASSUME UserInv, MainStep \/ MainTerminate
    PROVE  UserInv'
  <1>0. /\ at \in [Threads -> ThreadStates]
        /\ call \in [Threads -> {"none", "start", "stop", "restart"}]
        /\ Main # Watchdog /\ {Main, Watchdog} \cap (Viewers \cup Controllers) = {}
    BY ThreadsAssumption DEF UserInv, ThreadInv, TypeOK
  <1>1. ScriptStep(Main)
    BY MainIsScript DEF UserInv, ThreadInv
  <1> SUFFICES ASSUME Unannounced'
               PROVE  /\ Unannounced /\ UNCHANGED local_stop_flag
                      /\ UsersPlaces' /\ Users' = Users
    BY <1>1, SameUsers
  <1>2. MainStartup \/ MainTerminate \/ MainLock
    BY <1>0 DEF MainStep, MainAnnounce, MainStop, MainDelete, MainDone, Step, Goto, Unannounced
  <1>3. /\ Unannounced /\ UNCHANGED <<local_stop_flag, on_demand>>
        /\ call[Main] = "none"
        /\ \/ at[Main] = "startup" /\ at' = [at EXCEPT ![Main] = "run"]
              /\ call' = IF on_demand THEN call ELSE [call EXCEPT ![Main] = "start"]
           \/ at[Main] = "run" /\ at' = [at EXCEPT ![Main] = "lock"] /\ call' = call
           \/ at[Main] = "lock" /\ at' = [at EXCEPT ![Main] = "announce"] /\ call' = call
    BY <1>2 DEF MainStartup, MainTerminate, MainLock, Step, Goto, Invoke, Unannounced, config
  <1>4. UsersPlaces
    BY <1>3 DEF UserInv
  <1>5. UsersPlaces'
    BY <1>0, <1>3, <1>4 DEF UsersPlaces
  <1>6. \A t \in Threads \ {Main} : Using(t)' <=> Using(t)
    BY <1>0, <1>3 DEF Using
  <1>7. Using(Main)' <=> Using(Main)
    BY <1>0, <1>3 DEF Using
  <1> QED
    BY <1>3, <1>5, <1>6, <1>7, UsersAlike

\* The watchdog does not see a stop flag: it uses the source itself.
LEMMA WatchdogUserInv ==
    ASSUME IsFiniteSet(Viewers), UserInv, WdStep
    PROVE  UserInv'
  <1>0. /\ at \in [Threads -> ThreadStates]
        /\ call \in [Threads -> {"none", "start", "stop", "restart"}]
        /\ Main # Watchdog /\ {Main, Watchdog} \cap (Viewers \cup Controllers) = {}
        /\ th_lock \in Threads \cup {None} /\ user_count \in Int
    BY ThreadsAssumption DEF UserInv, ThreadInv, TypeOK
  <1>1. ScriptStep(Watchdog)
    BY WatchdogIsScript DEF UserInv, ThreadInv
  <1>2. call[Watchdog] = "none" /\ UNCHANGED <<local_stop_flag, on_demand>>
    BY DEF WdStep, WdStart, WdLoop, WdTest, WdProbe, WdRestart, WdRelock, WdStop, Step, config
  <1> SUFFICES ASSUME Unannounced'
               PROVE  /\ Unannounced /\ UNCHANGED local_stop_flag
                      /\ UsersPlaces' /\ Users' = Users
    BY <1>1, SameUsers
  <1>3. \A t \in Threads \ {Watchdog} : at'[t] = at[t] /\ call'[t] = call[t]
    BY <1>0 DEF WdStep, WdStart, WdLoop, WdTest, WdProbe, WdRestart, WdRelock, WdStop,
                Step, Goto, Invoke
  <1>4. Unannounced /\ UsersPlaces /\ UsersCounted
    BY <1>0, <1>3 DEF Unannounced, UserInv
  <1>5. ASSUME at[Watchdog] = "loop" PROVE ~local_stop_flag
    <2>1. Watchdog \in Users
      BY <1>2, <1>5 DEF Users
    <2>2. CASE th_lock = None
      <3>1. user_count = Cardinality(Users)
        BY <1>4, <2>2 DEF UsersCounted, Demand
      <3>2. user_count >= 1
        BY <2>1, <3>1, OneUser
      <3> QED
        BY <1>4, <2>2, <3>2 DEF UsersCounted
    <2>3. CASE th_lock # None
      <3>1. call[th_lock] \in {"stop", "restart"} /\ th_lock # Watchdog
        BY <1>2, <2>3 DEF UserInv, ThreadInv, JoinKeepsStopFlag
      <3>2. call[th_lock] = "stop"
        BY <1>0, <1>4, <2>3, <3>1 DEF UsersPlaces
      <3>3. user_count = 0 /\ th_lock \in Users /\ Cardinality(Users) = user_count + 1
        BY <1>4, <2>3, <3>2 DEF UsersCounted, Demand
      <3>4. Cardinality(Users) >= 2
        BY <2>1, <3>1, <3>3, TwoUsers
      <3> QED
        BY <3>3, <3>4
    <2> QED
      BY <2>2, <2>3
  <1>6. \/ at[Watchdog] = "init" /\ at'[Watchdog] = "loop" /\ call'[Watchdog] = "start"
        \/ /\ at[Watchdog] \in {"loop", "test", "probe", "relock"}
           /\ at'[Watchdog] \in {"loop", "test", "probe", "restart"}
           /\ call'[Watchdog] = "none"
        \/ at[Watchdog] = "restart" /\ at'[Watchdog] = "relock" /\ call'[Watchdog] = "restart"
    <2>1. CASE WdStart
      BY <1>0, <2>1 DEF WdStart, Step, Goto, Invoke
    <2>2. CASE WdLoop
      BY <1>0, <1>5, <2>2 DEF WdLoop, Step, Goto
    <2>3. CASE WdTest \/ WdProbe \/ WdRelock
      BY <1>0, <2>3 DEF WdTest, WdProbe, WdRelock, Step, Goto
    <2>4. CASE WdRestart
      BY <1>0, <2>4 DEF WdRestart, Step, Goto, Invoke
    <2>5. ~WdStop
      BY <1>4 DEF WdStop, Step, UsersPlaces
    <2> QED
      BY <2>1, <2>2, <2>3, <2>4, <2>5 DEF WdStep
  <1>7. UsersPlaces'
    BY <1>0, <1>2, <1>3, <1>4, <1>6 DEF UsersPlaces
  <1>8. \A t \in Threads \ {Watchdog} : Using(t)' <=> Using(t)
    BY <1>0, <1>2, <1>3 DEF Using
  <1>9. Using(Watchdog)' <=> Using(Watchdog)
    BY <1>0, <1>2, <1>6 DEF Using
  <1> QED
    BY <1>2, <1>4, <1>7, <1>8, <1>9, UsersAlike

LEMMA ViewerUserInv ==
    ASSUME UserInv, NEW v \in Viewers, ViewerEnter(v) \/ ViewerLeave(v)
    PROVE  UserInv'
  <1>0. /\ at \in [Threads -> ThreadStates]
        /\ call \in [Threads -> {"none", "start", "stop", "restart"}]
        /\ {Main, Watchdog} \cap (Viewers \cup Controllers) = {}
        /\ Viewers \cap Controllers = {}
    BY ThreadsAssumption DEF UserInv, ThreadInv, TypeOK
  <1>1. ScriptStep(v)
    BY ViewerIsScript DEF UserInv, ThreadInv
  <1>2. /\ UNCHANGED <<local_stop_flag, on_demand>> /\ call[v] = "none"
        /\ \/ /\ at[v] = "out" /\ at' = [at EXCEPT ![v] = "in"]
              /\ call' = [call EXCEPT ![v] = "start"]
           \/ /\ at[v] = "in" /\ at' = [at EXCEPT ![v] = "out"]
              /\ call' = [call EXCEPT ![v] = "stop"]
    BY DEF ViewerEnter, ViewerLeave, Step, Goto, Invoke, config
  <1>3. at'[Main] = at[Main]
    BY <1>0, <1>2
  <1> SUFFICES ASSUME Unannounced'
               PROVE  /\ Unannounced /\ UNCHANGED local_stop_flag
                      /\ UsersPlaces' /\ Users' = Users
    BY <1>1, SameUsers
  <1>4. Unannounced /\ UsersPlaces
    BY <1>3 DEF Unannounced, UserInv
  <1>5. UsersPlaces'
    BY <1>0, <1>2, <1>4 DEF UsersPlaces
  <1>6. \A t \in Threads \ {v} : Using(t)' <=> Using(t)
    BY <1>0, <1>2 DEF Using
  <1>7. Using(v)' <=> Using(v)
    BY <1>0, <1>2 DEF Using
  <1> QED
    BY <1>2, <1>4, <1>5, <1>6, <1>7, UsersAlike

\* No command that is served starts or stops the module.
NoStarts == Commands \cap {"start", "stop", "toggle", "cycle"} = {}

LEMMA ControllerUserInv ==
    ASSUME NoStarts, UserInv, NEW c \in Controllers, ControllerTake(c) \/ Command(c)
    PROVE  UserInv'
  <1>0. /\ at \in [Threads -> ThreadStates]
        /\ call \in [Threads -> {"none", "start", "stop", "restart"}]
        /\ {Main, Watchdog} \cap (Viewers \cup Controllers) = {}
        /\ Viewers \cap Controllers = {}
    BY ThreadsAssumption DEF UserInv, ThreadInv, TypeOK
  <1>1. ScriptStep(c)
    BY ControllerIsScript DEF UserInv, ThreadInv
  <1>2. /\ UNCHANGED <<local_stop_flag, on_demand>>
        /\ \A t \in Threads \ {c} : at'[t] = at[t] /\ call'[t] = call[t]
    BY <1>0 DEF ControllerTake, Command, CommandStartStop, CommandStopped, CommandIsRunning,
                CommandTestPaused, CommandTryLock, CommandSetPaused, CommandUnlock,
                ControllerReply, Step, Goto, Invoke, config
  <1> SUFFICES ASSUME Unannounced'
               PROVE  /\ Unannounced /\ UNCHANGED local_stop_flag
                      /\ UsersPlaces' /\ Users' = Users
    BY <1>1, SameUsers
  <1>3. Unannounced /\ UsersPlaces
    BY <1>0, <1>2 DEF Unannounced, UserInv
  <1>4. /\ call'[c] = "none"
        /\ at'[c] \in {"idle", "list", "pause", "unpause", "togglepause", "trylock",
                       "setpaused", "unpausing", "unlock", "reply"}
    <2>1. CASE ControllerTake(c)
      <3>1. PICK cmd \in Commands : at' = [at EXCEPT ![c] = cmd]
        BY <2>1 DEF ControllerTake, Step, Goto
      <3>2. cmd \in {"list", "pause", "unpause", "togglepause"}
        BY ConfigAssumption DEF NoStarts
      <3> QED
        BY <1>0, <1>3, <2>1, <3>1, <3>2 DEF ControllerTake, UsersPlaces
    <2>2. CASE Command(c)
      BY <1>0, <1>3, <2>2
         DEF UsersPlaces, Command, CommandStartStop, CommandStopped, CommandIsRunning,
             CommandTestPaused, CommandTryLock, CommandSetPaused, CommandUnlock,
             ControllerReply, Step, Goto
    <2> QED
      BY <2>1, <2>2
  <1>5. UsersPlaces'
    BY <1>0, <1>2, <1>3, <1>4 DEF UsersPlaces
  <1>6. \A t \in Threads \ {c} : Using(t)' <=> Using(t)
    BY <1>0, <1>2 DEF Using
  <1>7. Using(c)' <=> Using(c)
    BY <1>0, ThreadsAssumption DEF Using
  <1> QED
    BY <1>2, <1>3, <1>5, <1>6, <1>7, UsersAlike

LEMMA NextUserInv ==
    ASSUME IsFiniteSet(Viewers), NoStarts, UserInv, [Next]_vars
    PROVE  UserInv'
  <1>0. ThreadInv'
    BY NextThreadInv DEF UserInv
  <1>1. CASE \E t \in Threads : Call(t)
    BY <1>1, CallUserInv
  <1>2. CASE (\E w \in Workers : Worker(w)) \/ UNCHANGED vars
    <2>1. UNCHANGED <<at, call, on_demand, user_count, saved, th, th_lock, local_stop_flag>>
      BY <1>2 DEF Worker, WorkerLoop, WorkerGate, WorkerGateLeave, WorkerWork, WorkerEnd,
                  module, config, vars
    <2> QED
      BY <1>0, <2>1 DEF UserInv, Unannounced, UsersPlaces, UsersCounted, Demand, Users
  <1>3. CASE MainStep \/ MainTerminate
    BY <1>3, MainUserInv
  <1>4. CASE WdStep
    BY <1>4, WatchdogUserInv
  <1>5. CASE \E v \in Viewers : ViewerEnter(v) \/ ViewerLeave(v)
    BY <1>5, ViewerUserInv
  <1>6. CASE \E c \in Controllers : ControllerTake(c) \/ Command(c)
    BY <1>6, ControllerUserInv
  <1> QED
    BY <1>1, <1>2, <1>3, <1>4, <1>5, <1>6 DEF Next, Finished

LEMMA UserInvImplies ==
    ASSUME IsFiniteSet(Viewers), UserInv
    PROVE  UsersInv
  <1> SUFFICES ASSUME Unannounced PROVE BalancedCount /\ ViewerKeepsModule
    BY DEF UsersInv
  <1>0. UsersPlaces /\ UsersCounted /\ th_lock \in Threads \cup {None}
        /\ None \notin Threads
    BY ThreadsAssumption DEF UserInv, ThreadInv, TypeOK
  <1>1. BalancedCount
    BY <1>0 DEF UsersCounted, Demand, BalancedCount
  <1>2. ASSUME NEW v \in Viewers, at[v] = "in", call[v] = "none"
        PROVE  th # None /\ (local_stop_flag => th_lock = Watchdog)
    <2>1. v \in Users
      BY <1>2 DEF Users
    <2>2. CASE th_lock = None
      <3>1. user_count = Cardinality(Users)
        BY <1>0, <2>2 DEF UsersCounted, Demand
      <3>2. user_count >= 1
        BY <2>1, <3>1, OneUser
      <3> QED
        BY <1>0, <2>2, <3>2 DEF UsersCounted
    <2>3. CASE th_lock # None
      <3>1. th # None /\ call[th_lock] \in {"stop", "restart"} /\ th_lock # v
        BY <1>2, <2>3 DEF UserInv, ThreadInv, JoinKeepsStopFlag
      <3>2. CASE call[th_lock] = "stop"
        <4>1. user_count = 0 /\ th_lock \in Users /\ Cardinality(Users) = user_count + 1
          BY <1>0, <2>3, <3>2 DEF UsersCounted, Demand
        <4>2. Cardinality(Users) >= 2
          BY <2>1, <3>1, <4>1, TwoUsers
        <4> QED
          BY <4>1, <4>2
      <3>3. CASE call[th_lock] = "restart"
        <4>1. th_lock = Watchdog
          BY <1>0, <2>3, <3>3 DEF UsersPlaces
        <4> QED
          BY <3>1, <4>1
      <3> QED
        BY <3>1, <3>2, <3>3
    <2> QED
      BY <2>2, <2>3
  <1> QED
    BY <1>1, <1>2 DEF ViewerKeepsModule

(* As long as no operator starts or stops it, the count of a module is the *)
(* number of threads that use it, for any number of viewers, and nobody    *)
(* ends it under a viewer but the watchdog, which replaces its thread.     *)
THEOREM UsersInvHolds ==
    ASSUME IsFiniteSet(Viewers), NoStarts
    PROVE  Spec => []UsersInv
  <1>1. Init => UserInv
    BY UserInvInit
  <1>2. UserInv /\ [Next]_vars => UserInv'
    BY NextUserInv
  <1>3. UserInv => UsersInv
    BY UserInvImplies
  <1> QED
    BY <1>1, <1>2, <1>3, PTL DEF Spec

=============================================================================
