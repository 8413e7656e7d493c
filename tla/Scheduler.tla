------------------------------ MODULE Scheduler ------------------------------
(***************************************************************************)
(* helper/scheduler/scheduler.go (PeriodicTask, Manager) under the use the *)
(* node controller makes of it: controller/cert_tasks.go, the two restart  *)
(* loops of apiMonitor and Controller.Close (controller/controller.go).    *)
(*                                                                         *)
(* apiMonitor runs in several goroutines at once: the "node" task executes *)
(* it, a restarted "node" task executes it again while the execution that  *)
(* restarted it is still under way, and the webhook loop calls it as well. *)
(* Each is an actor here.  Manager operations hold m.mu from begin to end; *)
(* RestartWithInterval does not hold it, and is three critical sections of *)
(* pt.mu.  A PeriodicTask's Periodic (Periodic.tla) is represented by the  *)
(* one flag its owner sets, because pt.running and t.running only change   *)
(* together (Start and Close hold pt.mu around both).                      *)
(***************************************************************************)
EXTENDS Naturals, Sequences, SequencesExt, FiniteSets

CONSTANTS
    Tasks,          \* PeriodicTask objects; the first Start lists NodeTask
    NodeTask,       \* the "node" task object, which Start creates
    Actors,         \* goroutines inside apiMonitor
    Intervals,      \* poll intervals the panel may send
    NoTask,         \* GetTask found nothing
    MaxReconciles   \* bound on apiMonitor calls

ASSUME TaskAssumption == NodeTask \in Tasks /\ NoTask \notin Tasks
ASSUME ReconcileAssumption == MaxReconciles \in Nat

VARIABLES
    list,       \* m.tasks
    tag,        \* each task's Tag, "none" before it is created
    taskRunning, \* pt.running
    interval,   \* Periodic.Interval
    nodeInfo,   \* c.nodeInfo: is a certificate task wanted, and the poll interval
    current,    \* c.currentPollInterval
    actorPc,    \* where each actor is
    held,       \* the *PeriodicTask an actor got from GetTask
    want,       \* the interval an actor is about to apply
    closer,     \* Controller.Close: the tasks CloseAll has yet to close
    closing,    \* "no", "loop" while CloseAll holds m.mu, "done"
    loopAlive,  \* webhookTriggerLoop has not returned
    reconciles, \* apiMonitor calls so far
    strays      \* history: tasks dropped from m.tasks while a restart held them

schedulerVars ==
    <<list, tag, taskRunning, interval, nodeInfo, current, actorPc, held, want,
      closer, closing, loopAlive, reconciles, strays>>

taskVars == <<list, tag, taskRunning, interval>>
closeVars == <<closer, closing, loopAlive>>

Listed == ToSet(list)
Unused == {t \in Tasks : tag[t] = "none"}

\* GetTask, RemoveTask and AddAndStart look for the first task that has the tag.
Positions(g) == {i \in DOMAIN list : tag[list[i]] = g}
First(g) == CHOOSE i \in Positions(g) : \A j \in Positions(g) : i <= j
Lookup(g) == IF Positions(g) = {} THEN NoTask ELSE list[First(g)]
Without(g) == IF Positions(g) = {} THEN list ELSE RemoveAt(list, First(g))

\* m.mu is free: only CloseAll keeps it over several steps.
MuFree == closing # "loop"

SchedulerInit ==
    /\ list = <<NodeTask>>
    /\ tag = [t \in Tasks |-> IF t = NodeTask THEN "node" ELSE "none"]
    /\ taskRunning = [t \in Tasks |-> t = NodeTask]
    /\ \E i \in Intervals :
         /\ interval = [t \in Tasks |-> i]
         /\ nodeInfo = [cert |-> FALSE, poll |-> i]
         /\ current = i
         /\ want = [a \in Actors |-> i]
    /\ actorPc = [a \in Actors |-> "idle"]
    /\ held = [a \in Actors |-> NoTask]
    /\ closer = {}
    /\ closing = "no"
    /\ loopAlive = TRUE
    /\ reconciles = 0
    /\ strays = {}

\* A task that some actor is between GetTask and Start of.
Restarting == {"certClose", "certSet", "certStart", "nodeClose", "nodeSet", "nodeStart"}
HeldForRestart(t) == \E a \in Actors : held[a] = t /\ actorPc[a] \in Restarting

-----------------------------------------------------------------------------
(***************************************************************************)
(* apiMonitor.  A call begins when the webhook loop or a running "node"    *)
(* task executes it; it has stored the node info the panel answered with.  *)
(***************************************************************************)
BeginMonitor(a) ==
    /\ actorPc[a] = "idle"
    /\ reconciles < MaxReconciles
    /\ loopAlive \/ taskRunning[NodeTask]
    /\ \E c \in BOOLEAN, i \in Intervals : nodeInfo' = [cert |-> c, poll |-> i]
    /\ actorPc' = [actorPc EXCEPT ![a] = "syncCert"]
    /\ reconciles' = reconciles + 1
    /\ UNCHANGED <<taskVars, current, held, want, closeVars, strays>>

\* syncTask: GetTask, and the branch its result selects.
SyncCert(a) ==
    /\ actorPc[a] = "syncCert"
    /\ MuFree
    /\ LET t == Lookup("cert") IN
         /\ held' = [held EXCEPT ![a] = t]
         /\ want' = [want EXCEPT ![a] = nodeInfo.poll]
         /\ actorPc' = [actorPc EXCEPT ![a] =
              IF ~nodeInfo.cert
                THEN IF t = NoTask THEN "node" ELSE "certRemove"
                ELSE IF t = NoTask THEN "certAdd"
                     ELSE IF interval[t] # nodeInfo.poll THEN "certClose" ELSE "node"]
    /\ UNCHANGED <<taskVars, nodeInfo, current, closeVars, reconciles, strays>>

(***************************************************************************)
(* Manager.RemoveTask: the task that has the tag now, closed and dropped.  *)
(***************************************************************************)
\* Mutant: the task is dropped and left running.
RemoveNoClose(a) ==
    /\ actorPc[a] = "certRemove"
    /\ MuFree
    /\ list' = Without("cert")
    /\ actorPc' = [actorPc EXCEPT ![a] = "node"]
    /\ UNCHANGED <<tag, taskRunning, interval, nodeInfo, current, held, want, closeVars,
                   reconciles, strays>>

RemoveTask(a) ==
    /\ actorPc[a] = "certRemove"
    /\ MuFree
    /\ LET old == Lookup("cert") IN
         /\ taskRunning' = [t \in Tasks |-> taskRunning[t] /\ t # old]
         /\ list' = Without("cert")
         /\ strays' = strays \cup {t \in {old} \cap Tasks : HeldForRestart(t)}
    /\ actorPc' = [actorPc EXCEPT ![a] = "node"]
    /\ UNCHANGED <<tag, interval, nodeInfo, current, held, want, closeVars, reconciles>>

(***************************************************************************)
(* Manager.AddAndStart: replaces the task that has the tag now.            *)
(***************************************************************************)
\* Mutant: a task that has the tag already stays.
AddWithoutReplacing(a) ==
    /\ actorPc[a] = "certAdd"
    /\ MuFree
    /\ \E n \in Unused :
         /\ tag' = [tag EXCEPT ![n] = "cert"]
         /\ interval' = [interval EXCEPT ![n] = want[a]]
         /\ taskRunning' = [taskRunning EXCEPT ![n] = TRUE]
         /\ list' = Append(list, n)
    /\ actorPc' = [actorPc EXCEPT ![a] = "node"]
    /\ UNCHANGED <<nodeInfo, current, held, want, closeVars, reconciles, strays>>

\* Mutant: the task is listed under no tag.
AddUntagged(a) ==
    /\ actorPc[a] = "certAdd"
    /\ MuFree
    /\ \E n \in Unused :
         /\ interval' = [interval EXCEPT ![n] = want[a]]
         /\ taskRunning' = [taskRunning EXCEPT ![n] = TRUE]
         /\ list' = Append(list, n)
    /\ actorPc' = [actorPc EXCEPT ![a] = "node"]
    /\ UNCHANGED <<tag, nodeInfo, current, held, want, closeVars, reconciles, strays>>

AddAndStart(a) ==
    /\ actorPc[a] = "certAdd"
    /\ MuFree
    /\ \E n \in Unused :
         LET old == Lookup("cert") IN
         /\ tag' = [tag EXCEPT ![n] = "cert"]
         /\ interval' = [interval EXCEPT ![n] = want[a]]
         /\ taskRunning' = [t \in Tasks |-> t = n \/ (taskRunning[t] /\ t # old)]
         /\ list' = Append(Without("cert"), n)
         /\ strays' = strays \cup {t \in {old} \cap Tasks : HeldForRestart(t)}
    /\ actorPc' = [actorPc EXCEPT ![a] = "node"]
    /\ UNCHANGED <<nodeInfo, current, held, want, closeVars, reconciles>>

(***************************************************************************)
(* RestartWithInterval(want) on the held task: Close, SetInterval, Start,  *)
(* each its own critical section.  "cert" and "node" are its two callers.  *)
(***************************************************************************)
RestartClose(a, at, next) ==
    /\ actorPc[a] = at
    /\ taskRunning' = [taskRunning EXCEPT ![held[a]] = FALSE]
    /\ actorPc' = [actorPc EXCEPT ![a] = next]
    /\ UNCHANGED <<list, tag, interval, nodeInfo, current, held, want, closeVars,
                   reconciles, strays>>

RestartSet(a, at, next) ==
    /\ actorPc[a] = at
    /\ interval' = [interval EXCEPT ![held[a]] = want[a]]
    /\ actorPc' = [actorPc EXCEPT ![a] = next]
    /\ UNCHANGED <<list, tag, taskRunning, nodeInfo, current, held, want, closeVars,
                   reconciles, strays>>

\* Mutant: the restart ends after SetInterval.
RestartNoStart(a, at, next) ==
    /\ actorPc[a] = at
    /\ actorPc' = [actorPc EXCEPT ![a] = next]
    /\ UNCHANGED <<taskVars, nodeInfo, current, held, want, closeVars, reconciles, strays>>

RestartStart(a, at, next) ==
    /\ actorPc[a] = at
    /\ taskRunning' = [taskRunning EXCEPT ![held[a]] = TRUE]
    /\ actorPc' = [actorPc EXCEPT ![a] = next]
    /\ UNCHANGED <<list, tag, interval, nodeInfo, current, held, want, closeVars,
                   reconciles, strays>>

\* The poll interval: compared with c.currentPollInterval, then GetTask("node").
CheckInterval(a) ==
    /\ actorPc[a] = "node"
    /\ want' = [want EXCEPT ![a] = nodeInfo.poll]
    /\ actorPc' = [actorPc EXCEPT ![a] = IF current = nodeInfo.poll THEN "idle" ELSE "nodeGet"]
    /\ UNCHANGED <<taskVars, nodeInfo, current, held, closeVars, reconciles, strays>>

GetNodeTask(a) ==
    /\ actorPc[a] = "nodeGet"
    /\ MuFree
    /\ held' = [held EXCEPT ![a] = Lookup("node")]
    /\ actorPc' = [actorPc EXCEPT ![a] = "nodeClose"]
    /\ UNCHANGED <<taskVars, nodeInfo, current, want, closeVars, reconciles, strays>>

StoreInterval(a) ==
    /\ actorPc[a] = "store"
    /\ current' = want[a]
    /\ held' = [held EXCEPT ![a] = NoTask]
    /\ actorPc' = [actorPc EXCEPT ![a] = "idle"]
    /\ UNCHANGED <<taskVars, nodeInfo, want, closeVars, reconciles, strays>>

-----------------------------------------------------------------------------
(***************************************************************************)
(* Controller.Close: triggerCancel, then CloseAll, which holds m.mu while  *)
(* it closes the tasks one by one.  It does not wait for any actor.        *)
(***************************************************************************)
CloseBegin ==
    /\ closing = "no"
    /\ closing' = "loop"
    /\ closer' = Listed
    /\ UNCHANGED <<taskVars, nodeInfo, current, actorPc, held, want, loopAlive, reconciles, strays>>

CloseOne ==
    /\ closing = "loop"
    /\ \E i \in DOMAIN list :
         /\ list[i] \in closer
         /\ \A j \in 1..(i - 1) : list[j] \notin closer
         /\ closer' = closer \ {list[i]}
         /\ taskRunning' = [taskRunning EXCEPT ![list[i]] = FALSE]
    /\ UNCHANGED <<list, tag, interval, nodeInfo, current, actorPc, held, want, closing,
                   loopAlive, reconciles, strays>>

CloseEnd ==
    /\ closing = "loop"
    /\ closer = {}
    /\ closing' = "done"
    /\ UNCHANGED <<taskVars, nodeInfo, current, actorPc, held, want, closer, loopAlive,
                   reconciles, strays>>

\* The webhook loop sees the cancelled context when its select picks that case.
LoopExit ==
    /\ closing # "no"
    /\ loopAlive
    /\ loopAlive' = FALSE
    /\ UNCHANGED <<taskVars, nodeInfo, current, actorPc, held, want, closer, closing,
                   reconciles, strays>>

Actor(a) ==
    \/ SyncCert(a) \/ RemoveTask(a) \/ AddAndStart(a)
    \/ RestartClose(a, "certClose", "certSet")
    \/ RestartSet(a, "certSet", "certStart")
    \/ RestartStart(a, "certStart", "node")
    \/ CheckInterval(a) \/ GetNodeTask(a)
    \/ RestartClose(a, "nodeClose", "nodeSet")
    \/ RestartSet(a, "nodeSet", "nodeStart")
    \/ RestartStart(a, "nodeStart", "store")
    \/ StoreInterval(a)

Closer == CloseBegin \/ CloseOne \/ CloseEnd \/ LoopExit

SchedulerNext == (\E a \in Actors : BeginMonitor(a) \/ Actor(a)) \/ Closer

SchedulerSpec == SchedulerInit /\ [][SchedulerNext]_schedulerVars

-----------------------------------------------------------------------------
(***************************************************************************)
(* Properties                                                              *)
(***************************************************************************)

SchedulerTypeOK ==
    /\ list \in Seq(Tasks)
    /\ tag \in [Tasks -> {"none", "node", "cert"}]
    /\ taskRunning \in [Tasks -> BOOLEAN]
    /\ interval \in [Tasks -> Intervals]
    /\ nodeInfo \in [cert : BOOLEAN, poll : Intervals]
    /\ current \in Intervals
    /\ held \in [Actors -> Tasks \cup {NoTask}]
    /\ want \in [Actors -> Intervals]
    /\ closer \subseteq Tasks
    /\ closing \in {"no", "loop", "done"}
    /\ strays \subseteq Tasks
    /\ \A t \in Listed : tag[t] # "none"

\* However many apiMonitor calls synchronise the certificate task at once,
\* m.tasks holds one task per tag: a task a second AddAndStart supersedes is
\* never left where GetTask would hide it behind the other (scheduler.go:171).
UniqueTags ==
    \A i, j \in DOMAIN list : tag[list[i]] = tag[list[j]] => i = j

\* Polling does not stop by accident: until Controller.Close, a listed task is
\* stopped only while a restart of it is under way, even when several
\* apiMonitor calls restart it with different intervals at once.
ListedTasksRun ==
    \A t \in Listed : closing = "no" /\ ~HeldForRestart(t) => taskRunning[t]

\* A task that left m.tasks can no longer be stopped by CloseAll, so it must
\* not be running; the one way it can be is a restart that already held the
\* pointer when the task was dropped.
UnlistedTasksStopped ==
    \A t \in Tasks \ Listed : taskRunning[t] => t \in strays

\* The three together: m.tasks and the tasks that run agree, whichever
\* apiMonitor calls add, remove and restart them at once (cert_tasks.go:51-66).
TasksFollowList == UniqueTags /\ ListedTasksRun /\ UnlistedTasksStopped

\* What "Stop controllers for nodes that are no longer in the list"
\* (server_poller.go:73) promises: once Close returned and every apiMonitor
\* call that was under way has ended, no task of the controller runs.
StoppedControllerIsQuiet ==
    closing = "done" /\ (\A a \in Actors : actorPc[a] = "idle")
        => \A t \in Tasks : ~taskRunning[t]
=============================================================================
