---------------------------- MODULE Tasks_proofs ----------------------------
(***************************************************************************)
(* Proofs about the tasks of a controller (helper/scheduler, controller):  *)
(* a Periodic keeps its one timer chain and implements Ticker.tla; the     *)
(* tasks that are listed and the tasks that run agree, for any number of   *)
(* apiMonitor calls that add, remove and restart them at once; and what    *)
(* the tasks and the webhook loop poll is lost only to named causes.       *)
(***************************************************************************)
EXTENDS Periodic, Scheduler, Polling, SequenceTheorems, TLAPS

-----------------------------------------------------------------------------
(***************************************************************************)
(* Periodic (helper/scheduler/periodic.go)                                 *)
(***************************************************************************)
Safe == Init /\ [][Next]_vars

(***************************************************************************)
(* The inductive invariant.  OneChainPerGen is not inductive alone: Start  *)
(* must know that no live call carries the generation it begins (GenBound),*)
(* Rearm that a pending timer would be a second chain (ClosedHasNoTimer),  *)
(* and a Check or Finish that drops a call, that the call was not the one  *)
(* a running Periodic lives on (NeverStalls).                              *)
(***************************************************************************)
GenBound == \A c \in Live : cgen[c] <= gen

StoppedIsOld == ~running => \A c \in Live : cgen[c] < gen

IInv ==
    /\ TypeOK
    /\ GenBound
    /\ StoppedIsOld
    /\ OneChainPerGen
    /\ NeverStalls
    /\ ClosedHasNoTimer

\* The initial states have no call at all.
LEMMA InitIInv == Init => IInv
<1> SUFFICES ASSUME Init PROVE IInv
  OBVIOUS
<1>1. TypeOK
  <2>1. 0 \in 0..MaxGen
    BY MaxGenAssumption
  <2>2. cgen \in [Calls -> 0..MaxGen]
    BY <2>1 DEF Init
  <2>3. pc \in [Calls -> {"free", "armed", "fired", "cleared", "exec"}]
    BY DEF Init
  <2> QED
    BY <2>1, <2>2, <2>3 DEF Init, TypeOK
<1>2. Live = {} /\ ~running /\ \A c \in Calls : pc[c] # "armed"
  BY DEF Init, Live
<1>3. GenBound /\ StoppedIsOld /\ OneChainPerGen /\ NeverStalls /\ ClosedHasNoTimer
  BY <1>2 DEF GenBound, StoppedIsOld, OneChainPerGen, NeverStalls, ClosedHasNoTimer
<1> QED
  BY <1>1, <1>3 DEF IInv

\* Start arms the only call of a generation no live call has.
LEMMA StartIInv == IInv /\ Start => IInv'
<1> SUFFICES ASSUME IInv, Start PROVE IInv'
  OBVIOUS
<1> USE MaxGenAssumption, NoCallAssumption
<1>1. PICK d \in Free :
         /\ timer' = d
         /\ pc' = [pc EXCEPT ![d] = "armed"]
         /\ cgen' = [cgen EXCEPT ![d] = gen + 1]
  BY DEF Start
<1>2. ~running /\ running' = TRUE /\ gen' = gen + 1 /\ gen < MaxGen
  BY DEF Start
<1>3. TypeOK'
  BY <1>1, <1>2 DEF IInv, TypeOK, Free
<1>4. /\ Live' = Live \cup {d} /\ d \notin Live /\ d \in Calls
      /\ cgen'[d] = gen + 1 /\ pc'[d] = "armed"
      /\ \A c \in Live : cgen'[c] = cgen[c] /\ pc'[c] = pc[c] /\ cgen[c] < gen
  BY <1>1, <1>2 DEF IInv, TypeOK, Free, Live, StoppedIsOld
<1>5. \A c \in Live : pc[c] # "armed"
  BY <1>2 DEF IInv, ClosedHasNoTimer, Live
<1>6. gen \in Nat /\ cgen \in [Calls -> Nat] /\ Live \subseteq Calls
  BY DEF IInv, TypeOK, Live
<1>7. GenBound' /\ StoppedIsOld'
  BY <1>2, <1>4, <1>6 DEF GenBound, StoppedIsOld
<1>8. OneChainPerGen'
  BY <1>2, <1>4, <1>6 DEF IInv, OneChainPerGen
<1>9. NeverStalls'
  BY <1>2, <1>4 DEF NeverStalls, Current
<1>10. ClosedHasNoTimer'
  <2> SUFFICES ASSUME NEW c \in Calls, pc'[c] = "armed"
               PROVE  running' /\ timer' = c /\ Current(c)'
    BY DEF ClosedHasNoTimer
  <2>1. c \in Live'
    BY DEF Live
  <2>2. c = d
    BY <2>1, <1>4, <1>5
  <2> QED
    BY <2>2, <1>1, <1>2, <1>4 DEF Current
<1> QED
  BY <1>3, <1>7, <1>8, <1>9, <1>10 DEF IInv

\* Close outdates every live call and stops the pending timer.
LEMMA CloseIInv == IInv /\ Close => IInv'
<1> SUFFICES ASSUME IInv, Close PROVE IInv'
  OBVIOUS
<1> USE MaxGenAssumption, NoCallAssumption
<1>1. /\ running' = FALSE /\ gen' = gen + 1 /\ gen < MaxGen
      /\ timer' = NoCall /\ cgen' = cgen
  BY DEF Close
<1>2. TypeOK'
  <2>1. pc' \in [Calls -> {"free", "armed", "fired", "cleared", "exec"}]
    BY DEF IInv, TypeOK, Close
  <2>2. gen' \in 0..MaxGen
    BY <1>1 DEF IInv, TypeOK
  <2> QED
    BY <1>1, <2>1, <2>2 DEF IInv, TypeOK
<1>3. /\ \A c \in Calls : pc'[c] \in {pc[c], "free"}
      /\ Live' \subseteq Live /\ Live \subseteq Calls
  BY DEF IInv, TypeOK, Close, Live
<1>4. gen \in Nat /\ cgen \in [Calls -> Nat]
  BY DEF IInv, TypeOK
<1>5. GenBound' /\ StoppedIsOld'
  BY <1>1, <1>3, <1>4 DEF IInv, GenBound, StoppedIsOld
<1>6. OneChainPerGen' /\ NeverStalls'
  BY <1>1, <1>3 DEF IInv, OneChainPerGen, NeverStalls
<1>7. ClosedHasNoTimer'
  <2> SUFFICES ASSUME NEW c \in Calls, pc'[c] = "armed" PROVE FALSE
    BY DEF ClosedHasNoTimer
  <2>1. pc[c] = "armed"
    BY <1>3
  <2>2. timer = c
    BY <2>1 DEF IInv, ClosedHasNoTimer
  <2> QED
    BY <2>1, <2>2 DEF Close, IInv, TypeOK
<1> QED
  BY <1>2, <1>5, <1>6, <1>7 DEF IInv

(***************************************************************************)
(* The steps of a call that arm nothing: it moves on, or ends when it is   *)
(* not what the Periodic lives on.                                         *)
(***************************************************************************)
LEMMA MoveIInv ==
  ASSUME IInv, NEW c \in Calls, pc[c] # "free",
         NEW s \in {"free", "fired", "cleared", "exec"},
         pc' = [pc EXCEPT ![c] = s],
         s = "free" => ~(running /\ Current(c)),
         UNCHANGED <<running, gen, timer, cgen>>
  PROVE  IInv'
<1>1. TypeOK'
  BY DEF IInv, TypeOK
<1>2. /\ Live' \subseteq Live /\ Live \subseteq Calls
      /\ \A d \in Live : d # c \/ s # "free" => d \in Live'
  BY DEF IInv, TypeOK, Live
<1>3. GenBound' /\ StoppedIsOld' /\ OneChainPerGen'
  BY <1>2 DEF IInv, GenBound, StoppedIsOld, OneChainPerGen
<1>4. NeverStalls'
  BY <1>2 DEF IInv, NeverStalls, Current
<1>5. ClosedHasNoTimer'
  BY DEF IInv, TypeOK, ClosedHasNoTimer, Current
<1> QED
  BY <1>1, <1>3, <1>4, <1>5 DEF IInv

\* Rearm replaces a current call by another of the same generation.
LEMMA RearmIInv == ASSUME IInv, NEW c \in Calls, Rearm(c) PROVE IInv'
<1>1. PICK d \in Free \cup {c} :
         /\ timer' = d
         /\ pc' = [[pc EXCEPT ![c] = "free"] EXCEPT ![d] = "armed"]
         /\ cgen' = [cgen EXCEPT ![d] = cgen[c]]
  BY DEF Rearm
<1>2. pc[c] = "exec" /\ running /\ cgen[c] = gen /\ running' = running /\ gen' = gen
  BY DEF Rearm, Current
<1>3. d \in Calls /\ c \in Live /\ Live \subseteq Calls
  BY <1>2 DEF Free, Live
<1>4. TypeOK'
  BY <1>1, <1>2, <1>3 DEF IInv, TypeOK
<1>5. /\ Live' = (Live \ {c}) \cup {d}
      /\ cgen'[d] = gen /\ pc'[d] = "armed"
      /\ \A e \in Live \ {c} : e # d /\ cgen'[e] = cgen[e] /\ pc'[e] = pc[e]
  BY <1>1, <1>2, <1>3 DEF IInv, TypeOK, Free, Live
<1>6. \A e \in Live \ {c} : cgen[e] # gen
  BY <1>2, <1>3 DEF IInv, OneChainPerGen
<1>7. gen \in Nat /\ cgen \in [Calls -> Nat]
  BY DEF IInv, TypeOK
<1>8. GenBound' /\ StoppedIsOld'
  BY <1>2, <1>5, <1>7 DEF IInv, GenBound, StoppedIsOld
<1>9. OneChainPerGen'
  BY <1>2, <1>5, <1>6 DEF IInv, OneChainPerGen
<1>10. NeverStalls'
  BY <1>2, <1>5 DEF NeverStalls, Current
<1>11. ClosedHasNoTimer'
  <2> SUFFICES ASSUME NEW e \in Calls, pc'[e] = "armed"
               PROVE  running' /\ timer' = e /\ Current(e)'
    BY DEF ClosedHasNoTimer
  <2>1. CASE e = d
    BY <2>1, <1>1, <1>2, <1>5 DEF Current
  <2>2. CASE e # d
    <3>1. e \in Live \ {c}
      BY <2>2, <1>5 DEF Live
    <3>2. pc[e] = "armed" /\ cgen[e] # gen
      BY <3>1, <1>5, <1>6
    <3> QED
      BY <3>2 DEF IInv, ClosedHasNoTimer, Current
  <2> QED
    BY <2>1, <2>2
<1> QED
  BY <1>4, <1>8, <1>9, <1>10, <1>11 DEF IInv

\* Every step keeps the inductive invariant.
LEMMA NextIInv == IInv /\ [Next]_vars => IInv'
<1> SUFFICES ASSUME IInv, [Next]_vars PROVE IInv'
  OBVIOUS
<1>1. CASE Start
  BY <1>1, StartIInv
<1>2. CASE Close
  BY <1>2, CloseIInv
<1>3. ASSUME NEW c \in Calls, Step(c) PROVE IInv'
  <2>1. CASE Fire(c)
    BY <2>1, MoveIInv DEF Fire
  <2>2. CASE Check(c)
    <3>1. CASE Passes(c)
      BY <2>2, <3>1, MoveIInv DEF Check
    <3>2. CASE ~Passes(c)
      BY <2>2, <3>2, MoveIInv DEF Check, Passes
    <3> QED
      BY <3>1, <3>2
  <2>3. CASE Execute(c)
    BY <2>3, MoveIInv DEF Execute
  <2>4. CASE Rearm(c)
    BY <2>4, RearmIInv
  <2>5. CASE Finish(c)
    BY <2>5, MoveIInv DEF Finish
  <2> QED
    BY <1>3, <2>1, <2>2, <2>3, <2>4, <2>5 DEF Step
<1>4. CASE UNCHANGED vars
  BY <1>4 DEF vars, IInv, TypeOK, GenBound, StoppedIsOld, OneChainPerGen, NeverStalls,
     ClosedHasNoTimer, Live, Current
<1> QED
  BY <1>1, <1>2, <1>3, <1>4 DEF Next

\* The inductive invariant holds in every reachable state.
THEOREM Inductive == Safe => []IInv
  BY InitIInv, NextIInv, PTL DEF Safe

-----------------------------------------------------------------------------
\* The variables keep their types, for any number of calls and Start/Close.
THEOREM TypeCorrect == Spec => []TypeOK
<1>1. IInv => TypeOK
  BY DEF IInv
<1> QED
  BY <1>1, Inductive, PTL DEF Spec, Safe

\* The executions of one generation never overlap and its timer chain never
\* forks, however Start, Close and Execute interleave (periodic.go:44-49).
THEOREM ChainsNeverFork == Spec => []OneChainPerGen
<1>1. IInv => OneChainPerGen
  BY DEF IInv
<1> QED
  BY <1>1, Inductive, PTL DEF Spec, Safe

\* A running Periodic always has a call that leads to its next Execute.
THEOREM RunningNeverStalls == Spec => []NeverStalls
<1>1. IInv => NeverStalls
  BY DEF IInv
<1> QED
  BY <1>1, Inductive, PTL DEF Spec, Safe

\* Close can always stop what is pending: t.timer names the only armed timer.
THEOREM TimerIsKnown == Spec => []ClosedHasNoTimer
<1>1. IInv => ClosedHasNoTimer
  BY DEF IInv
<1> QED
  BY <1>1, Inductive, PTL DEF Spec, Safe

\* While running there is one timer chain, and afterwards no armed timer.
THEOREM ChainIsKept == Spec => []OneTimerChain
<1>1. IInv => OneTimerChain
  BY DEF IInv, OneTimerChain
<1> QED
  BY <1>1, Inductive, PTL DEF Spec, Safe

-----------------------------------------------------------------------------
(***************************************************************************)
(* Refinement: Start is TurnOn, Close is TurnOff, a Check that passes is   *)
(* Begin, Rearm and Finish are End; the other steps stutter.               *)
(***************************************************************************)
InExec == {x \in Calls : pc[x] \in {"cleared", "exec"}}

LEMMA InflightIs == Inflight = {cgen[c] : c \in InExec}
  BY DEF Inflight, InExec

\* A step that neither begins nor ends an execution leaves inflight alone.
LEMMA SameInflight ==
  ASSUME InExec' = InExec, \A c \in InExec : cgen'[c] = cgen[c]
  PROVE  Inflight' = Inflight
  BY DEF Inflight, InExec

\* Dropping one call from those executing drops its generation, and no other's.
LEMMA EndInflight ==
  ASSUME IInv, NEW c \in Calls, pc[c] = "exec", InExec' = InExec \ {c},
         \A d \in InExec' : cgen'[d] = cgen[d]
  PROVE  cgen[c] \in Inflight /\ Inflight' = Inflight \ {cgen[c]}
<1>1. c \in InExec /\ InExec \subseteq Live
  BY DEF InExec, Live
<1>2. \A d \in InExec : cgen[d] = cgen[c] => d = c
  BY <1>1 DEF IInv, OneChainPerGen
<1>3. Inflight' = {cgen[d] : d \in InExec \ {c}}
  BY DEF Inflight, InExec
<1> QED
  BY <1>1, <1>2, <1>3, InflightIs

\* Every step of a call is Begin, End or a stutter of the promise.
LEMMA StepRefines ==
  ASSUME IInv, NEW c \in Calls, Step(c)
  PROVE  [Promise!Next]_(Promise!vars)
<1> USE DEF Promise!vars, Promise!Next
<1>1. CASE Fire(c)
  <2>1. InExec' = InExec /\ cgen' = cgen /\ UNCHANGED <<running, gen>>
    BY <1>1 DEF Fire, InExec, IInv, TypeOK
  <2> QED
    BY <2>1, SameInflight
<1>2. CASE Check(c) /\ ~Passes(c)
  <2>1. InExec' = InExec /\ cgen' = cgen /\ UNCHANGED <<running, gen>>
    BY <1>2 DEF Check, InExec, IInv, TypeOK
  <2> QED
    BY <2>1, SameInflight
<1>3. CASE Check(c) /\ Passes(c)
  <2>1. /\ InExec' = InExec \cup {c} /\ cgen' = cgen /\ UNCHANGED <<running, gen>>
        /\ running /\ cgen[c] = gen /\ pc[c] = "fired"
    BY <1>3 DEF Check, Passes, Current, InExec, IInv, TypeOK
  <2>2. Inflight' = Inflight \cup {gen}
    BY <2>1 DEF Inflight, InExec
  <2>3. gen \notin Inflight
    <3> SUFFICES ASSUME NEW d \in InExec, cgen[d] = gen PROVE FALSE
      BY InflightIs
    <3>1. c \in Live /\ d \in Live /\ d # c
      BY <2>1 DEF Live, InExec
    <3> QED
      BY <3>1, <2>1 DEF IInv, OneChainPerGen
  <2> QED
    BY <2>1, <2>2, <2>3 DEF Promise!Begin
<1>4. CASE Execute(c)
  <2>1. InExec' = InExec /\ cgen' = cgen /\ UNCHANGED <<running, gen>>
    BY <1>4 DEF Execute, InExec, IInv, TypeOK
  <2> QED
    BY <2>1, SameInflight
<1>5. CASE Rearm(c)
  <2>1. PICK d \in Free \cup {c} :
           /\ pc' = [[pc EXCEPT ![c] = "free"] EXCEPT ![d] = "armed"]
           /\ cgen' = [cgen EXCEPT ![d] = cgen[c]]
    BY <1>5 DEF Rearm
  <2>2. pc[c] = "exec" /\ UNCHANGED <<running, gen>>
    BY <1>5 DEF Rearm
  <2>3. InExec' = InExec \ {c} /\ \A e \in InExec' : cgen'[e] = cgen[e]
    BY <2>1, <2>2 DEF InExec, IInv, TypeOK, Free
  <2> QED
    BY <2>2, <2>3, EndInflight DEF Promise!End
<1>6. CASE Finish(c)
  <2>1. /\ pc[c] = "exec" /\ UNCHANGED <<running, gen>> /\ cgen' = cgen
        /\ InExec' = InExec \ {c}
    BY <1>6 DEF Finish, InExec, IInv, TypeOK
  <2> QED
    BY <2>1, EndInflight DEF Promise!End
<1> QED
  BY <1>1, <1>2, <1>3, <1>4, <1>5, <1>6 DEF Step

\* Start and Close switch the promise on and off.
LEMMA SwitchRefines ==
  ASSUME IInv, Start \/ Close
  PROVE  [Promise!Next]_(Promise!vars)
<1> USE DEF Promise!vars, Promise!Next
<1>1. CASE Start
  <2>1. ~running /\ running' = TRUE /\ gen' = gen + 1
    BY <1>1 DEF Start
  <2>2. InExec' = InExec /\ \A c \in InExec : cgen'[c] = cgen[c]
    BY <1>1 DEF Start, InExec, Free, IInv, TypeOK
  <2> QED
    BY <2>1, <2>2, SameInflight DEF Promise!TurnOn
<1>2. CASE Close
  <2>1. running' = FALSE /\ gen' = gen + 1 /\ cgen' = cgen
    BY <1>2 DEF Close
  <2>2. InExec' = InExec
    BY <1>2 DEF Close, InExec, IInv, TypeOK
  <2> QED
    BY <2>1, <2>2, SameInflight DEF Promise!TurnOff
<1> QED
  BY <1>1, <1>2

(***************************************************************************)
(* What the owner of a Periodic may rely on: seen through (running, gen,   *)
(* generations with an execution under way) it is a Ticker.  No execution  *)
(* overlaps another of its generation and none begins after Close.  (That  *)
(* executions keep beginning is liveness, which TLC checks.)               *)
(***************************************************************************)
THEOREM PeriodicImplementsTicker == Spec => Promise!SafeSpec
<1>1. Init => Promise!Init
  BY DEF Init, Promise!Init, Inflight
<1>2. IInv /\ [Next]_vars => [Promise!Next]_(Promise!vars)
  <2> SUFFICES ASSUME IInv, [Next]_vars PROVE [Promise!Next]_(Promise!vars)
    OBVIOUS
  <2>1. CASE Start \/ Close
    BY <2>1, SwitchRefines
  <2>2. ASSUME NEW c \in Calls, Step(c) PROVE [Promise!Next]_(Promise!vars)
    BY <2>2, StepRefines
  <2>3. CASE UNCHANGED vars
    <3>1. InExec' = InExec /\ cgen' = cgen /\ UNCHANGED <<running, gen>>
      BY <2>3 DEF vars, InExec
    <3> QED
      BY <3>1, SameInflight DEF Promise!vars
  <2> QED
    BY <2>1, <2>2, <2>3 DEF Next
<1> QED
  BY <1>1, <1>2, Inductive, PTL DEF Spec, Safe, Promise!SafeSpec

-----------------------------------------------------------------------------
(***************************************************************************)
(* Scheduler (helper/scheduler/scheduler.go, controller/cert_tasks.go)     *)
(***************************************************************************)

(***************************************************************************)
(* The inductive invariant.  TasksFollowList follows from it; a step needs *)
(* besides that a held task was created, that a task dropped while it was  *)
(* held is a stray already before its restart goes on, and that the "node" *)
(* task, which nobody drops, is the only one of its tag.                   *)
(***************************************************************************)
Labels == {"idle", "syncCert", "certRemove", "certAdd", "node", "nodeGet", "store"} \cup Restarting

Typed == SchedulerTypeOK /\ actorPc \in [Actors -> Labels]

NodeTaskListed == NodeTask \in Listed /\ \A t \in Tasks : tag[t] = "node" <=> t = NodeTask

HeldExists == \A a \in Actors : actorPc[a] \in Restarting => held[a] \in Tasks /\ tag[held[a]] # "none"

UncreatedIsStopped == \A t \in Tasks : tag[t] = "none" => ~taskRunning[t]

\* Also a task that a restart is about to start.
UnlistedIsStray ==
    \A t \in Tasks \ Listed : taskRunning[t] \/ HeldForRestart(t) => t \in strays

TasksIInv ==
    /\ Typed
    /\ NodeTaskListed
    /\ HeldExists
    /\ UncreatedIsStopped
    /\ UniqueTags
    /\ ListedTasksRun
    /\ UnlistedIsStray
-----------------------------------------------------------------------------
(***************************************************************************)
(* m.tasks: what the lookups and the removal do                            *)
(***************************************************************************)
LEMMA RemoveAtFacts ==
  ASSUME NEW S, NEW s \in Seq(S), NEW i \in 1..Len(s)
  PROVE  /\ RemoveAt(s, i) \in Seq(S)
         /\ Len(RemoveAt(s, i)) = Len(s) - 1
         /\ \A j \in 1..(Len(s) - 1) : RemoveAt(s, i)[j] = IF j < i THEN s[j] ELSE s[j + 1]
<1> DEFINE front == SubSeq(s, 1, i - 1)
           back == SubSeq(s, i + 1, Len(s))
<1>1. Len(s) \in Nat /\ i \in Nat /\ \A j \in 1..Len(s) : s[j] \in S
  BY LenProperties
<1>2. /\ front \in Seq(S) /\ Len(front) = i - 1
      /\ \A j \in 1..(i - 1) : front[j] = s[j]
  <2>1. \A j \in 1..(i - 1) : s[j] \in S
    BY <1>1
  <2>2. 1 \in Int /\ i - 1 \in Int
    BY <1>1
  <2>3. /\ front \in Seq(S) /\ Len(front) = IF 1 <= i - 1 THEN (i - 1) - 1 + 1 ELSE 0
        /\ \A j \in 1..((i - 1) - 1 + 1) : front[j] = s[1 + j - 1]
    BY <2>1, <2>2, SubSeqProperties
  <2> QED
    BY <1>1, <2>3
<1>3. /\ back \in Seq(S) /\ Len(back) = Len(s) - i
      /\ \A j \in 1..(Len(s) - i) : back[j] = s[i + j]
  <2>1. \A j \in (i + 1)..Len(s) : s[j] \in S
    BY <1>1
  <2>2. i + 1 \in Int /\ Len(s) \in Int
    BY <1>1
  <2>3. /\ back \in Seq(S) /\ Len(back) = IF i + 1 <= Len(s) THEN Len(s) - (i + 1) + 1 ELSE 0
        /\ \A j \in 1..(Len(s) - (i + 1) + 1) : back[j] = s[(i + 1) + j - 1]
    BY <2>1, <2>2, SubSeqProperties
  <2> QED
    BY <1>1, <2>3
<1>4. RemoveAt(s, i) = front \o back
  BY DEF RemoveAt
<1> HIDE DEF front, back
<1>5. /\ front \o back \in Seq(S)
      /\ Len(front \o back) = Len(front) + Len(back)
      /\ \A j \in 1..(Len(front) + Len(back)) :
            (front \o back)[j] = IF j <= Len(front) THEN front[j] ELSE back[j - Len(front)]
  BY <1>2, <1>3, ConcatProperties
<1>6. ASSUME NEW j \in 1..(Len(s) - 1)
      PROVE  (front \o back)[j] = IF j < i THEN s[j] ELSE s[j + 1]
  <2>1. CASE j < i
    BY <1>1, <1>2, <1>3, <1>5, <2>1
  <2>2. CASE ~(j < i)
    <3>1. j - (i - 1) \in 1..(Len(s) - i) /\ i + (j - (i - 1)) = j + 1 /\ ~(j <= i - 1)
          /\ j \in 1..((i - 1) + (Len(s) - i))
      BY <1>1, <2>2
    <3>2. (front \o back)[j] = back[j - (i - 1)]
      BY <1>2, <1>3, <1>5, <3>1
    <3> QED
      BY <1>3, <2>2, <3>1, <3>2
  <2> QED
    BY <2>1, <2>2
<1> QED
  BY <1>1, <1>2, <1>3, <1>4, <1>5, <1>6

\* While tags are unique a lookup finds the task of the tag, if one is listed.
LEMMA LookupFacts ==
  ASSUME Typed, UniqueTags, NEW g
  PROVE  /\ Positions(g) = {} => Lookup(g) = NoTask /\ \A t \in Listed : tag[t] # g
         /\ Positions(g) # {} =>
              /\ First(g) \in 1..Len(list) /\ Lookup(g) = list[First(g)]
              /\ Lookup(g) \in Listed /\ Lookup(g) \in Tasks /\ tag[Lookup(g)] = g
              /\ \A t \in Listed : tag[t] = g <=> t = Lookup(g)
<1>1. list \in Seq(Tasks) /\ DOMAIN list = 1..Len(list) /\ Len(list) \in Nat
  BY DEF Typed, SchedulerTypeOK
<1>2. CASE Positions(g) = {}
  BY <1>2 DEF Positions, Lookup, Listed, ToSet
<1>3. CASE Positions(g) # {}
  <2>1. PICK i \in Positions(g) : TRUE
    BY <1>3
  <2>2. \A j \in Positions(g) : j = i
    BY <2>1 DEF Positions, UniqueTags
  <2>3. i \in 1..Len(list) /\ i <= i /\ tag[list[i]] = g
    BY <1>1, <2>1 DEF Positions
  <2>4. First(g) = i
    BY <2>1, <2>2, <2>3 DEF First
  <2>5. Lookup(g) = list[i] /\ list[i] \in Listed /\ list[i] \in Tasks
    BY <1>1, <1>3, <2>3, <2>4 DEF Lookup, Listed, ToSet
  <2>6. \A t \in Listed : tag[t] = g <=> t = list[i]
    BY <1>1, <2>2, <2>3 DEF Listed, ToSet, Positions
  <2> QED
    BY <1>3, <2>3, <2>4, <2>5, <2>6
<1> QED
  BY <1>2, <1>3

\* Dropping the task of a tag leaves the others, each still once.
LEMMA WithoutFacts ==
  ASSUME Typed, UniqueTags, NEW g
  PROVE  /\ Without(g) \in Seq(Tasks)
         /\ ToSet(Without(g)) = Listed \ {Lookup(g)}
         /\ \A i, j \in DOMAIN Without(g) :
              tag[Without(g)[i]] = tag[Without(g)[j]] => i = j
         /\ \A t \in ToSet(Without(g)) : tag[t] # g
<1>1. list \in Seq(Tasks) /\ DOMAIN list = 1..Len(list) /\ Len(list) \in Nat /\ Listed \subseteq Tasks
  BY DEF Typed, SchedulerTypeOK, Listed, ToSet
<1>2. CASE Positions(g) = {}
  <2>1. Without(g) = list /\ Lookup(g) = NoTask /\ \A t \in Listed : tag[t] # g
    BY <1>2, LookupFacts DEF Without
  <2> QED
    BY <1>1, <2>1, TaskAssumption DEF Listed, UniqueTags
<1>3. CASE Positions(g) # {}
  <2> DEFINE k == First(g)
             new == RemoveAt(list, k)
           at(j) == IF j < k THEN j ELSE j + 1
  <2>1. /\ k \in 1..Len(list) /\ Lookup(g) = list[k] /\ tag[list[k]] = g
        /\ \A t \in Listed : tag[t] = g <=> t = Lookup(g)
    BY <1>3, LookupFacts
  <2>2. Without(g) = new
    BY <1>3 DEF Without
  <2>3. /\ new \in Seq(Tasks) /\ Len(new) = Len(list) - 1
        /\ \A j \in 1..(Len(list) - 1) : new[j] = IF j < k THEN list[j] ELSE list[j + 1]
    BY <1>1, <2>1, RemoveAtFacts
  <2>4. \A j \in 1..(Len(list) - 1) : at(j) \in 1..Len(list) /\ at(j) # k /\ new[j] = list[at(j)]
    <3>1. ASSUME NEW j \in 1..(Len(list) - 1) PROVE at(j) \in 1..Len(list) /\ at(j) # k
      BY <1>1, <2>1
    <3> QED
      BY <2>3, <3>1
  <2>5. \A i, j \in 1..(Len(list) - 1) : at(i) = at(j) => i = j
    BY <1>1, <2>1
  <2> HIDE DEF k, new, at
  <2>6. DOMAIN new = 1..(Len(list) - 1)
    BY <2>3
  <2>7. \A i \in 1..Len(list) : tag[list[i]] = g => i = k
    BY <1>1, <2>1 DEF UniqueTags
  <2>8. \A j \in DOMAIN new : new[j] \in Listed /\ new[j] # list[k]
    <3> SUFFICES ASSUME NEW j \in 1..(Len(list) - 1) PROVE new[j] \in Listed /\ new[j] # list[k]
      BY <2>6
    <3>1. PICK i \in 1..Len(list) : i # k /\ new[j] = list[i]
      BY <2>4
    <3> QED
      BY <1>1, <2>1, <2>7, <3>1 DEF Listed, ToSet
  <2>9. \A i \in 1..Len(list) : i # k => \E j \in DOMAIN new : new[j] = list[i]
    <3> SUFFICES ASSUME NEW i \in 1..Len(list), i # k PROVE \E j \in DOMAIN new : new[j] = list[i]
      OBVIOUS
    <3>1. CASE i < k
      <4>1. i \in 1..(Len(list) - 1)
        BY <1>1, <2>1, <3>1
      <4> QED
        BY <2>3, <2>6, <3>1, <4>1
    <3>2. CASE i > k
      <4>1. i - 1 \in 1..(Len(list) - 1) /\ ~(i - 1 < k) /\ (i - 1) + 1 = i
        BY <1>1, <2>1, <3>2
      <4> QED
        BY <2>3, <2>6, <4>1
    <3> QED
      BY <1>1, <2>1, <3>1, <3>2
  <2>10. ToSet(new) = Listed \ {list[k]}
    BY <1>1, <2>8, <2>9 DEF ToSet, Listed
  <2>11. \A i, j \in DOMAIN new : tag[new[i]] = tag[new[j]] => i = j
    BY <1>1, <2>6, <2>4, <2>5 DEF UniqueTags
  <2> QED
    BY <2>1, <2>2, <2>3, <2>10, <2>11
<1> QED
  BY <1>2, <1>3
-----------------------------------------------------------------------------
(***************************************************************************)
(* The initial states                                                      *)
(***************************************************************************)
LEMMA SchedulerInitIInv == SchedulerInit => TasksIInv
<1> SUFFICES ASSUME SchedulerInit PROVE TasksIInv
  OBVIOUS
<1>1. /\ list = <<NodeTask>> /\ NodeTask \in Tasks /\ Listed = {NodeTask}
      /\ list \in Seq(Tasks) /\ DOMAIN list = {1} /\ list[1] = NodeTask
  BY TaskAssumption DEF SchedulerInit, Listed, ToSet
<1>2. Typed
  BY <1>1 DEF SchedulerInit, Typed, SchedulerTypeOK, Labels
<1>3. \A t \in Tasks : tag[t] = IF t = NodeTask THEN "node" ELSE "none"
  BY DEF SchedulerInit
<1>4. \A t \in Tasks : taskRunning[t] <=> t = NodeTask
  BY DEF SchedulerInit
<1>5. \A a \in Actors : actorPc[a] \notin Restarting
  BY DEF SchedulerInit, Restarting
<1>6. NodeTaskListed /\ HeldExists /\ UncreatedIsStopped
  BY <1>1, <1>3, <1>4, <1>5 DEF NodeTaskListed, HeldExists, UncreatedIsStopped
<1>7. UniqueTags /\ ListedTasksRun
  BY <1>1, <1>4 DEF UniqueTags, ListedTasksRun
<1>8. UnlistedIsStray
  BY <1>1, <1>4, <1>5 DEF UnlistedIsStray, HeldForRestart
<1> QED
  BY <1>2, <1>6, <1>7, <1>8 DEF TasksIInv

(***************************************************************************)
(* The steps that leave the tasks alone                                    *)
(***************************************************************************)
\* A step that touches no task and no list keeps the invariant if it gives up no
\* task that it holds for a restart, and takes only a listed one.
LEMMA HoldingKeeps ==
  ASSUME TasksIInv, Typed', UNCHANGED <<list, tag, taskRunning, closing, strays>>,
         \A t \in Tasks : HeldForRestart(t) => HeldForRestart(t)',
         \A t \in Tasks : HeldForRestart(t)' => HeldForRestart(t) \/ t \in Listed,
         HeldExists'
  PROVE  TasksIInv'
<1>1. Listed' = Listed /\ Listed \subseteq Tasks
  BY DEF Listed, TasksIInv, Typed, SchedulerTypeOK, ToSet
<1>2. NodeTaskListed' /\ UncreatedIsStopped' /\ UniqueTags'
  BY <1>1 DEF TasksIInv, NodeTaskListed, UncreatedIsStopped, UniqueTags
<1>3. ListedTasksRun'
  BY <1>1 DEF TasksIInv, ListedTasksRun
<1>4. UnlistedIsStray'
  BY <1>1 DEF TasksIInv, UnlistedIsStray
<1> QED
  BY <1>2, <1>3, <1>4 DEF TasksIInv

\* A step of an actor that holds nothing for a restart, before or after it.
LEMMA FreeKeeps ==
  ASSUME TasksIInv, Typed', UNCHANGED <<list, tag, taskRunning, closing, strays>>,
         NEW a \in Actors, actorPc[a] \notin Restarting, actorPc'[a] \notin Restarting,
         \A b \in Actors : b # a => actorPc'[b] = actorPc[b] /\ held'[b] = held[b]
  PROVE  TasksIInv'
<1>1. \A t \in Tasks : HeldForRestart(t)' <=> HeldForRestart(t)
  BY DEF HeldForRestart
<1>2. HeldExists'
  BY DEF TasksIInv, HeldExists
<1> QED
  BY <1>1, <1>2, HoldingKeeps

\* A call that begins holds nothing yet.
LEMMA BeginMonitorKeeps == ASSUME TasksIInv, NEW a \in Actors, BeginMonitor(a) PROVE TasksIInv'
<1>1. actorPc' = [actorPc EXCEPT ![a] = "syncCert"] /\ actorPc[a] = "idle"
  BY DEF BeginMonitor
<1>2. \E c \in BOOLEAN, i \in Intervals : nodeInfo' = [cert |-> c, poll |-> i]
  BY DEF BeginMonitor
<1>3. UNCHANGED <<list, tag, taskRunning, interval, current, held, want, closer, closing, strays>>
  BY DEF BeginMonitor, taskVars, closeVars
<1>4. Typed'
  <2>1. actorPc' \in [Actors -> Labels]
    BY <1>1 DEF TasksIInv, Typed, Labels
  <2> QED
    BY <1>2, <1>3, <2>1 DEF TasksIInv, Typed, SchedulerTypeOK, Listed
<1> QED
  BY <1>1, <1>3, <1>4, FreeKeeps DEF Restarting, TasksIInv, Typed

\* The certificate task it may restart comes from the list.
LEMMA SyncCertKeeps == ASSUME TasksIInv, NEW a \in Actors, SyncCert(a) PROVE TasksIInv'
<1> DEFINE t == Lookup("cert")
           next == IF ~nodeInfo.cert
                     THEN IF t = NoTask THEN "node" ELSE "certRemove"
                     ELSE IF t = NoTask THEN "certAdd"
                          ELSE IF interval[t] # nodeInfo.poll THEN "certClose" ELSE "node"
<1>1. /\ actorPc[a] = "syncCert" /\ actorPc' = [actorPc EXCEPT ![a] = next]
      /\ held' = [held EXCEPT ![a] = t] /\ want' = [want EXCEPT ![a] = nodeInfo.poll]
  BY DEF SyncCert
<1>2. UNCHANGED <<list, tag, taskRunning, interval, nodeInfo, current, closer, closing, strays>>
  BY DEF SyncCert, taskVars, closeVars
<1>3. t = NoTask \/ (t \in Listed /\ t \in Tasks /\ tag[t] = "cert")
  BY LookupFacts DEF TasksIInv
<1>4. next = "certClose" => t # NoTask
  OBVIOUS
<1>5. next \in {"node", "certRemove", "certAdd", "certClose"}
  OBVIOUS
<1> HIDE DEF t, next
<1>6. Typed'
  <2>1. actorPc' \in [Actors -> Labels]
    BY <1>1, <1>5 DEF TasksIInv, Typed, Labels, Restarting
  <2>2. held' \in [Actors -> Tasks \cup {NoTask}] /\ want' \in [Actors -> Intervals]
    BY <1>1, <1>3 DEF TasksIInv, Typed, SchedulerTypeOK
  <2> QED
    BY <1>2, <2>1, <2>2 DEF TasksIInv, Typed, SchedulerTypeOK, Listed
<1>7. actorPc'[a] = next /\ held'[a] = t /\ \A b \in Actors : b # a => actorPc'[b] = actorPc[b] /\ held'[b] = held[b]
  BY <1>1 DEF TasksIInv, Typed, SchedulerTypeOK
<1>8. actorPc[a] \notin Restarting /\ (actorPc'[a] \in Restarting => t # NoTask)
  BY <1>1, <1>4, <1>5, <1>7 DEF Restarting
<1>9. HeldExists'
  BY <1>2, <1>3, <1>7, <1>8 DEF TasksIInv, HeldExists
<1>10. \A u \in Tasks : HeldForRestart(u) => HeldForRestart(u)'
  BY <1>7, <1>8 DEF HeldForRestart
<1>11. \A u \in Tasks : HeldForRestart(u)' => HeldForRestart(u) \/ u \in Listed
  BY <1>3, <1>7, <1>8 DEF HeldForRestart
<1> QED
  BY <1>2, <1>6, <1>9, <1>10, <1>11, HoldingKeeps

LEMMA CheckIntervalKeeps == ASSUME TasksIInv, NEW a \in Actors, CheckInterval(a) PROVE TasksIInv'
<1> DEFINE next == IF current = nodeInfo.poll THEN "idle" ELSE "nodeGet"
<1>1. /\ actorPc[a] = "node" /\ actorPc' = [actorPc EXCEPT ![a] = next]
      /\ want' = [want EXCEPT ![a] = nodeInfo.poll]
  BY DEF CheckInterval
<1>2. UNCHANGED <<list, tag, taskRunning, interval, nodeInfo, current, held, closer, closing, strays>>
  BY DEF CheckInterval, taskVars, closeVars
<1>3. next \in {"idle", "nodeGet"}
  OBVIOUS
<1> HIDE DEF next
<1>4. Typed'
  <2>1. actorPc' \in [Actors -> Labels] /\ want' \in [Actors -> Intervals]
    BY <1>1, <1>3 DEF TasksIInv, Typed, SchedulerTypeOK, Labels
  <2> QED
    BY <1>2, <2>1 DEF TasksIInv, Typed, SchedulerTypeOK, Listed
<1> QED
  BY <1>1, <1>2, <1>3, <1>4, FreeKeeps DEF Restarting, TasksIInv, Typed

\* The "node" task is always listed, so this lookup finds it.
LEMMA GetNodeTaskKeeps == ASSUME TasksIInv, NEW a \in Actors, GetNodeTask(a) PROVE TasksIInv'
<1>1. /\ actorPc[a] = "nodeGet" /\ actorPc' = [actorPc EXCEPT ![a] = "nodeClose"]
      /\ held' = [held EXCEPT ![a] = Lookup("node")]
  BY DEF GetNodeTask
<1>2. UNCHANGED <<list, tag, taskRunning, interval, nodeInfo, current, want, closer, closing, strays>>
  BY DEF GetNodeTask, taskVars, closeVars
<1>3. Lookup("node") \in Listed /\ Lookup("node") \in Tasks /\ tag[Lookup("node")] = "node"
  BY LookupFacts, TaskAssumption DEF TasksIInv, NodeTaskListed
<1> DEFINE t == Lookup("node")
<1> HIDE DEF t
<1>4. held' = [held EXCEPT ![a] = t] /\ t \in Listed /\ t \in Tasks /\ tag[t] = "node"
  BY <1>1, <1>3 DEF t
<1>5. Typed'
  <2>1. actorPc' \in [Actors -> Labels]
    BY <1>1 DEF TasksIInv, Typed, Labels, Restarting
  <2>2. held' \in [Actors -> Tasks \cup {NoTask}]
    BY <1>4 DEF TasksIInv, Typed, SchedulerTypeOK
  <2> QED
    BY <1>2, <2>1, <2>2 DEF TasksIInv, Typed, SchedulerTypeOK, Listed
<1>6. /\ actorPc'[a] = "nodeClose" /\ held'[a] = t
      /\ \A b \in Actors : b # a => actorPc'[b] = actorPc[b] /\ held'[b] = held[b]
  BY <1>1, <1>4 DEF TasksIInv, Typed, SchedulerTypeOK
<1>7. HeldExists'
  BY <1>2, <1>4, <1>6 DEF TasksIInv, HeldExists
<1>8. \A u \in Tasks : HeldForRestart(u) => HeldForRestart(u)'
  BY <1>1, <1>6 DEF HeldForRestart, Restarting
<1>9. \A u \in Tasks : HeldForRestart(u)' => HeldForRestart(u) \/ u \in Listed
  BY <1>4, <1>6 DEF HeldForRestart
<1> QED
  BY <1>2, <1>5, <1>7, <1>8, <1>9, HoldingKeeps

LEMMA StoreIntervalKeeps == ASSUME TasksIInv, NEW a \in Actors, StoreInterval(a) PROVE TasksIInv'
<1>1. /\ actorPc[a] = "store" /\ actorPc' = [actorPc EXCEPT ![a] = "idle"]
      /\ held' = [held EXCEPT ![a] = NoTask] /\ current' = want[a]
  BY DEF StoreInterval
<1>2. UNCHANGED <<list, tag, taskRunning, interval, nodeInfo, want, closer, closing, strays>>
  BY DEF StoreInterval, taskVars, closeVars
<1>3. Typed'
  <2>1. actorPc' \in [Actors -> Labels] /\ held' \in [Actors -> Tasks \cup {NoTask}] /\ current' \in Intervals
    BY <1>1 DEF TasksIInv, Typed, SchedulerTypeOK, Labels
  <2> QED
    BY <1>2, <2>1 DEF TasksIInv, Typed, SchedulerTypeOK, Listed
<1>4. actorPc'[a] = "idle" /\ \A b \in Actors : b # a => actorPc'[b] = actorPc[b] /\ held'[b] = held[b]
  BY <1>1 DEF TasksIInv, Typed, SchedulerTypeOK
<1> QED
  BY <1>1, <1>2, <1>3, <1>4, FreeKeeps DEF Restarting

-----------------------------------------------------------------------------
(***************************************************************************)
(* RestartWithInterval                                                     *)
(***************************************************************************)
LEMMA RestartCloseKeeps ==
  ASSUME TasksIInv, NEW a \in Actors, NEW at \in Restarting, NEW next \in Restarting,
         RestartClose(a, at, next)
  PROVE  TasksIInv'
<1>1. /\ actorPc[a] = at /\ actorPc' = [actorPc EXCEPT ![a] = next]
      /\ taskRunning' = [taskRunning EXCEPT ![held[a]] = FALSE]
  BY DEF RestartClose
<1>2. UNCHANGED <<list, tag, interval, nodeInfo, current, held, want, closer, closing, strays>>
  BY DEF RestartClose, closeVars
<1>3. held[a] \in Tasks /\ HeldForRestart(held[a])
  BY <1>1 DEF TasksIInv, HeldExists, HeldForRestart
<1>4. \A t \in Tasks : taskRunning'[t] = (taskRunning[t] /\ t # held[a])
  BY <1>1 DEF TasksIInv, Typed, SchedulerTypeOK
<1>5. \A t \in Tasks : HeldForRestart(t)' <=> HeldForRestart(t)
  <2>1. \A b \in Actors : actorPc'[b] \in Restarting <=> actorPc[b] \in Restarting
    BY <1>1 DEF TasksIInv, Typed
  <2> QED
    BY <1>2, <2>1 DEF HeldForRestart
<1>6. Typed'
  <2>1. actorPc' \in [Actors -> Labels] /\ taskRunning' \in [Tasks -> BOOLEAN]
    BY <1>1 DEF TasksIInv, Typed, SchedulerTypeOK, Labels
  <2> QED
    BY <1>2, <2>1 DEF TasksIInv, Typed, SchedulerTypeOK, Listed
<1>7. Listed' = Listed /\ Listed \subseteq Tasks
  BY <1>2 DEF Listed, TasksIInv, Typed, SchedulerTypeOK, ToSet
<1>8. NodeTaskListed' /\ UniqueTags'
  BY <1>2, <1>7 DEF TasksIInv, NodeTaskListed, UniqueTags
<1>9. HeldExists'
  BY <1>1, <1>2 DEF TasksIInv, HeldExists, Typed
<1>10. UncreatedIsStopped'
  BY <1>2, <1>4 DEF TasksIInv, UncreatedIsStopped
<1>11. ListedTasksRun'
  BY <1>2, <1>3, <1>4, <1>5, <1>7 DEF TasksIInv, ListedTasksRun
<1>12. UnlistedIsStray'
  BY <1>2, <1>4, <1>5, <1>7 DEF TasksIInv, UnlistedIsStray
<1> QED
  BY <1>6, <1>8, <1>9, <1>10, <1>11, <1>12 DEF TasksIInv

LEMMA RestartSetKeeps ==
  ASSUME TasksIInv, NEW a \in Actors, NEW at \in Restarting, NEW next \in Restarting,
         RestartSet(a, at, next)
  PROVE  TasksIInv'
<1>1. /\ actorPc[a] = at /\ actorPc' = [actorPc EXCEPT ![a] = next]
      /\ interval' = [interval EXCEPT ![held[a]] = want[a]]
  BY DEF RestartSet
<1>2. UNCHANGED <<list, tag, taskRunning, nodeInfo, current, held, want, closer, closing, strays>>
  BY DEF RestartSet, closeVars
<1>3. Typed'
  <2>1. actorPc' \in [Actors -> Labels] /\ interval' \in [Tasks -> Intervals]
    BY <1>1 DEF TasksIInv, Typed, SchedulerTypeOK, Labels
  <2> QED
    BY <1>2, <2>1 DEF TasksIInv, Typed, SchedulerTypeOK, Listed
<1>4. \A b \in Actors : actorPc'[b] \in Restarting <=> actorPc[b] \in Restarting
  BY <1>1 DEF TasksIInv, Typed
<1>5. \A t \in Tasks : HeldForRestart(t)' <=> HeldForRestart(t)
  BY <1>2, <1>4 DEF HeldForRestart
<1>6. HeldExists'
  BY <1>2, <1>4 DEF TasksIInv, HeldExists
<1> QED
  BY <1>2, <1>3, <1>5, <1>6, HoldingKeeps

\* A task that is no longer listed when it starts was dropped while it was held.
LEMMA RestartStartKeeps ==
  ASSUME TasksIInv, NEW a \in Actors, NEW at \in Restarting, NEW next \in Labels \ Restarting,
         RestartStart(a, at, next)
  PROVE  TasksIInv'
<1>1. /\ actorPc[a] = at /\ actorPc' = [actorPc EXCEPT ![a] = next]
      /\ taskRunning' = [taskRunning EXCEPT ![held[a]] = TRUE]
  BY DEF RestartStart
<1>2. UNCHANGED <<list, tag, interval, nodeInfo, current, held, want, closer, closing, strays>>
  BY DEF RestartStart, closeVars
<1>3. held[a] \in Tasks /\ HeldForRestart(held[a]) /\ tag[held[a]] # "none"
  BY <1>1 DEF TasksIInv, HeldExists, HeldForRestart
<1>4. \A t \in Tasks : taskRunning'[t] = (taskRunning[t] \/ t = held[a])
  BY <1>1 DEF TasksIInv, Typed, SchedulerTypeOK
<1>5. actorPc'[a] \notin Restarting /\ \A b \in Actors : b # a => actorPc'[b] = actorPc[b]
  BY <1>1 DEF TasksIInv, Typed
<1>6. /\ \A t \in Tasks : HeldForRestart(t)' => HeldForRestart(t)
      /\ \A t \in Tasks : HeldForRestart(t) => HeldForRestart(t)' \/ t = held[a]
  BY <1>2, <1>5 DEF HeldForRestart
<1>7. Typed'
  <2>1. actorPc' \in [Actors -> Labels] /\ taskRunning' \in [Tasks -> BOOLEAN]
    BY <1>1 DEF TasksIInv, Typed, SchedulerTypeOK
  <2> QED
    BY <1>2, <2>1 DEF TasksIInv, Typed, SchedulerTypeOK, Listed
<1>8. Listed' = Listed /\ Listed \subseteq Tasks
  BY <1>2 DEF Listed, TasksIInv, Typed, SchedulerTypeOK, ToSet
<1>9. NodeTaskListed' /\ UniqueTags'
  BY <1>2, <1>8 DEF TasksIInv, NodeTaskListed, UniqueTags
<1>10. HeldExists'
  BY <1>2, <1>5 DEF TasksIInv, HeldExists
<1>11. UncreatedIsStopped'
  BY <1>2, <1>3, <1>4 DEF TasksIInv, UncreatedIsStopped
<1>12. ListedTasksRun'
  BY <1>2, <1>4, <1>6, <1>8 DEF TasksIInv, ListedTasksRun
<1>13. UnlistedIsStray'
  BY <1>2, <1>3, <1>4, <1>6, <1>8 DEF TasksIInv, UnlistedIsStray
<1> QED
  BY <1>7, <1>9, <1>10, <1>11, <1>12, <1>13 DEF TasksIInv

-----------------------------------------------------------------------------
(***************************************************************************)
(* Manager.RemoveTask and AddAndStart                                      *)
(***************************************************************************)
LEMMA RemoveTaskKeeps == ASSUME TasksIInv, NEW a \in Actors, RemoveTask(a) PROVE TasksIInv'
<1> DEFINE old == Lookup("cert")
           new == Without("cert")
<1>1. /\ actorPc[a] = "certRemove" /\ actorPc' = [actorPc EXCEPT ![a] = "node"] /\ list' = new
      /\ taskRunning' = [t \in Tasks |-> taskRunning[t] /\ t # old]
      /\ strays' = strays \cup {t \in {old} \cap Tasks : HeldForRestart(t)}
  BY DEF RemoveTask
<1>2. UNCHANGED <<tag, interval, nodeInfo, current, held, want, closer, closing>>
  BY DEF RemoveTask, closeVars
<1>3. /\ new \in Seq(Tasks) /\ ToSet(new) = Listed \ {old}
      /\ \A i, j \in DOMAIN new : tag[new[i]] = tag[new[j]] => i = j
  BY WithoutFacts DEF TasksIInv
<1>4. old = NoTask \/ tag[old] = "cert"
  BY LookupFacts DEF TasksIInv
<1> HIDE DEF old, new
<1>5. Listed' = Listed \ {old} /\ Listed \subseteq Tasks
  <2>1. Listed' = Listed \ {old}
    BY <1>1, <1>3 DEF Listed
  <2>2. Listed \subseteq Tasks
    BY DEF Listed, TasksIInv, Typed, SchedulerTypeOK, ToSet
  <2> QED
    BY <2>1, <2>2
<1>6. \A t \in Tasks : HeldForRestart(t)' <=> HeldForRestart(t)
  <2>1. \A b \in Actors : actorPc'[b] \in Restarting <=> actorPc[b] \in Restarting
    BY <1>1 DEF TasksIInv, Typed, Restarting
  <2> QED
    BY <1>2, <2>1 DEF HeldForRestart
<1>7. Typed'
  <2>1. actorPc' \in [Actors -> Labels] /\ taskRunning' \in [Tasks -> BOOLEAN]
    BY <1>1 DEF TasksIInv, Typed, SchedulerTypeOK, Labels
  <2>2. list' \in Seq(Tasks) /\ strays' \subseteq Tasks
    BY <1>1, <1>3 DEF TasksIInv, Typed, SchedulerTypeOK
  <2> QED
    BY <1>2, <1>5, <2>1, <2>2 DEF TasksIInv, Typed, SchedulerTypeOK
<1>8. NodeTaskListed'
  BY <1>2, <1>4, <1>5, TaskAssumption DEF TasksIInv, NodeTaskListed
<1>9. HeldExists'
  BY <1>1, <1>2 DEF TasksIInv, HeldExists, Typed, Restarting
<1>10. UncreatedIsStopped'
  BY <1>1, <1>2 DEF TasksIInv, UncreatedIsStopped
<1>11. UniqueTags'
  BY <1>1, <1>2, <1>3 DEF UniqueTags
<1>12. ListedTasksRun'
  BY <1>1, <1>2, <1>5, <1>6 DEF TasksIInv, ListedTasksRun
<1>13. UnlistedIsStray'
  BY <1>1, <1>5, <1>6 DEF TasksIInv, UnlistedIsStray
<1> QED
  BY <1>7, <1>8, <1>9, <1>10, <1>11, <1>12, <1>13 DEF TasksIInv

\* The new task has no other name in the controller: nobody lists it, holds it
\* or runs it, and no task that stays has its tag.
LEMMA AddAndStartKeeps == ASSUME TasksIInv, NEW a \in Actors, AddAndStart(a) PROVE TasksIInv'
<1> DEFINE old == Lookup("cert")
           rest == Without("cert")
<1>1. /\ actorPc[a] = "certAdd" /\ actorPc' = [actorPc EXCEPT ![a] = "node"]
      /\ UNCHANGED <<nodeInfo, current, held, want, closer, closing>>
  BY DEF AddAndStart, closeVars
<1>2. PICK n \in Unused :
         /\ tag' = [tag EXCEPT ![n] = "cert"]
         /\ interval' = [interval EXCEPT ![n] = want[a]]
         /\ taskRunning' = [t \in Tasks |-> t = n \/ (taskRunning[t] /\ t # old)]
         /\ list' = Append(rest, n)
         /\ strays' = strays \cup {t \in {old} \cap Tasks : HeldForRestart(t)}
  BY DEF AddAndStart
<1>3. /\ rest \in Seq(Tasks) /\ ToSet(rest) = Listed \ {old}
      /\ \A i, j \in DOMAIN rest : tag[rest[i]] = tag[rest[j]] => i = j
      /\ \A t \in ToSet(rest) : tag[t] # "cert"
  BY WithoutFacts DEF TasksIInv
<1>4. old = NoTask \/ tag[old] = "cert"
  BY LookupFacts DEF TasksIInv
<1> HIDE DEF old, rest
<1>5. n \in Tasks /\ tag[n] = "none" /\ n \notin Listed /\ ~HeldForRestart(n) /\ n # NodeTask
  <2>1. n \in Tasks /\ tag[n] = "none"
    BY DEF Unused
  <2>2. n \notin Listed
    BY <2>1 DEF TasksIInv, Typed, SchedulerTypeOK
  <2>3. ~HeldForRestart(n)
    BY <2>1 DEF TasksIInv, HeldExists, HeldForRestart
  <2>4. n # NodeTask
    BY <2>1, TaskAssumption DEF TasksIInv, NodeTaskListed
  <2> QED
    BY <2>1, <2>2, <2>3, <2>4
<1>6. \A t \in Tasks : tag'[t] = IF t = n THEN "cert" ELSE tag[t]
  BY <1>2, <1>5 DEF TasksIInv, Typed, SchedulerTypeOK
<1>7. /\ list' \in Seq(Tasks) /\ DOMAIN list' = 1..(Len(rest) + 1) /\ DOMAIN rest = 1..Len(rest)
      /\ Len(rest) \in Nat /\ list'[Len(rest) + 1] = n
      /\ \A i \in 1..Len(rest) : list'[i] = rest[i]
  BY <1>2, <1>3, <1>5, AppendProperties
<1>8. Listed' = (Listed \ {old}) \cup {n} /\ Listed \subseteq Tasks
  <2>1. ToSet(list') = ToSet(rest) \cup {n}
    BY <1>7 DEF ToSet
  <2>2. Listed' = (Listed \ {old}) \cup {n}
    BY <1>3, <2>1 DEF Listed
  <2>3. Listed \subseteq Tasks
    BY DEF Listed, TasksIInv, Typed, SchedulerTypeOK, ToSet
  <2> QED
    BY <2>2, <2>3
<1>9. \A t \in Tasks : HeldForRestart(t)' <=> HeldForRestart(t)
  <2>1. \A b \in Actors : actorPc'[b] \in Restarting <=> actorPc[b] \in Restarting
    BY <1>1 DEF TasksIInv, Typed, Restarting
  <2> QED
    BY <1>1, <2>1 DEF HeldForRestart
<1>10. Typed'
  <2>1. actorPc' \in [Actors -> Labels] /\ taskRunning' \in [Tasks -> BOOLEAN]
    BY <1>1, <1>2 DEF TasksIInv, Typed, SchedulerTypeOK, Labels
  <2>2. tag' \in [Tasks -> {"none", "node", "cert"}] /\ interval' \in [Tasks -> Intervals]
    BY <1>2, <1>5 DEF TasksIInv, Typed, SchedulerTypeOK
  <2>3. strays' \subseteq Tasks
    BY <1>2 DEF TasksIInv, Typed, SchedulerTypeOK
  <2>4. \A t \in Listed' : tag'[t] # "none"
    BY <1>5, <1>6, <1>8 DEF TasksIInv, Typed, SchedulerTypeOK
  <2> QED
    BY <1>1, <1>7, <2>1, <2>2, <2>3, <2>4 DEF TasksIInv, Typed, SchedulerTypeOK
<1>11. NodeTaskListed'
  BY <1>4, <1>5, <1>6, <1>8, TaskAssumption DEF TasksIInv, NodeTaskListed
<1>12. HeldExists'
  BY <1>1, <1>6 DEF TasksIInv, HeldExists, Typed, Restarting
<1>13. UncreatedIsStopped'
  <2>1. ASSUME NEW t \in Tasks, tag'[t] = "none" PROVE tag[t] = "none" /\ t # n
    BY <1>6, <2>1
  <2>2. ASSUME NEW t \in Tasks, t # n, ~taskRunning[t] PROVE ~taskRunning'[t]
    BY <1>2, <2>2
  <2> QED
    BY <2>1, <2>2 DEF TasksIInv, UncreatedIsStopped
<1>14. UniqueTags'
  <2>1. \A i \in 1..Len(rest) : rest[i] \in ToSet(rest) /\ rest[i] \in Tasks /\ rest[i] # n
    BY <1>3, <1>5, <1>7 DEF ToSet
  <2>2. \A i \in 1..Len(rest) : tag'[list'[i]] = tag[rest[i]] /\ tag'[list'[i]] # "cert"
    BY <1>3, <1>6, <1>7, <2>1
  <2>3. tag'[list'[Len(rest) + 1]] = "cert"
    BY <1>5, <1>6, <1>7
  <2>4. \A i \in 1..(Len(rest) + 1) : i \in 1..Len(rest) \/ i = Len(rest) + 1
    BY <1>7
  <2>5. \A i, j \in 1..(Len(rest) + 1) : tag'[list'[i]] = tag'[list'[j]] => i = j
    BY <1>3, <1>7, <2>2, <2>3, <2>4
  <2> QED
    BY <1>7, <2>5 DEF UniqueTags
<1>15. ListedTasksRun'
  BY <1>1, <1>2, <1>5, <1>8, <1>9 DEF TasksIInv, ListedTasksRun
<1>16. UnlistedIsStray'
  BY <1>2, <1>5, <1>8, <1>9 DEF TasksIInv, UnlistedIsStray
<1> QED
  BY <1>10, <1>11, <1>12, <1>13, <1>14, <1>15, <1>16 DEF TasksIInv

-----------------------------------------------------------------------------
(***************************************************************************)
(* Controller.Close                                                        *)
(***************************************************************************)
\* CloseAll stops only tasks, and only once Close has begun: of the invariant's
\* parts none but ListedTasksRun asks for a running task, and then no more.
LEMMA CloserKeeps == ASSUME TasksIInv, Closer PROVE TasksIInv'
<1>1. UNCHANGED <<list, tag, interval, nodeInfo, current, actorPc, held, want, strays>>
  BY DEF Closer, CloseBegin, CloseOne, CloseEnd, LoopExit, taskVars
<1>2. /\ taskRunning' \in [Tasks -> BOOLEAN] /\ closer' \subseteq Tasks /\ closing' \in {"no", "loop", "done"}
      /\ \A t \in Tasks : taskRunning'[t] => taskRunning[t]
      /\ closing' = "no" => taskRunning' = taskRunning /\ closing = "no"
  <2> USE DEF TasksIInv, Typed, SchedulerTypeOK
  <2>1. CASE CloseBegin
    BY <2>1 DEF CloseBegin, taskVars, Listed, ToSet
  <2>2. CASE CloseOne
    <3>1. PICK i \in DOMAIN list : closer' = closer \ {list[i]} /\ taskRunning' = [taskRunning EXCEPT ![list[i]] = FALSE]
      BY <2>2 DEF CloseOne
    <3>2. closing = "loop" /\ closing' = closing
      BY <2>2 DEF CloseOne
    <3>3. list[i] \in Tasks
      BY <3>1
    <3> QED
      BY <3>1, <3>2, <3>3
  <2>3. CASE CloseEnd
    BY <2>3 DEF CloseEnd, taskVars
  <2>4. CASE LoopExit
    BY <2>4 DEF LoopExit, taskVars
  <2> QED
    BY <2>1, <2>2, <2>3, <2>4 DEF Closer
<1>3. Listed' = Listed /\ Listed \subseteq Tasks
  BY <1>1 DEF Listed, TasksIInv, Typed, SchedulerTypeOK, ToSet
<1>4. \A t \in Tasks : HeldForRestart(t)' <=> HeldForRestart(t)
  BY <1>1 DEF HeldForRestart
<1>5. Typed'
  BY <1>1, <1>2, <1>3 DEF TasksIInv, Typed, SchedulerTypeOK
<1>6. NodeTaskListed' /\ HeldExists' /\ UniqueTags'
  BY <1>1, <1>3 DEF TasksIInv, NodeTaskListed, HeldExists, UniqueTags
<1>7. UncreatedIsStopped' /\ UnlistedIsStray'
  BY <1>1, <1>2, <1>3, <1>4 DEF TasksIInv, UncreatedIsStopped, UnlistedIsStray
<1>8. ListedTasksRun'
  BY <1>2, <1>3, <1>4 DEF TasksIInv, ListedTasksRun
<1> QED
  BY <1>5, <1>6, <1>7, <1>8 DEF TasksIInv
-----------------------------------------------------------------------------
(***************************************************************************)
(* The theorems                                                            *)
(***************************************************************************)
LEMMA StepKeeps == TasksIInv /\ [SchedulerNext]_schedulerVars => TasksIInv'
<1> SUFFICES ASSUME TasksIInv, [SchedulerNext]_schedulerVars PROVE TasksIInv'
  OBVIOUS
<1>1. ASSUME NEW a \in Actors, BeginMonitor(a) PROVE TasksIInv'
  BY <1>1, BeginMonitorKeeps
<1>2. ASSUME NEW a \in Actors, Actor(a) PROVE TasksIInv'
  <2>1. CASE SyncCert(a) \/ RemoveTask(a) \/ AddAndStart(a)
    BY <2>1, SyncCertKeeps, RemoveTaskKeeps, AddAndStartKeeps
  <2>2. CASE RestartClose(a, "certClose", "certSet") \/ RestartClose(a, "nodeClose", "nodeSet")
    BY <2>2, RestartCloseKeeps DEF Restarting
  <2>3. CASE RestartSet(a, "certSet", "certStart") \/ RestartSet(a, "nodeSet", "nodeStart")
    BY <2>3, RestartSetKeeps DEF Restarting
  <2>4. CASE RestartStart(a, "certStart", "node") \/ RestartStart(a, "nodeStart", "store")
    <3>1. "node" \in Labels \ Restarting /\ "store" \in Labels \ Restarting
          /\ "certStart" \in Restarting /\ "nodeStart" \in Restarting
      BY DEF Labels, Restarting
    <3> QED
      BY <2>4, <3>1, RestartStartKeeps
  <2>5. CASE CheckInterval(a) \/ GetNodeTask(a) \/ StoreInterval(a)
    BY <2>5, CheckIntervalKeeps, GetNodeTaskKeeps, StoreIntervalKeeps
  <2> QED
    BY <1>2, <2>1, <2>2, <2>3, <2>4, <2>5 DEF Actor
<1>3. CASE Closer
  BY <1>3, CloserKeeps
<1>4. CASE UNCHANGED schedulerVars
  <2>1. Listed' = Listed /\ \A t \in Tasks : HeldForRestart(t)' <=> HeldForRestart(t)
    BY <1>4 DEF schedulerVars, Listed, HeldForRestart
  <2>2. Typed'
    BY <1>4, <2>1 DEF schedulerVars, TasksIInv, Typed, SchedulerTypeOK
  <2>3. HeldExists'
    BY <1>4 DEF schedulerVars, TasksIInv, HeldExists
  <2> QED
    BY <1>4, <2>1, <2>2, <2>3, HoldingKeeps DEF schedulerVars
<1> QED
  BY <1>1, <1>2, <1>3, <1>4 DEF SchedulerNext

THEOREM TasksInductive == SchedulerSpec => []TasksIInv
<1> QED
  BY SchedulerInitIInv, StepKeeps, PTL DEF SchedulerSpec

\* The fields of the scheduler and of every apiMonitor call keep their types,
\* and every task in m.tasks was created (scheduler.go:167-185).
THEOREM SchedulerTypeCorrect == SchedulerSpec => []SchedulerTypeOK
<1>1. TasksIInv => SchedulerTypeOK
  BY DEF TasksIInv, Typed
<1> QED
  BY <1>1, TasksInductive, PTL

\* However many apiMonitor calls synchronise and restart tasks at once: m.tasks
\* has one task per tag; until Close a listed task is stopped only inside a
\* restart; and an unlisted one runs only if a restart held it when it was
\* dropped (cert_tasks.go:51-74, scheduler.go:82-93 and 145-185).
THEOREM TasksAgree == SchedulerSpec => []TasksFollowList
<1>1. TasksIInv => TasksFollowList
  BY DEF TasksIInv, TasksFollowList, UnlistedTasksStopped, UnlistedIsStray
<1> QED
  BY <1>1, TasksInductive, PTL

-----------------------------------------------------------------------------
(***************************************************************************)
(* Polling (controller/controller.go, api/node.go).  The inductive         *)
(* invariant is about versions: which one the ETag stands for, which one   *)
(* is applied, and who holds an answer in between.                         *)
(***************************************************************************)
PollingTyped ==
    /\ PollingTypeOK
    /\ seen \in Nat /\ pushed \in Nat /\ served \in Nat
    /\ got \in [Callers -> SUBSET Answers]
    /\ callerPc \in [Callers -> {"idle", "request", "apply", "synced"}]
    /\ dropped \in BOOLEAN /\ stale \in BOOLEAN /\ astray \in BOOLEAN

\* The panel never gives out one version twice.
VersionsDiffer ==
    /\ node.id = conf.id => node = conf
    /\ \A c \in Callers : \A answer \in got[c] : answer.id = conf.id => answer = conf

\* The answer the ETag stands for is applied or held by a caller, or stale says why not.
SeenIsUsed ==
    stale \/ node.id = seen \/ \E c \in Callers : \E answer \in got[c] : answer.id = seen

\* An event the loop has not asked about since still has a token or a request under way.
EventsAreOwed ==
    pushed <= served \/ dropped \/ trigger # {} \/ callerPc["loop"] = "request"

\* The rules the ETag stands for are in force, or about to be stored.
RulesAreKept ==
    /\ rulePc = "store" => ruleGot = ruleSeen
    /\ rulePc = "idle" => astray \/ ruleSeen = Empty \/ blocking[node.tag] = ruleSeen

PollingIInv == PollingTyped /\ VersionsDiffer /\ SeenIsUsed /\ EventsAreOwed /\ RulesAreKept

\* Controller.Start has fetched the node and the rules once.
LEMMA PollingInitIInv == PollingInit => PollingIInv
<1> SUFFICES ASSUME PollingInit PROVE PollingIInv
  OBVIOUS
<1>0. conf = [id |-> 0, tag |-> CHOOSE t \in Tags : TRUE]
  BY DEF PollingInit
<1>1. /\ node = conf /\ seen = 0 /\ pushed = 0 /\ served = 0
      /\ callerPc = [c \in Callers |-> "idle"] /\ got = [c \in Callers |-> {}]
      /\ trigger = {} /\ kind = {}
      /\ rules = MaxRules /\ ruleSeen = rules /\ rulePc = "idle" /\ ruleGot = Empty
      /\ blocking = [t \in Tags |-> IF t = node.tag THEN rules ELSE Empty]
  BY DEF PollingInit
<1>2. dropped = FALSE /\ stale = FALSE /\ astray = FALSE
  BY DEF PollingInit
<1>3. PICK first \in Tags : first = CHOOSE t \in Tags : TRUE
  BY TagsAssumption
<1>4. conf = [id |-> 0, tag |-> first]
  BY <1>0, <1>3
<1>5. conf \in Answers /\ conf.id = 0 /\ conf.tag = first
  BY <1>4, BoundAssumption DEF Answers
<1>6. rules \in Rules /\ Empty \in Rules
  <2>1. MaxRules \in 0..MaxRules /\ 0 \in 0..MaxRules
    BY BoundAssumption
  <2> QED
    BY <1>1, <2>1 DEF Rules, Empty
<1>7. callerPc["loop"] = "idle" /\ callerPc["task"] = "idle" /\ \A c \in Callers : got[c] = {} /\ callerPc[c] = "idle"
  BY <1>1 DEF Callers
<1>8. PollingTyped
  <2>1. seen <= conf.id /\ node.id <= seen /\ pushed <= conf.id /\ served <= conf.id
    BY <1>1, <1>5
  <2>2. seen \in Nat /\ pushed \in Nat /\ served \in Nat
    BY <1>1
  <2>3. got \in [Callers -> SUBSET Answers] /\ blocking \in [Tags -> Rules]
        /\ callerPc \in [Callers -> {"idle", "request", "apply", "synced"}]
    BY <1>1, <1>6
  <2> QED
    BY <1>1, <1>2, <1>5, <1>6, <1>7, <2>1, <2>2, <2>3 DEF PollingTyped, PollingTypeOK
<1>9. VersionsDiffer /\ SeenIsUsed
  BY <1>1, <1>5, <1>7 DEF VersionsDiffer, SeenIsUsed
<1>10. EventsAreOwed
  BY <1>1 DEF EventsAreOwed
<1>11. RulesAreKept
  BY <1>1, <1>5 DEF RulesAreKept
<1> QED
  BY <1>8, <1>9, <1>10, <1>11 DEF PollingIInv

\* The order of the versions.
LEMMA TypedFacts ==
  ASSUME PollingIInv
  PROVE  /\ conf \in Answers /\ node \in Answers
         /\ conf.id \in Nat /\ node.id \in Nat /\ seen \in Nat /\ pushed \in Nat /\ served \in Nat
         /\ node.id <= seen /\ seen <= conf.id /\ pushed <= conf.id /\ served <= conf.id
         /\ node.tag \in Tags
         /\ \A c \in Callers : \A answer \in got[c] :
               answer \in Answers /\ answer.id \in Nat /\ answer.id <= seen
         /\ "loop" \in Callers /\ "task" \in Callers
BY BoundAssumption DEF PollingIInv, PollingTyped, PollingTypeOK, Answers, Callers

\* A new version is above every one there is.
LEMMA ChangeKeeps == ASSUME PollingIInv, Change PROVE PollingIInv'
<1>1. /\ UNCHANGED <<rules, ruleChanges, seen, node, callerPc, got, stale>>
      /\ UNCHANGED <<trigger, kind, quiet, pushed, served, dropped, pushes>>
      /\ UNCHANGED <<ruleSeen, rulePc, ruleGot, blocking, astray, faults>>
  BY DEF Change, nodeVars, loopVars, ruleVars
<1>2. conf' \in Answers /\ conf'.id = conf.id + 1
  BY TypedFacts, BoundAssumption DEF Change, Answers
<1>3. PollingTyped'
  BY <1>1, <1>2, TypedFacts DEF PollingIInv, PollingTyped, PollingTypeOK
<1>4. VersionsDiffer'
  BY <1>1, <1>2, TypedFacts DEF VersionsDiffer
<1>5. SeenIsUsed' /\ EventsAreOwed' /\ RulesAreKept'
  BY <1>1 DEF PollingIInv, SeenIsUsed, EventsAreOwed, RulesAreKept
<1> QED
  BY <1>3, <1>4, <1>5 DEF PollingIInv

\* The steps that touch nothing the last four parts are about, or one of them.
LEMMA ChangeRulesKeeps == ASSUME PollingIInv, ChangeRules PROVE PollingIInv'
<1>1. /\ UNCHANGED <<conf, seen, node, callerPc, got, stale>>
      /\ UNCHANGED <<trigger, kind, quiet, pushed, served, dropped, pushes>>
      /\ UNCHANGED <<ruleSeen, rulePc, ruleGot, blocking, astray, faults>>
      /\ rules' \in Rules
  BY DEF ChangeRules, nodeVars, loopVars, ruleVars
<1>2. PollingTyped'
  BY <1>1 DEF PollingIInv, PollingTyped, PollingTypeOK
<1> QED
  BY <1>1, <1>2 DEF PollingIInv, VersionsDiffer, SeenIsUsed, EventsAreOwed, RulesAreKept

LEMMA TriggerKeeps == ASSUME PollingIInv, NEW k \in Kinds, Trigger(k) PROVE PollingIInv'
<1>1. /\ UNCHANGED <<conf, rules, ruleChanges, seen, node, callerPc, got, stale>>
      /\ UNCHANGED <<kind, quiet, served, dropped>>
      /\ UNCHANGED <<ruleSeen, rulePc, ruleGot, blocking, astray, faults>>
      /\ pushed' = conf.id /\ trigger' = trigger \cup {k}
  BY DEF Trigger, Event, panelVars, nodeVars, ruleVars
<1>2. PollingTyped'
  BY <1>1, TypedFacts DEF PollingIInv, PollingTyped, PollingTypeOK
<1>3. EventsAreOwed'
  BY <1>1 DEF EventsAreOwed
<1> QED
  BY <1>1, <1>2, <1>3 DEF PollingIInv, VersionsDiffer, SeenIsUsed, RulesAreKept

\* A discarded token is remembered as dropped.
LEMMA DebounceKeeps == ASSUME PollingIInv, NEW k \in Kinds, Debounce(k) PROVE PollingIInv'
<1>1. /\ UNCHANGED <<conf, rules, ruleChanges, seen, node, callerPc, got, stale>>
      /\ UNCHANGED <<kind, quiet, pushed, served, pushes>>
      /\ UNCHANGED <<ruleSeen, rulePc, ruleGot, blocking, astray, faults>>
      /\ dropped' = TRUE /\ trigger' = trigger \ {k}
  BY DEF Debounce, panelVars, nodeVars, ruleVars
<1>2. PollingTyped'
  BY <1>1 DEF PollingIInv, PollingTyped, PollingTypeOK
<1>3. EventsAreOwed'
  BY <1>1 DEF EventsAreOwed
<1> QED
  BY <1>1, <1>2, <1>3 DEF PollingIInv, VersionsDiffer, SeenIsUsed, RulesAreKept

\* A token that is taken becomes a request.
LEMMA TakeKeeps == ASSUME PollingIInv, NEW k \in Kinds, Take(k) PROVE PollingIInv'
<1>1. /\ UNCHANGED <<conf, rules, ruleChanges, seen, node, got, stale>>
      /\ UNCHANGED <<quiet, pushed, served, dropped, pushes>>
      /\ UNCHANGED <<ruleSeen, rulePc, ruleGot, blocking, astray, faults>>
      /\ trigger' = trigger \ {k} /\ kind' = {k}
      /\ callerPc["loop"] = "idle" /\ callerPc' = [callerPc EXCEPT !["loop"] = "request"]
  BY DEF Take, Goto, panelVars, ruleVars
<1>2. /\ callerPc'["loop"] = "request" /\ callerPc'["task"] = callerPc["task"]
      /\ callerPc' \in [Callers -> {"idle", "request", "apply", "synced"}]
  BY <1>1, TypedFacts DEF PollingIInv, PollingTyped
<1>3. \A c \in Callers : (callerPc'[c] = "apply") <=> (got'[c] # {})
  BY <1>1, <1>2 DEF PollingIInv, PollingTyped, PollingTypeOK, Callers
<1>4. PollingTyped'
  BY <1>1, <1>2, <1>3 DEF PollingIInv, PollingTyped, PollingTypeOK
<1>5. EventsAreOwed'
  BY <1>2 DEF EventsAreOwed
<1> QED
  BY <1>1, <1>4, <1>5 DEF PollingIInv, VersionsDiffer, SeenIsUsed, RulesAreKept

\* The drain after a sync discards nothing, or a token that is remembered as dropped.
LEMMA SyncedKeeps == ASSUME PollingIInv, Synced PROVE PollingIInv'
<1>1. /\ UNCHANGED <<conf, rules, ruleChanges, seen, node, got, stale>>
      /\ UNCHANGED <<pushed, served, pushes>>
      /\ UNCHANGED <<ruleSeen, rulePc, ruleGot, blocking, astray, faults>>
      /\ trigger' = trigger \ kind /\ kind' = {}
      /\ dropped' = (dropped \/ kind \cap trigger # {})
      /\ callerPc["loop"] = "synced" /\ callerPc' = [callerPc EXCEPT !["loop"] = "idle"]
  BY DEF Synced, Goto, panelVars, ruleVars
<1>2. /\ callerPc'["loop"] = "idle" /\ callerPc'["task"] = callerPc["task"]
      /\ callerPc' \in [Callers -> {"idle", "request", "apply", "synced"}]
  BY <1>1, TypedFacts DEF PollingIInv, PollingTyped
<1>3. \A c \in Callers : (callerPc'[c] = "apply") <=> (got'[c] # {})
  BY <1>1, <1>2 DEF PollingIInv, PollingTyped, PollingTypeOK, Callers
<1>4. dropped' \in BOOLEAN
  BY <1>1
<1>5. PollingTyped'
  BY <1>1, <1>2, <1>3, <1>4 DEF PollingIInv, PollingTyped, PollingTypeOK
<1>6. EventsAreOwed'
  <2>1. CASE kind \cap trigger = {}
    <3>1. trigger' = trigger
      BY <1>1, <2>1
    <3>2. dropped => dropped'
      BY <1>1
    <3> QED
      BY <1>1, <3>1, <3>2 DEF PollingIInv, EventsAreOwed
  <2>2. CASE kind \cap trigger # {}
    BY <1>1, <2>2 DEF EventsAreOwed
  <2> QED
    BY <2>1, <2>2
<1> QED
  BY <1>1, <1>5, <1>6 DEF PollingIInv, VersionsDiffer, SeenIsUsed, RulesAreKept

\* The quiet period and the ticker only move quiet.
LEMMA QuietKeeps == ASSUME PollingIInv, Ticker \/ QuietEnds PROVE PollingIInv'
<1>1. /\ UNCHANGED <<conf, rules, ruleChanges, seen, node, callerPc, got, stale>>
      /\ UNCHANGED <<trigger, kind, pushed, served, dropped, pushes>>
      /\ UNCHANGED <<ruleSeen, rulePc, ruleGot, blocking, astray, faults>>
  BY DEF Ticker, QuietEnds, panelVars, nodeVars, ruleVars
<1>2. PollingTyped'
  BY <1>1 DEF PollingIInv, PollingTyped, PollingTypeOK
<1> QED
  BY <1>1, <1>2 DEF PollingIInv, VersionsDiffer, SeenIsUsed, EventsAreOwed, RulesAreKept

\* The node task asks; what the loop owes is the same.
LEMMA TaskDueKeeps == ASSUME PollingIInv, TaskDue PROVE PollingIInv'
<1>1. /\ UNCHANGED <<conf, rules, ruleChanges, seen, node, got, stale>>
      /\ UNCHANGED <<trigger, kind, quiet, pushed, served, dropped, pushes>>
      /\ UNCHANGED <<ruleSeen, rulePc, ruleGot, blocking, astray, faults>>
      /\ callerPc["task"] = "idle" /\ callerPc' = [callerPc EXCEPT !["task"] = "request"]
  BY DEF TaskDue, Goto, panelVars, loopVars, ruleVars
<1>2. /\ callerPc'["task"] = "request" /\ callerPc'["loop"] = callerPc["loop"]
      /\ callerPc' \in [Callers -> {"idle", "request", "apply", "synced"}]
  BY <1>1, TypedFacts DEF PollingIInv, PollingTyped
<1>3. \A c \in Callers : (callerPc'[c] = "apply") <=> (got'[c] # {})
  BY <1>1, <1>2 DEF PollingIInv, PollingTyped, PollingTypeOK, Callers
<1>4. PollingTyped'
  BY <1>1, <1>2, <1>3 DEF PollingIInv, PollingTyped, PollingTypeOK
<1> QED
  BY <1>1, <1>2, <1>4 DEF PollingIInv, VersionsDiffer, SeenIsUsed, EventsAreOwed, RulesAreKept

-----------------------------------------------------------------------------
\* Where a caller goes next keeps the types.
LEMMA GotoKeepsTypes ==
  ASSUME PollingIInv, NEW c \in Callers,
         NEW label \in {"apply", After(c)}, Goto(c, label)
  PROVE  /\ callerPc' \in [Callers -> {"idle", "request", "apply", "synced"}]
         /\ callerPc'["loop"] \in {"idle", "request", "apply", "synced"}
         /\ callerPc'["task"] \in {"idle", "request", "apply"}
         /\ callerPc'[c] = label
         /\ \A b \in Callers : b # c => callerPc'[b] = callerPc[b]
         /\ After(c) # "apply"
BY DEF Goto, After, Callers, PollingIInv, PollingTyped, PollingTypeOK

\* What an answer does to the event that asked for it.
LEMMA AnsweredServes ==
  ASSUME PollingIInv, NEW c \in Callers, Answered(c), UNCHANGED <<conf, pushed, trigger>>,
         callerPc'["loop"] = "request" \/ c = "loop" \/ callerPc'["loop"] = callerPc["loop"]
  PROVE  /\ served' \in Nat /\ served' <= conf.id /\ dropped' \in BOOLEAN
         /\ EventsAreOwed'
<1>1. CASE c = "loop"
  <2>1. served' = conf.id /\ dropped' = FALSE
    BY <1>1 DEF Answered
  <2>2. served' \in Nat /\ served' <= conf.id /\ pushed' <= served'
    BY <2>1, TypedFacts
  <2> QED
    BY <2>1, <2>2 DEF EventsAreOwed
<1>2. CASE c # "loop"
  <2>1. served' = served /\ dropped' = dropped
    BY <1>2 DEF Answered
  <2>2. callerPc["loop"] = "request" => callerPc'["loop"] = "request"
    BY <1>2
  <2>3. served' \in Nat /\ served' <= conf.id
    BY <2>1, TypedFacts
  <2> QED
    BY <2>1, <2>2, <2>3 DEF EventsAreOwed, PollingIInv, PollingTyped
<1> QED
  BY <1>1, <1>2

\* An answer is held by the caller that asked, or repeats the one the ETag stands for.
LEMMA RequestKeeps == ASSUME PollingIInv, NEW c \in Callers, Request(c) PROVE PollingIInv'
<1>1. /\ UNCHANGED <<conf, rules, ruleChanges, node, stale>>
      /\ UNCHANGED <<trigger, kind, quiet, pushed, pushes>>
      /\ UNCHANGED <<ruleSeen, rulePc, ruleGot, blocking, astray, faults>>
      /\ callerPc[c] = "request" /\ seen' = conf.id /\ Answered(c)
  BY DEF Request, panelVars, ruleVars
<1>2. got[c] = {} /\ got \in [Callers -> SUBSET Answers]
  BY <1>1 DEF PollingIInv, PollingTyped, PollingTypeOK
<1>3. PICK label \in {"apply", After(c)} : Goto(c, label)
  BY DEF Request
<1>4. /\ callerPc' \in [Callers -> {"idle", "request", "apply", "synced"}]
      /\ callerPc'["loop"] \in {"idle", "request", "apply", "synced"}
      /\ callerPc'["task"] \in {"idle", "request", "apply"}
      /\ callerPc'[c] = label
      /\ \A b \in Callers : b # c => callerPc'[b] = callerPc[b]
      /\ After(c) # "apply"
  BY <1>3, GotoKeepsTypes
<1>5. \/ /\ conf.id = seen /\ callerPc'[c] # "apply" /\ got' = got
      \/ /\ conf.id # seen /\ callerPc'[c] = "apply" /\ got' = [got EXCEPT ![c] = {conf}]
  <2>1. CASE conf.id = seen
    <3>1. Goto(c, After(c)) /\ got' = got
      BY <2>1 DEF Request
    <3> QED
      BY <2>1, <3>1, GotoKeepsTypes
  <2>2. CASE conf.id # seen
    <3>1. Goto(c, "apply") /\ got' = [got EXCEPT ![c] = {conf}]
      BY <2>2 DEF Request
    <3> QED
      BY <2>2, <3>1, GotoKeepsTypes
  <2> QED
    BY <2>1, <2>2
<1>6. /\ got' \in [Callers -> SUBSET Answers]
      /\ got'[c] = {} \/ got'[c] = {conf}
      /\ \A b \in Callers : b # c => got'[b] = got[b]
      /\ (callerPc'[c] = "apply") <=> (got'[c] # {})
      /\ conf.id # seen => conf \in got'[c]
  BY <1>2, <1>5, TypedFacts
<1>7. \A b \in Callers : \A answer \in got'[b] :
         answer \in Answers /\ answer.id <= seen' /\ (answer = conf \/ answer \in got[b])
  BY <1>1, <1>6, TypedFacts
<1>8. "loop" # c => callerPc'["loop"] = callerPc["loop"]
  BY <1>4, TypedFacts
<1>9. served' \in Nat /\ served' <= conf.id /\ dropped' \in BOOLEAN /\ EventsAreOwed'
  BY <1>1, <1>8, AnsweredServes
<1>10. PollingTyped'
  <2>1. \A b \in Callers : (callerPc'[b] = "apply") <=> (got'[b] # {})
    BY <1>4, <1>6 DEF PollingIInv, PollingTyped, PollingTypeOK
  <2>2. seen' \in Nat /\ seen' <= conf'.id /\ node'.id <= seen'
    BY <1>1, TypedFacts
  <2>3. \A b \in Callers : got'[b] \subseteq Answers /\ \A answer \in got'[b] : answer.id <= seen'
    BY <1>7
  <2> QED
    BY <1>1, <1>4, <1>6, <1>9, <2>1, <2>2, <2>3 DEF PollingIInv, PollingTyped, PollingTypeOK
<1>11. VersionsDiffer'
  BY <1>1, <1>7 DEF PollingIInv, VersionsDiffer
<1>12. SeenIsUsed'
  <2>1. CASE conf.id = seen
    BY <1>1, <1>5, <2>1 DEF PollingIInv, SeenIsUsed
  <2>2. CASE conf.id # seen
    BY <1>1, <1>6, <2>2 DEF SeenIsUsed
  <2> QED
    BY <2>1, <2>2
<1>13. RulesAreKept'
  BY <1>1 DEF PollingIInv, RulesAreKept
<1> QED
  BY <1>9, <1>10, <1>11, <1>12, <1>13 DEF PollingIInv

\* An ETag stored for an answer nobody will apply makes the controller stale.
LEMMA RequestFailsKeeps == ASSUME PollingIInv, NEW c \in Callers, RequestFails(c) PROVE PollingIInv'
<1>1. /\ UNCHANGED <<conf, rules, ruleChanges, node, got>>
      /\ UNCHANGED <<trigger, kind, quiet, pushed, served, pushes>>
      /\ UNCHANGED <<ruleSeen, rulePc, ruleGot, blocking, astray>>
      /\ callerPc[c] = "request" /\ Goto(c, After(c))
      /\ dropped' = (dropped \/ c = "loop")
  BY DEF RequestFails, panelVars, ruleVars
<1>2. \/ seen' = seen /\ stale' = stale
      \/ seen' = conf.id /\ stale' = (stale \/ conf.id # seen)
  BY DEF RequestFails
<1>3. /\ callerPc' \in [Callers -> {"idle", "request", "apply", "synced"}]
      /\ callerPc'["loop"] \in {"idle", "request", "apply", "synced"}
      /\ callerPc'["task"] \in {"idle", "request", "apply"}
      /\ callerPc'[c] = After(c)
      /\ \A b \in Callers : b # c => callerPc'[b] = callerPc[b]
      /\ After(c) # "apply"
  BY <1>1, GotoKeepsTypes
<1>4. /\ seen' \in Nat /\ seen <= seen' /\ seen' <= conf.id
      /\ seen' # seen => stale'
      /\ stale => stale'
  <2>1. CASE seen' = seen /\ stale' = stale
    BY <2>1, TypedFacts
  <2>2. CASE seen' = conf.id /\ stale' = (stale \/ conf.id # seen)
    <3>1. conf.id # seen => stale'
      BY <2>2
    <3>2. stale => stale'
      BY <2>2
    <3>3. seen' \in Nat /\ seen <= seen' /\ seen' <= conf.id
      BY <2>2, TypedFacts
    <3> QED
      BY <2>2, <3>1, <3>2, <3>3
  <2> QED
    BY <1>2, <2>1, <2>2
<1>5. dropped' \in BOOLEAN /\ stale' \in BOOLEAN
  BY <1>1, <1>2 DEF PollingIInv, PollingTyped
<1>6. \A b \in Callers : (callerPc'[b] = "apply") <=> (got'[b] # {})
  BY <1>1, <1>3 DEF PollingIInv, PollingTyped, PollingTypeOK
<1>7. \A b \in Callers : got'[b] \subseteq Answers /\ \A answer \in got'[b] : answer.id <= seen'
  BY <1>1, <1>4, TypedFacts
<1>8. node'.id <= seen'
  BY <1>1, <1>4, TypedFacts
<1>9. PollingTyped'
  BY <1>1, <1>3, <1>4, <1>5, <1>6, <1>7, <1>8 DEF PollingIInv, PollingTyped, PollingTypeOK
<1>10. VersionsDiffer' /\ RulesAreKept'
  BY <1>1 DEF PollingIInv, VersionsDiffer, RulesAreKept
<1>11. SeenIsUsed'
  <2>1. CASE seen' = seen
    BY <1>1, <1>4, <2>1 DEF PollingIInv, SeenIsUsed
  <2>2. CASE seen' # seen
    BY <1>4, <2>2 DEF SeenIsUsed
  <2> QED
    BY <2>1, <2>2
<1>12. EventsAreOwed'
  <2>1. CASE c = "loop"
    BY <1>1, <2>1 DEF EventsAreOwed
  <2>2. CASE c # "loop"
    <3>1. callerPc'["loop"] = callerPc["loop"]
      BY <1>3, <2>2, TypedFacts
    <3>2. dropped => dropped'
      BY <1>1
    <3> QED
      BY <1>1, <3>1, <3>2 DEF PollingIInv, EventsAreOwed
  <2> QED
    BY <2>1, <2>2
<1> QED
  BY <1>9, <1>10, <1>11, <1>12 DEF PollingIInv

\* The node is the answer now, and stale if the ETag stands for another one.
LEMMA ApplyKeeps == ASSUME PollingIInv, NEW c \in Callers, Apply(c) PROVE PollingIInv'
<1>1. /\ UNCHANGED <<conf, rules, ruleChanges, seen>>
      /\ UNCHANGED <<trigger, kind, quiet, pushed, served, dropped, pushes>>
      /\ UNCHANGED <<ruleSeen, rulePc, ruleGot, blocking, faults>>
      /\ callerPc[c] = "apply" /\ Goto(c, After(c))
      /\ got' = [got EXCEPT ![c] = {}] /\ node' \in got[c] /\ stale' = (node'.id # seen)
      /\ astray' = (astray \/ node'.tag # node.tag)
  BY DEF Apply, Use, panelVars, loopVars, ruleVars
<1>2. node' \in Answers /\ node'.id <= seen
  BY <1>1, TypedFacts
<1>3. /\ callerPc' \in [Callers -> {"idle", "request", "apply", "synced"}]
      /\ callerPc'["loop"] \in {"idle", "request", "apply", "synced"}
      /\ callerPc'["task"] \in {"idle", "request", "apply"}
      /\ callerPc'[c] = After(c)
      /\ \A b \in Callers : b # c => callerPc'[b] = callerPc[b]
      /\ After(c) # "apply"
  BY <1>1, GotoKeepsTypes
<1>4. /\ got' \in [Callers -> SUBSET Answers] /\ got'[c] = {}
      /\ \A b \in Callers : b # c => got'[b] = got[b]
      /\ \A b \in Callers : got'[b] \subseteq got[b]
  BY <1>1 DEF PollingIInv, PollingTyped
<1>5. \A b \in Callers : (callerPc'[b] = "apply") <=> (got'[b] # {})
  BY <1>3, <1>4 DEF PollingIInv, PollingTyped, PollingTypeOK
<1>6. \A b \in Callers : got'[b] \subseteq Answers /\ \A answer \in got'[b] : answer.id <= seen'
  BY <1>1, <1>4, TypedFacts
<1>7. stale' \in BOOLEAN /\ astray' \in BOOLEAN
  BY <1>1
<1>8. PollingTyped'
  BY <1>1, <1>2, <1>3, <1>4, <1>5, <1>6, <1>7 DEF PollingIInv, PollingTyped, PollingTypeOK
<1>9. VersionsDiffer'
  BY <1>1, <1>4 DEF PollingIInv, VersionsDiffer
<1>10. SeenIsUsed'
  BY <1>1 DEF SeenIsUsed
<1>11. EventsAreOwed'
  <2>1. callerPc["loop"] # "request" \/ c # "loop"
    BY <1>1
  <2>2. callerPc["loop"] = "request" => callerPc'["loop"] = "request"
    BY <1>3, <2>1, TypedFacts
  <2> QED
    BY <1>1, <2>2 DEF PollingIInv, EventsAreOwed
<1>12. RulesAreKept'
  <2>1. CASE node'.tag = node.tag
    <3>1. astray => astray'
      BY <1>1
    <3> QED
      BY <1>1, <2>1, <3>1 DEF PollingIInv, RulesAreKept
  <2>2. CASE node'.tag # node.tag
    BY <1>1, <2>2 DEF PollingIInv, RulesAreKept
  <2> QED
    BY <2>1, <2>2
<1> QED
  BY <1>8, <1>9, <1>10, <1>11, <1>12 DEF PollingIInv

-----------------------------------------------------------------------------
\* Rules that are not the ones the ETag stands for are on their way to be stored,
\* under whatever the tag is then; a list that does not compile goes astray.
LEMMA RulesKeep ==
  ASSUME PollingIInv, GetRules \/ GetRulesFails \/ StoreRules
  PROVE  PollingIInv'
<1>1. /\ UNCHANGED <<conf, rules, ruleChanges, seen, node, callerPc, got, stale>>
      /\ UNCHANGED <<trigger, kind, quiet, pushed, served, dropped, pushes>>
  BY DEF GetRules, GetRulesFails, StoreRules, panelVars, nodeVars, loopVars
<1>2. /\ rules \in Rules /\ ruleSeen \in Rules /\ ruleGot \in Rules /\ Empty \in Rules
      /\ blocking \in [Tags -> Rules] /\ astray \in BOOLEAN /\ node.tag \in Tags
      /\ rulePc \in {"idle", "store"}
  BY TypedFacts, BoundAssumption DEF PollingIInv, PollingTyped, PollingTypeOK, Rules, Empty
<1>3. /\ ruleSeen' \in Rules /\ ruleGot' \in Rules /\ rulePc' \in {"idle", "store"}
      /\ blocking' \in [Tags -> Rules] /\ astray' \in BOOLEAN
      /\ RulesAreKept'
  <2>1. CASE GetRules
    <3>1. rulePc = "idle" /\ ruleSeen' = rules /\ UNCHANGED <<blocking, astray>>
      BY <2>1 DEF GetRules
    <3>2. CASE rules = ruleSeen
      <4>1. UNCHANGED <<rulePc, ruleGot>>
        BY <2>1, <3>2 DEF GetRules
      <4> QED
        BY <1>1, <1>2, <3>1, <3>2, <4>1 DEF PollingIInv, RulesAreKept
    <3>3. CASE rules # ruleSeen
      <4>1. rulePc' = "store" /\ ruleGot' = rules
        BY <2>1, <3>3 DEF GetRules
      <4> QED
        BY <1>2, <3>1, <4>1 DEF RulesAreKept
    <3> QED
      BY <3>2, <3>3
  <2>2. CASE GetRulesFails
    <3>1. /\ rulePc = "idle" /\ UNCHANGED <<rulePc, ruleGot, blocking>>
          /\ (ruleSeen' = ruleSeen /\ astray' = astray) \/ (ruleSeen' = rules /\ astray' = TRUE)
      BY <2>2 DEF GetRulesFails
    <3> QED
      BY <1>1, <1>2, <3>1 DEF PollingIInv, RulesAreKept
  <2>3. CASE StoreRules
    <3>1. rulePc = "store" /\ rulePc' = "idle" /\ ruleGot' = Empty /\ ruleSeen' = ruleSeen
      BY <2>3 DEF StoreRules
    <3>2. ruleGot = ruleSeen
      BY <3>1 DEF PollingIInv, RulesAreKept
    <3>3. CASE ruleGot = Empty
      <4>1. UNCHANGED <<blocking, astray>>
        BY <2>3, <3>3 DEF StoreRules
      <4> QED
        BY <1>2, <3>1, <3>2, <3>3, <4>1 DEF RulesAreKept
    <3>4. CASE ruleGot # Empty
      <4>1. blocking' = [blocking EXCEPT ![node.tag] = ruleGot] /\ astray' = FALSE
        BY <2>3, <3>4 DEF StoreRules
      <4>2. blocking'[node.tag] = ruleGot /\ blocking' \in [Tags -> Rules]
        BY <1>2, <4>1
      <4> QED
        BY <1>1, <1>2, <3>1, <3>2, <4>1, <4>2 DEF RulesAreKept
    <3> QED
      BY <3>3, <3>4
  <2> QED
    BY <2>1, <2>2, <2>3
<1>4. PollingTyped'
  BY <1>1, <1>3 DEF PollingIInv, PollingTyped, PollingTypeOK
<1> QED
  BY <1>1, <1>3, <1>4 DEF PollingIInv, VersionsDiffer, SeenIsUsed, EventsAreOwed

LEMMA PollingStepKeeps == PollingIInv /\ [PollingNext]_pollingVars => PollingIInv'
<1> SUFFICES ASSUME PollingIInv, [PollingNext]_pollingVars PROVE PollingIInv'
  OBVIOUS
<1>1. CASE Change \/ ChangeRules \/ \E k \in Kinds : Trigger(k)
  BY <1>1, ChangeKeeps, ChangeRulesKeeps, TriggerKeeps
<1>2. CASE LoopStep
  <2>1. "loop" \in Callers
    BY DEF Callers
  <2> QED
    BY <1>2, <2>1, RequestKeeps, ApplyKeeps, SyncedKeeps, TakeKeeps, DebounceKeeps DEF LoopStep
<1>3. CASE Ticker \/ QuietEnds
  BY <1>3, QuietKeeps
<1>4. CASE TaskStep
  <2>1. "task" \in Callers
    BY DEF Callers
  <2> QED
    BY <1>4, <2>1, TaskDueKeeps, RequestKeeps, ApplyKeeps DEF TaskStep
<1>5. CASE \E c \in Callers : RequestFails(c)
  BY <1>5, RequestFailsKeeps
<1>6. CASE RuleStep \/ GetRulesFails
  BY <1>6, RulesKeep DEF RuleStep
<1>7. CASE UNCHANGED pollingVars
  <2>1. /\ UNCHANGED <<conf, rules, ruleChanges, seen, node, callerPc, got, stale>>
        /\ UNCHANGED <<trigger, kind, quiet, pushed, served, dropped, pushes>>
        /\ UNCHANGED <<ruleSeen, rulePc, ruleGot, blocking, astray, faults>>
    BY <1>7 DEF pollingVars, panelVars, nodeVars, loopVars, ruleVars
  <2>2. PollingTyped'
    BY <2>1 DEF PollingIInv, PollingTyped, PollingTypeOK
  <2> QED
    BY <2>1, <2>2 DEF PollingIInv, VersionsDiffer, SeenIsUsed, EventsAreOwed, RulesAreKept
<1> QED
  BY <1>1, <1>2, <1>3, <1>4, <1>5, <1>6, <1>7 DEF PollingNext

\* The invariant holds however the loop, the node task and the rule task overlap.
THEOREM PollingInductive == PollingSpec => []PollingIInv
<1> QED
  BY PollingInitIInv, PollingStepKeeps, PTL DEF PollingSpec

\* The answers, tokens, rules and versions of every caller keep their types.
THEOREM PollingTypeCorrect == PollingSpec => []PollingTypeOK
<1>1. PollingIInv => PollingTypeOK
  BY DEF PollingIInv, PollingTyped
<1> QED
  BY <1>1, PollingInductive, PTL

\* What the liveness properties of Polling.tla rest on, step by step: a 304 answer
\* means that the node is applied or held by a caller, unless stale says that it is
\* lost; an event is answered, has a token or is being asked about, unless dropped;
\* and rules that a 304 answer will confirm are in force, unless astray or empty.
NothingIsLost ==
    /\ seen = conf.id => stale \/ node = conf \/ \E c \in Callers : conf \in got[c]
    /\ pushed <= served \/ dropped \/ trigger # {} \/ callerPc["loop"] = "request"
    /\ rulePc = "idle" /\ ruleSeen = rules =>
          astray \/ rules = Empty \/ blocking[node.tag] = rules

\* A change, an event or a list of rules is lost only to the causes the liveness
\* properties name (api/node.go:90-95, controller.go:235-277 and 514-530).
THEOREM LossesAreNamed == PollingSpec => []NothingIsLost
<1>1. ASSUME PollingIInv PROVE NothingIsLost
  <2>1. seen = conf.id => stale \/ node = conf \/ \E c \in Callers : conf \in got[c]
    BY <1>1 DEF PollingIInv, VersionsDiffer, SeenIsUsed
  <2> QED
    BY <1>1, <2>1 DEF PollingIInv, EventsAreOwed, RulesAreKept, NothingIsLost
<1> QED
  BY <1>1, PollingInductive, PTL
=============================================================================
