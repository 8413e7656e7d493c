------------------------------ MODULE Periodic ------------------------------
(***************************************************************************)
(* helper/scheduler/periodic.go: one Periodic, its timer and the           *)
(* goroutines its timers start.                                            *)
(*                                                                         *)
(* A "call" is one time.AfterFunc object together with the goroutine that  *)
(* runs t.run(gen) once it fires:                                          *)
(*                                                                         *)
(*   armed    the timer is pending                                         *)
(*   fired    the goroutine exists and has not yet taken t.access          *)
(*   cleared  run's first critical section let it through; it is about to  *)
(*            call t.Execute()                                             *)
(*   exec     t.Execute() is under way                                     *)
(*                                                                         *)
(* Every critical section of t.access is one action, because nothing in it *)
(* blocks.  The time a timer waits is abstracted: it may fire at any       *)
(* moment.  Owners (PeriodicTask, see Scheduler.tla) call Start and Close  *)
(* at any moment and in any order, also while Execute runs.                *)
(***************************************************************************)
EXTENDS Naturals

CONSTANTS
    Calls,      \* the pool of AfterFunc objects
    NoCall,     \* t.timer = nil
    MaxGen      \* bound on gen: how many times Start and Close happen

ASSUME NoCallAssumption == NoCall \notin Calls
ASSUME MaxGenAssumption == MaxGen \in Nat

VARIABLES
    running,    \* t.running
    gen,        \* t.gen
    timer,      \* t.timer
    pc,         \* where each call is
    cgen        \* the gen each call's closure captured

vars == <<running, gen, timer, pc, cgen>>

Free == {c \in Calls : pc[c] = "free"}
Live == {c \in Calls : pc[c] # "free"}

\* A call that belongs to the generation Start began last.
Current(c) == cgen[c] = gen

Init ==
    /\ running = FALSE
    /\ gen = 0
    /\ timer = NoCall
    /\ pc = [c \in Calls |-> "free"]
    /\ cgen = [c \in Calls |-> 0]

-----------------------------------------------------------------------------
(***************************************************************************)
(* Start: returns early when running; otherwise a new generation begins    *)
(* and schedule() arms a timer that captures it.                           *)
(***************************************************************************)
\* Mutant: the timer captures the generation Start found.
StartStaleGen ==
    /\ ~running
    /\ gen < MaxGen
    /\ running' = TRUE
    /\ gen' = gen + 1
    /\ \E c \in Free :
         /\ timer' = c
         /\ pc' = [pc EXCEPT ![c] = "armed"]
         /\ cgen' = [cgen EXCEPT ![c] = gen]

Start ==
    /\ ~running
    /\ gen < MaxGen
    /\ running' = TRUE
    /\ gen' = gen + 1
    /\ \E c \in Free :
         /\ timer' = c
         /\ pc' = [pc EXCEPT ![c] = "armed"]
         /\ cgen' = [cgen EXCEPT ![c] = gen + 1]

(***************************************************************************)
(* Close: invalidates the generation and stops the timer t.timer names, if *)
(* it is still pending; a timer that fired cannot be stopped any more.     *)
(***************************************************************************)
\* Mutant: the pending timer is forgotten, not stopped.
CloseKeepTimer ==
    /\ gen < MaxGen
    /\ running' = FALSE
    /\ gen' = gen + 1
    /\ timer' = NoCall
    /\ UNCHANGED <<pc, cgen>>

Close ==
    /\ gen < MaxGen
    /\ running' = FALSE
    /\ gen' = gen + 1
    /\ pc' = IF timer # NoCall /\ pc[timer] = "armed"
             THEN [pc EXCEPT ![timer] = "free"]
             ELSE pc
    /\ timer' = NoCall
    /\ UNCHANGED cgen

\* The runtime fires a pending timer: its goroutine is created.
Fire(c) ==
    /\ pc[c] = "armed"
    /\ pc' = [pc EXCEPT ![c] = "fired"]
    /\ UNCHANGED <<running, gen, timer, cgen>>

\* run's first critical section (lines 36-41).
\* Mutant: only running is tested.
PassesAnyRun(c) == running

Passes(c) == running /\ Current(c)

\* Mutant: a call that may not execute now tries again later.
CheckOrRetry(c) ==
    /\ pc[c] = "fired"
    /\ pc' = [pc EXCEPT ![c] = IF Passes(c) THEN "cleared" ELSE "armed"]
    /\ UNCHANGED <<running, gen, timer, cgen>>

Check(c) ==
    /\ pc[c] = "fired"
    /\ pc' = [pc EXCEPT ![c] = IF Passes(c) THEN "cleared" ELSE "free"]
    /\ UNCHANGED <<running, gen, timer, cgen>>

\* t.Execute() is entered, outside the lock.
Execute(c) ==
    /\ pc[c] = "cleared"
    /\ pc' = [pc EXCEPT ![c] = "exec"]
    /\ UNCHANGED <<running, gen, timer, cgen>>

(***************************************************************************)
(* t.Execute() returned and run's second critical section (lines 45-49):   *)
(* re-arm under the same generation, or end.                               *)
(***************************************************************************)
\* Mutant: the second check tests running alone, and the timer captures t.gen.
RearmIfRunning(c) ==
    /\ pc[c] = "exec"
    /\ running
    /\ \E d \in Free \cup {c} :
         /\ timer' = d
         /\ pc' = [[pc EXCEPT ![c] = "free"] EXCEPT ![d] = "armed"]
         /\ cgen' = [cgen EXCEPT ![d] = gen]
    /\ UNCHANGED <<running, gen>>

\* Mutant: every re-arming begins a generation of its own.
RearmNewGen(c) ==
    /\ pc[c] = "exec"
    /\ gen' = gen + 1
    /\ timer' = c
    /\ pc' = [pc EXCEPT ![c] = "armed"]
    /\ cgen' = [cgen EXCEPT ![c] = gen + 1]
    /\ UNCHANGED running

Rearm(c) ==
    /\ pc[c] = "exec"
    /\ running /\ Current(c)
    /\ \E d \in Free \cup {c} :
         /\ timer' = d
         /\ pc' = [[pc EXCEPT ![c] = "free"] EXCEPT ![d] = "armed"]
         /\ cgen' = [cgen EXCEPT ![d] = cgen[c]]
    /\ UNCHANGED <<running, gen>>

Finish(c) ==
    /\ pc[c] = "exec"
    /\ ~(running /\ Current(c))
    /\ pc' = [pc EXCEPT ![c] = "free"]
    /\ UNCHANGED <<running, gen, timer, cgen>>

-----------------------------------------------------------------------------
Step(c) == Fire(c) \/ Check(c) \/ Execute(c) \/ Rearm(c) \/ Finish(c)

Next ==
    \/ Start
    \/ Close
    \/ \E c \in Calls : Step(c)

(***************************************************************************)
(* The runtime fires a pending timer and schedules every goroutine, and    *)
(* Execute returns: each call's steps are weakly fair.  Nobody has to call *)
(* Start or Close.                                                         *)
(***************************************************************************)
Fairness == \A c \in Calls : WF_vars(Step(c))

Spec == Init /\ [][Next]_vars /\ Fairness

-----------------------------------------------------------------------------
(***************************************************************************)
(* Properties                                                              *)
(***************************************************************************)

TypeOK ==
    /\ running \in BOOLEAN
    /\ gen \in 0..MaxGen
    /\ timer \in Calls \cup {NoCall}
    /\ pc \in [Calls -> {"free", "armed", "fired", "cleared", "exec"}]
    /\ cgen \in [Calls -> 0..MaxGen]

\* However Start, Close and Execute interleave, one generation never has two
\* live calls: the executions of a generation cannot overlap, and the timer
\* chain cannot fork (run's second check, periodic.go:47).
OneChainPerGen ==
    \A c, d \in Live : cgen[c] = cgen[d] => c = d

\* A running Periodic always has exactly the call that leads to its next
\* Execute: no interleaving of Close, Start and a returning Execute leaves it
\* running with nothing scheduled.
NeverStalls == running => \E c \in Live : Current(c)

\* The only pending timer there ever is, is the one t.timer names, and only
\* while running: Close (periodic.go:76-79) can always stop what is pending, so
\* none fires for a generation that was closed before it.
ClosedHasNoTimer ==
    \A c \in Calls : pc[c] = "armed" => running /\ timer = c /\ Current(c)

\* The three together: while running there is one timer chain, afterwards none,
\* and every step of Start, Close and run knows which.
OneTimerChain == OneChainPerGen /\ NeverStalls /\ ClosedHasNoTimer

\* After a Close that is never followed by a Start, every goroutine the
\* Periodic ever started ends: none waits for a lock or for a timer forever.
Quiesces == <>[](~running) => <>[](Live = {})

\* The Periodic implements its promise: the epochs with an execution under
\* way are the generations of the calls that passed run's first check.
Inflight == {cgen[c] : c \in {x \in Calls : pc[x] \in {"cleared", "exec"}}}

Promise == INSTANCE Ticker WITH on <- running, epoch <- gen,
                                inflight <- Inflight

ImplementsTicker == Promise!Spec
=============================================================================
