------------------------------- MODULE Traffic -------------------------------
(***************************************************************************)
(* The traffic accounting of one node: the counters the connections of     *)
(* core/dispatcher add to (helper/counter), DrainDeltas, Chunk and         *)
(* ResetTraffic of limiter/limiter.go, and reportTraffic of                *)
(* subscription/manager.go, which pushes batches over Reverb and falls     *)
(* back to HTTP for those it could not push.                               *)
(*                                                                         *)
(* The "subscriptions" task runs SubscriptionMonitor; after a restart of   *)
(* the task the executions of the new generation may overlap the last one  *)
(* of the old (Periodic.tla), so there are several monitors, of which one  *)
(* is current.  Upload and download are read, reported and reset alike;    *)
(* the model keeps one of the two.                                         *)
(***************************************************************************)
EXTENDS Integers, FiniteSets, FiniteSetsExt

CONSTANTS
    Monitors,   \* generations of the task, each with its SubscriptionMonitor
    Users,      \* subscriptions of the node
    BatchSize,  \* reverbBatchSize
    MaxBytes,   \* bound on what all connections carry
    MaxFaults,  \* bound on reports that go wrong
    MaxChurn    \* bound on list changes, tag changes and restarts, together

ASSUME MonitorsAssumption == IsFiniteSet(Monitors)
ASSUME BatchAssumption == BatchSize \in Nat \ {0}
ASSUME BoundAssumption == MaxBytes \in Nat /\ MaxFaults \in Nat /\ MaxChurn \in Nat

\* Generations of the node's TrafficCounter: one per tag the node has had.
Gens == 0..MaxChurn

VARIABLES
    counter,    \* the bytes in each generation's storage of each user
    gen,        \* the TrafficCounter of the current tag
    listed,     \* users in the limiter's SubscriptionInfo
    current,    \* the generation the task executes
    pc,         \* where each monitor is
    tc,         \* the TrafficCounter it got
    visited,    \* users whose counter DrainDeltas has read
    amount,     \* what it read (0: no record)
    todo,       \* records reportTraffic has not pushed yet
    batch,      \* the chunk being reported
    undelivered,\* the chunks left for HTTP
    panel,      \* external: what the panel has billed
    faults, churn,
    carried,    \* history: what the connections carried
    lost,       \* history: pushes that succeeded locally and never arrived
    twice,      \* history: reports that were applied and then repeated
    overlapped  \* history: two monitors have been at work at once

stateVars == <<counter, gen, listed, current>>
monitorVars == <<pc, tc, visited, amount, todo, batch, undelivered>>
historyVars == <<carried, lost, twice, overlapped>>
trafficVars == <<stateVars, monitorVars, panel, faults, churn, historyVars>>

Zero == [u \in Users |-> 0]

TrafficInit ==
    /\ counter = [g \in Gens |-> Zero]
    /\ gen = 0
    /\ listed = Users
    /\ current \in Monitors
    /\ pc = [m \in Monitors |-> "idle"]
    /\ tc = [m \in Monitors |-> 0]
    /\ visited = [m \in Monitors |-> {}]
    /\ amount = [m \in Monitors |-> Zero]
    /\ todo = [m \in Monitors |-> {}]
    /\ batch = [m \in Monitors |-> {}]
    /\ undelivered = [m \in Monitors |-> {}]
    /\ panel = Zero
    /\ faults = 0 /\ churn = 0
    /\ carried = Zero /\ lost = Zero /\ twice = Zero
    /\ overlapped = FALSE

Goto(m, label) == pc' = [pc EXCEPT ![m] = label]

\* amounts of the users of a set, added to a total.
Plus(total, us, amounts) == [u \in Users |-> total[u] + IF u \in us THEN amounts[u] ELSE 0]

-----------------------------------------------------------------------------
(***************************************************************************)
(* The rest of the node: connections carry bytes, also on the storage of a *)
(* tag that is gone and for a user that is; apiMonitor changes the list    *)
(* and the tag, and restarts the task with another interval.               *)
(***************************************************************************)
Carry(u) ==
    /\ SumFunction(carried) < MaxBytes
    /\ \E g \in 0..gen : counter' = [counter EXCEPT ![g][u] = @ + 1]
    /\ carried' = [carried EXCEPT ![u] = @ + 1]
    /\ UNCHANGED <<gen, listed, current, monitorVars, panel, faults, churn, lost, twice,
                   overlapped>>

\* UpdateLimiter (of an added user) and RemoveSubscriptions
Relist(u) ==
    /\ churn < MaxChurn
    /\ churn' = churn + 1
    /\ listed' = IF u \in listed THEN listed \ {u} ELSE listed \cup {u}
    /\ UNCHANGED <<counter, gen, current, monitorVars, panel, faults, historyVars>>

\* The tag changed: DeleteCounter(oldTag); the new tag gets its own counter.
DeleteCounter ==
    /\ churn < MaxChurn
    /\ churn' = churn + 1
    /\ gen' = gen + 1
    /\ UNCHANGED <<counter, listed, current, monitorVars, panel, faults, historyVars>>

\* RestartWithInterval: an execution under way ends, and is its generation's last.
Restart ==
    /\ churn < MaxChurn
    /\ churn' = churn + 1
    /\ current' \in {m \in Monitors \ {current} : pc[m] = "idle"}
    /\ UNCHANGED <<counter, gen, listed, monitorVars, panel, faults, historyVars>>

-----------------------------------------------------------------------------
(***************************************************************************)
(* SubscriptionMonitor.  DrainDeltas reads one counter after another and   *)
(* resets none; users that (dis)appear meanwhile may or may not be seen.   *)
(***************************************************************************)
Begin(m) ==
    /\ pc[m] = "idle"
    /\ m = current
    /\ tc' = [tc EXCEPT ![m] = gen]
    /\ visited' = [visited EXCEPT ![m] = {}]
    /\ amount' = [amount EXCEPT ![m] = Zero]
    /\ overlapped' = (overlapped \/ \E o \in Monitors \ {m} : pc[o] # "idle")
    /\ Goto(m, "drain")
    /\ UNCHANGED <<stateVars, todo, batch, undelivered, panel, faults, churn, carried, lost,
                   twice>>

DrainDeltas(m) ==
    /\ pc[m] = "drain"
    /\ \E u \in listed \ visited[m] :
         /\ visited' = [visited EXCEPT ![m] = @ \cup {u}]
         /\ amount' = [amount EXCEPT ![m][u] = counter[tc[m]][u]]
    /\ UNCHANGED <<stateVars, pc, tc, todo, batch, undelivered, panel, faults, churn,
                   historyVars>>

Records(m) == {u \in Users : amount[m][u] # 0}

Drained(m) ==
    /\ pc[m] = "drain"
    /\ listed \subseteq visited[m]
    /\ todo' = [todo EXCEPT ![m] = Records(m)]
    /\ Goto(m, IF Records(m) = {} THEN "idle" ELSE "chunk")
    /\ UNCHANGED <<stateVars, tc, visited, amount, batch, undelivered, panel, faults, churn,
                   historyVars>>

(***************************************************************************)
(* reportTraffic: Chunk cuts the records into batches; then each is pushed *)
(* and reset on its own.                                                   *)
(***************************************************************************)
\* Mutant: start is not advanced past the batch.
ChunkSameStart(m) ==
    /\ pc[m] = "chunk"
    /\ todo[m] # {}
    /\ \E b \in SUBSET todo[m] :
         /\ Cardinality(b) = Min({BatchSize, Cardinality(todo[m])})
         /\ batch' = [batch EXCEPT ![m] = b]
    /\ Goto(m, "push")
    /\ UNCHANGED <<stateVars, tc, visited, amount, todo, undelivered, panel, faults, churn,
                   historyVars>>

Chunk(m) ==
    /\ pc[m] = "chunk"
    /\ todo[m] # {}
    /\ \E b \in SUBSET todo[m] :
         /\ Cardinality(b) = Min({BatchSize, Cardinality(todo[m])})
         /\ batch' = [batch EXCEPT ![m] = b]
         /\ todo' = [todo EXCEPT ![m] = @ \ b]
    /\ Goto(m, "push")
    /\ UNCHANGED <<stateVars, tc, visited, amount, undelivered, panel, faults, churn,
                   historyVars>>

\* The push arrives and is billed.
PushBatch(m) ==
    /\ pc[m] = "push"
    /\ panel' = Plus(panel, batch[m], amount[m])
    /\ Goto(m, "reset")
    /\ UNCHANGED <<stateVars, tc, visited, amount, todo, batch, undelivered, faults, churn,
                   historyVars>>

\* The local write succeeds and the panel never gets it ("invisible to the
\* sender", manager.go:265): the sender goes on as if it had arrived.
PushLost(m) ==
    /\ pc[m] = "push"
    /\ faults < MaxFaults
    /\ faults' = faults + 1
    /\ lost' = Plus(lost, batch[m], amount[m])
    /\ Goto(m, "reset")
    /\ UNCHANGED <<stateVars, tc, visited, amount, todo, batch, undelivered, panel, churn,
                   carried, twice, overlapped>>

\* Mutant: a chunk that could not be pushed is not kept for HTTP but reset.
PushFailsResets(m) ==
    /\ pc[m] = "push"
    /\ Goto(m, "reset")
    /\ UNCHANGED <<stateVars, tc, visited, amount, todo, batch, undelivered, panel, faults,
                   churn, historyVars>>

\* There is no Reverb connection (which is no fault), or the push reports an
\* error: the chunk is left for HTTP.
PushFails(m) ==
    /\ pc[m] = "push"
    /\ undelivered' = [undelivered EXCEPT ![m] = @ \cup batch[m]]
    /\ batch' = [batch EXCEPT ![m] = {}]
    /\ Goto(m, "chunk")
    /\ UNCHANGED <<stateVars, tc, visited, amount, todo, panel, faults, churn, historyVars>>

\* The write reports an error (its deadline passed, say) for a message that got
\* through: the chunk is billed, and left for HTTP all the same.
PushUnsure(m) ==
    /\ pc[m] = "push"
    /\ faults < MaxFaults
    /\ faults' = faults + 1
    /\ panel' = Plus(panel, batch[m], amount[m])
    /\ twice' = Plus(twice, batch[m], amount[m])
    /\ undelivered' = [undelivered EXCEPT ![m] = @ \cup batch[m]]
    /\ batch' = [batch EXCEPT ![m] = {}]
    /\ Goto(m, "chunk")
    /\ UNCHANGED <<stateVars, tc, visited, amount, todo, churn, carried, lost, overlapped>>

\* Mutant: every counter of the report is reset with its first chunk.
ResetWholeReport(m, us) ==
    counter' = [counter EXCEPT ![tc[m]] = [u \in Users |-> @[u] - amount[m][u]]]

\* Mutant: the delivered amounts stay in the counters.
ResetNothing(m, us) == counter' = counter

\* ResetTraffic: what was read is subtracted, from the storage it was read from.
ResetTraffic(m, us) ==
    counter' = [counter EXCEPT ![tc[m]] =
                  [u \in Users |-> @[u] - IF u \in us THEN amount[m][u] ELSE 0]]

ResetBatch(m) ==
    /\ pc[m] = "reset"
    /\ ResetTraffic(m, batch[m])
    /\ batch' = [batch EXCEPT ![m] = {}]
    /\ Goto(m, "chunk")
    /\ UNCHANGED <<gen, listed, current, tc, visited, amount, todo, undelivered, panel, faults, churn,
                   historyVars>>

\* All chunks have been tried.
Pushed(m) ==
    /\ pc[m] = "chunk"
    /\ todo[m] = {}
    /\ Goto(m, IF undelivered[m] = {} THEN "idle" ELSE "http")
    /\ UNCHANGED <<stateVars, tc, visited, amount, todo, batch, undelivered, panel, faults,
                   churn, historyVars>>

(***************************************************************************)
(* ReportTraffic over HTTP: one request for all that is undelivered.  The  *)
(* client retries up to five times (api/client.go:42), so a request whose  *)
(* reply was lost may be applied again.                                    *)
(***************************************************************************)
ReportTraffic(m) ==
    /\ pc[m] = "http"
    /\ panel' = Plus(panel, undelivered[m], amount[m])
    /\ Goto(m, "resetAll")
    /\ UNCHANGED <<stateVars, tc, visited, amount, todo, batch, undelivered, faults, churn,
                   historyVars>>

ReportRepeated(m) ==
    /\ pc[m] = "http"
    /\ faults < MaxFaults
    /\ faults' = faults + 1
    /\ panel' = Plus(panel, undelivered[m], amount[m])
    /\ twice' = Plus(twice, undelivered[m], amount[m])
    /\ UNCHANGED <<stateVars, monitorVars, churn, carried, lost, overlapped>>

\* Every attempt failed: the counters keep their amounts for the next cycle.
ReportFails(m) ==
    /\ pc[m] = "http"
    /\ faults < MaxFaults
    /\ faults' = faults + 1
    /\ undelivered' = [undelivered EXCEPT ![m] = {}]
    /\ Goto(m, "idle")
    /\ UNCHANGED <<stateVars, tc, visited, amount, todo, batch, panel, churn, historyVars>>

ResetUndelivered(m) ==
    /\ pc[m] = "resetAll"
    /\ ResetTraffic(m, undelivered[m])
    /\ undelivered' = [undelivered EXCEPT ![m] = {}]
    /\ Goto(m, "idle")
    /\ UNCHANGED <<gen, listed, current, tc, visited, amount, todo, batch, panel, faults, churn,
                   historyVars>>

Report(m) ==
    \/ PushBatch(m) \/ PushLost(m) \/ PushFails(m) \/ PushUnsure(m) \/ ResetBatch(m)
    \/ ReportTraffic(m) \/ ReportRepeated(m) \/ ReportFails(m) \/ ResetUndelivered(m)

Step(m) == Begin(m) \/ DrainDeltas(m) \/ Drained(m) \/ Chunk(m) \/ Pushed(m) \/ Report(m)

Node == (\E u \in Users : Carry(u) \/ Relist(u)) \/ DeleteCounter \/ Restart

TrafficNext == Node \/ \E m \in Monitors : Step(m)

(***************************************************************************)
(* The task executes again and again (Periodic.tla: NeverStalls) and every *)
(* request returns; what it returns is up to the network.                  *)
(***************************************************************************)
TrafficSpec == TrafficInit /\ [][TrafficNext]_trafficVars /\ \A m \in Monitors : WF_trafficVars(Step(m))

-----------------------------------------------------------------------------
(***************************************************************************)
(* Properties                                                              *)
(***************************************************************************)

TrafficTypeOK ==
    /\ counter \in [Gens -> [Users -> Int]]
    /\ gen \in Gens /\ tc \in [Monitors -> 0..gen]
    /\ listed \subseteq Users /\ current \in Monitors
    /\ pc \in [Monitors -> {"idle", "drain", "chunk", "push", "reset", "http", "resetAll"}]
    /\ amount \in [Monitors -> [Users -> Int]]
    /\ \A m \in Monitors :
         /\ todo[m] \cup batch[m] \cup undelivered[m] \subseteq Records(m)
         /\ todo[m] \cap batch[m] = {} /\ todo[m] \cap undelivered[m] = {}
         /\ batch[m] \cap undelivered[m] = {}

\* What a monitor has had delivered (or believes so) and not yet subtracted.
Owed(m, u) ==
    IF \/ pc[m] = "reset" /\ u \in batch[m]
       \/ pc[m] = "resetAll" /\ u \in undelivered[m]
    THEN amount[m][u] ELSE 0

Unreset(u) == SumFunction([m \in Monitors |-> Owed(m, u)])

Counted(u) == SumFunction([g \in Gens |-> counter[g][u]])

\* No byte is dropped and none invented, however reports fail, batches are
\* retried, monitors overlap and tags change: what the connections carried has
\* been billed or is still in a counter, but for what the network lost or
\* applied twice ("a failure at either layer leaves the counters intact for the
\* next cycle instead of silently dropping the traffic", manager.go:275).
Conserved ==
    \A u \in Users :
        carried[u] + twice[u] = panel[u] + lost[u] + Counted(u) - Unreset(u)

\* Nobody is billed for traffic that was not carried, unless two monitors have
\* overlapped (both then report what they both read, and the counter goes
\* negative) or the network repeated a report.
NeverOverbilled ==
    ~overlapped => \A u \in Users : panel[u] <= carried[u] + twice[u]

\* Both: the books balance, and while monitors take turns never to a user's cost.
BillsAreHonest == Conserved /\ NeverOverbilled

\* Overlapping monitors may bill too much, but it does not last: once reports
\* get through, the counters of the listed users of the current tag come to
\* zero again and with Conserved the bill is right (negative amounts included).
CountersSettle == <>[](\A u \in listed : counter[gen][u] = 0)
=============================================================================
