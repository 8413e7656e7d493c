------------------------------- MODULE Instance -------------------------------
(***************************************************************************)
(* core/instance: the node controllers of a server, the mutex i.mu, and    *)
(* the Reverb sessions (instance.go, server_poller.go, reverb.go).         *)
(*                                                                         *)
(* Goroutines: Start; the node poller and the trigger watcher, which both  *)
(* run syncServerNodes; one reverbListener per configured Reverb server;   *)
(* drainReverbOutbound; and the tasks of the controllers, which push       *)
(* events.  Start and syncServerNodes hold i.mu while they start           *)
(* controllers, and starting one whose node has a self-signed certificate  *)
(* pushes an event (node/selfsinged.go).  Only the drainer answers pushes, *)
(* and it needs i.mu for each.                                             *)
(*                                                                         *)
(* A controller is <<node, k>>: the k-th of its node that was kept.  Start *)
(* is called once in a process's life; a reload replaces the process.      *)
(***************************************************************************)
EXTENDS Naturals, Sequences, SequencesExt, FiniteSets, Functions

CONSTANTS
    Nodes,      \* nodes the panel may assign to this server
    SelfSigned, \* those with a self-signed certificate
    Listeners,  \* entries of ReverbConfig
    Tasks,      \* controller tasks that push events
    QueueSize,  \* capacity of reverbOutbound
    None,       \* no holder, no pusher, no node
    MaxChanges, \* bound on changes to the panel's node list
    MaxFaults   \* bound on failing requests and controller starts

ASSUME NodeAssumption == SelfSigned \subseteq Nodes
ASSUME QueueAssumption == QueueSize \in Nat \ {0}
ASSUME BoundAssumption == MaxChanges \in Nat /\ MaxFaults \in Nat

Syncers == {"poller", "watcher"}
Holders == Syncers \cup {"start"}
Pushers == Holders \cup Tasks

ASSUME NameAssumption ==
    /\ Tasks \cap (Holders \cup Listeners \cup {"drain"}) = {}
    /\ Listeners \cap (Holders \cup {"drain"}) = {}
    /\ None \notin Pushers \cup Listeners \cup Nodes

VARIABLES
    panel,      \* the panel's node list for the server
    phase,      \* "starting", "running", "stopped" or "crashed"
    mu,         \* who holds i.mu over several steps
    pc,         \* where each goroutine is
    answer,     \* the node list each Holder was answered
    todo,       \* nodes the holder of i.mu has yet to start
    starting,   \* the node whose Start is under way
    made,       \* how many controllers of each node were put in Service
    controllerMap, Service,
    active,     \* controllers with running tasks
    inbounds,   \* nodes that have an inbound in the engine
    currentPusher,
    open,       \* sessions that are not closed
    queue,      \* reverbOutbound: who waits for an answer
    job, got,   \* the drainer's item and the pusher it read
    trigger,    \* serverPollTrigger holds a token
    changes, faults,
    halfway     \* nodes whose port the listener of a failed Start keeps

ctlVars == <<made, controllerMap, Service, active, inbounds, halfway>>
holdVars == <<mu, answer, todo, starting>>
pushVars == <<queue, job, got>>
sessVars == <<currentPusher, open>>
vars == <<panel, phase, holdVars, pc, ctlVars, sessVars, pushVars, trigger, changes, faults>>

Init ==
    /\ panel \in SUBSET Nodes
    /\ phase = "starting"
    /\ mu = "start"
    /\ pc = [a \in Pushers \cup Listeners \cup {"drain"} |->
               IF a \in Tasks \/ a = "start" THEN "idle" ELSE "off"]
    /\ answer = [h \in Holders |-> {}]
    /\ todo = {} /\ starting = None
    /\ made = [n \in Nodes |-> 0]
    /\ controllerMap = << >> /\ Service = << >>
    /\ active = {} /\ inbounds = {}
    /\ currentPusher = None /\ open = {}
    /\ queue = << >> /\ job = None /\ got = None
    /\ trigger = FALSE
    /\ changes = 0 /\ faults = 0 /\ halfway = {}

Alive == phase # "crashed"
Goto(a, label) == pc' = [pc EXCEPT ![a] = label]
Fault == faults < MaxFaults /\ faults' = faults + 1

PanelChange ==
    /\ Alive
    /\ changes < MaxChanges
    /\ changes' = changes + 1
    /\ panel' \in SUBSET Nodes \ {panel}
    /\ UNCHANGED <<phase, holdVars, pc, ctlVars, sessVars, pushVars, trigger, faults>>

-----------------------------------------------------------------------------
(***************************************************************************)
(* Starting controllers, one after another, by whoever holds i.mu.         *)
(***************************************************************************)
\* Mutant: i.mu is let go while the push is answered.
StartNodeUnlocked(h) ==
    /\ Alive /\ mu = h /\ pc[h] = "nodes"
    /\ \E n \in todo :
         /\ starting' = n
         /\ todo' = todo \ {n}
         /\ mu' = IF n \in SelfSigned THEN None ELSE mu
         /\ Goto(h, IF n \in SelfSigned THEN "send" ELSE "built")
    /\ UNCHANGED <<panel, phase, answer, ctlVars, sessVars, pushVars, trigger, changes, faults>>

\* svc.Start, up to the push that a self-signed certificate causes.
StartNode(h) ==
    /\ Alive /\ mu = h /\ pc[h] = "nodes"
    /\ \E n \in todo :
         /\ starting' = n
         /\ todo' = todo \ {n}
         /\ Goto(h, IF n \in SelfSigned THEN "send" ELSE "built")
    /\ UNCHANGED <<panel, phase, mu, answer, ctlVars, sessVars, pushVars, trigger, changes,
                   faults>>

Controller == <<starting, made[starting] + 1>>

Keep ==
    /\ Service' = Append(Service, Controller)
    /\ made' = [made EXCEPT ![starting] = @ + 1]

Started(h) ==
    /\ Alive /\ mu = h /\ pc[h] = "built"
    /\ starting \notin halfway
    /\ controllerMap' = [n \in DOMAIN controllerMap \cup {starting} |->
                           IF n = starting THEN Controller ELSE controllerMap[n]]
    /\ Keep
    /\ active' = active \cup {Controller}
    /\ inbounds' = inbounds \cup {starting}
    /\ starting' = None
    /\ Goto(h, "nodes")
    /\ UNCHANGED <<panel, phase, mu, answer, todo, halfway, sessVars, pushVars, trigger, changes,
                   faults>>

\* svc.Start returns an error.  Start lists the controller in Service all the
\* same; syncServerNodes drops it.
NotStarted(h) ==
    /\ Alive /\ mu = h /\ pc[h] = "built"
    /\ IF h = "start" THEN Keep ELSE UNCHANGED <<Service, made>>
    /\ starting' = None
    /\ Goto(h, "nodes")
    /\ UNCHANGED <<panel, phase, mu, answer, todo, controllerMap, active, sessVars, pushVars,
                   trigger, changes>>

\* Before AddNode, or after it put the inbound up.  The inbound's scopes are in
\* the node manager of that controller (inboundScopes), which nobody closes before
\* Stop, and an inbound's own Close does nothing: its listener stays.
StartFails(h) ==
    /\ Fault
    /\ \/ UNCHANGED <<inbounds, halfway>>
       \/ /\ starting \notin halfway
          /\ inbounds' = inbounds \cup {starting} /\ halfway' = halfway \cup {starting}
    /\ NotStarted(h)

\* Its port is taken: AddNode's inbound replaces the one registered, does not
\* start, and is rolled back.  (The panel is not taken to change the port.)
StartBlocked(h) ==
    /\ starting \in halfway
    /\ inbounds' = inbounds \ {starting}
    /\ NotStarted(h)
    /\ UNCHANGED <<halfway, faults>>

-----------------------------------------------------------------------------
(***************************************************************************)
(* Instance.Start, from GetServerNodes on.  The goroutines are launched    *)
(* after the controllers have been started, the drainer last.              *)
(***************************************************************************)
GetServerNodes ==
    /\ Alive /\ pc["start"] = "idle" /\ phase = "starting"
    /\ answer' = [answer EXCEPT !["start"] = panel]
    /\ todo' = panel
    /\ Goto("start", "nodes")
    /\ UNCHANGED <<panel, phase, mu, starting, ctlVars, sessVars, pushVars, trigger, changes,
                   faults>>

Launch ==
    /\ Alive /\ mu = "start" /\ pc["start"] = "nodes" /\ todo = {}
    /\ phase' = "running"
    /\ mu' = None
    /\ pc' = [a \in DOMAIN pc |-> IF a = "start" THEN "off"
                                  ELSE IF a \in Listeners THEN "dial"
                                  ELSE IF a \in Syncers \cup {"drain"} THEN "idle" ELSE pc[a]]
    /\ UNCHANGED <<panel, answer, todo, starting, ctlVars, sessVars, pushVars, trigger, changes,
                   faults>>

-----------------------------------------------------------------------------
(***************************************************************************)
(* syncServerNodes, by the poller or, after a trigger, by the watcher: the *)
(* list is fetched without i.mu, and applied with it.                      *)
(***************************************************************************)
Fetch(s) ==
    /\ Alive /\ pc[s] = "idle"
    /\ IF s = "poller" THEN phase = "running" /\ UNCHANGED trigger
                       ELSE trigger /\ trigger' = FALSE
    /\ \/ /\ answer' = [answer EXCEPT ![s] = panel]
          /\ Goto(s, "lock")
          /\ UNCHANGED faults
       \/ Fault /\ UNCHANGED <<answer, pc>>
    /\ UNCHANGED <<panel, phase, mu, todo, starting, ctlVars, sessVars, pushVars, changes>>

Gone(s) == DOMAIN controllerMap \ answer[s]

\* The entries of Service that are left when, for each node that went, the
\* first controller of that node is taken out.
Without(service, gone) ==
    LET first(i) == \A j \in 1..(i - 1) : service[j][1] # service[i][1]
        keep == {i \in DOMAIN service : ~(service[i][1] \in gone /\ first(i))}
    IN [i \in 1..Cardinality(keep) |->
          service[CHOOSE k \in keep : Cardinality({j \in keep : j <= k}) = i]]

\* Mutant: a removed node is forgotten without being closed.
ApplyNoClose(s) ==
    /\ Alive /\ pc[s] = "lock" /\ mu = None /\ phase = "running"
    /\ mu' = s
    /\ controllerMap' = Restrict(controllerMap, DOMAIN controllerMap \ Gone(s))
    /\ Service' = Without(Service, Gone(s))
    /\ todo' = answer[s] \ DOMAIN controllerMap
    /\ Goto(s, "nodes")
    /\ UNCHANGED <<panel, phase, answer, starting, made, active, inbounds, halfway, sessVars,
                   pushVars, trigger, changes, faults>>

\* Mutant: nodes that have gone are left alone.
ApplyAddsOnly(s) ==
    /\ Alive /\ pc[s] = "lock" /\ mu = None /\ phase = "running"
    /\ mu' = s
    /\ todo' = answer[s] \ DOMAIN controllerMap
    /\ Goto(s, "nodes")
    /\ UNCHANGED <<panel, phase, answer, starting, ctlVars, sessVars, pushVars, trigger,
                   changes, faults>>

\* Mutant: the controller is closed, but its inbound is not removed.
ApplyKeepsInbounds(s) ==
    /\ Alive /\ pc[s] = "lock" /\ mu = None /\ phase = "running"
    /\ mu' = s
    /\ active' = active \ {controllerMap[n] : n \in Gone(s)}
    /\ controllerMap' = Restrict(controllerMap, DOMAIN controllerMap \ Gone(s))
    /\ Service' = Without(Service, Gone(s))
    /\ todo' = answer[s] \ DOMAIN controllerMap
    /\ Goto(s, "nodes")
    /\ UNCHANGED <<panel, phase, answer, starting, made, inbounds, halfway, sessVars, pushVars,
                   trigger, changes, faults>>

\* i.mu is taken, and the controllers of nodes that went are closed.
Apply(s) ==
    /\ Alive /\ pc[s] = "lock" /\ mu = None /\ phase = "running"
    /\ mu' = s
    /\ active' = active \ {controllerMap[n] : n \in Gone(s)}
    /\ inbounds' = inbounds \ Gone(s)
    /\ controllerMap' = Restrict(controllerMap, DOMAIN controllerMap \ Gone(s))
    /\ Service' = Without(Service, Gone(s))
    /\ todo' = answer[s] \ DOMAIN controllerMap
    /\ Goto(s, "nodes")
    /\ UNCHANGED <<panel, phase, answer, starting, made, halfway, sessVars, pushVars, trigger,
                   changes, faults>>

\* After Stop there is no engine and no controllerMap: starting a controller
\* is a nil dereference, unless its own first request to the panel fails.
ApplyStopped(s) ==
    /\ Alive /\ pc[s] = "lock" /\ mu = None /\ phase = "stopped"
    /\ \/ phase' = (IF answer[s] = {} THEN phase ELSE "crashed") /\ UNCHANGED faults
       \/ answer[s] # {} /\ Fault /\ UNCHANGED phase
    /\ Goto(s, "idle")
    /\ UNCHANGED <<panel, holdVars, ctlVars, sessVars, pushVars, trigger, changes>>

Unlock(s) ==
    /\ Alive /\ mu = s /\ pc[s] = "nodes" /\ todo = {}
    /\ mu' = None
    /\ Goto(s, "idle")
    /\ UNCHANGED <<panel, phase, answer, todo, starting, ctlVars, sessVars, pushVars, trigger,
                   changes, faults>>

(***************************************************************************)
(* Instance.Stop, which nothing in it blocks once it has i.mu.             *)
(***************************************************************************)
Stop ==
    /\ phase = "running" /\ mu = None
    /\ phase' = "stopped"
    /\ active' = active \ ToSet(Service)
    /\ inbounds' = {} /\ halfway' = {}
    /\ Service' = << >> /\ controllerMap' = << >>
    /\ UNCHANGED <<panel, holdVars, pc, made, sessVars, pushVars, trigger, changes, faults>>

-----------------------------------------------------------------------------
(***************************************************************************)
(* reverbListener.                                                         *)
(***************************************************************************)
\* The connection comes up and its session is registered. After Stop the
\* context is cancelled, which a listener may see only after it registered.
Register(l) ==
    /\ Alive /\ pc[l] = "dial" /\ mu = None
    /\ currentPusher' = l
    /\ open' = open \cup {l}
    /\ Goto(l, "session")
    /\ UNCHANGED <<panel, phase, holdVars, ctlVars, pushVars, trigger, changes, faults>>

Cancelled(l) ==
    /\ Alive /\ pc[l] = "dial" /\ phase = "stopped"
    /\ Goto(l, "off")
    /\ UNCHANGED <<panel, phase, holdVars, ctlVars, sessVars, pushVars, trigger, changes, faults>>

\* handleReverbMessage, "server_updated": the token is dropped when one waits.
Event(l) ==
    /\ Alive /\ pc[l] = "session"
    /\ trigger' = TRUE
    /\ UNCHANGED <<panel, phase, holdVars, pc, ctlVars, sessVars, pushVars, changes, faults>>

\* handleReverbMessage, the other events: controllerMap is read without i.mu,
\* and the runtime may abort the process when a holder writes it.
EventRaces(l) ==
    /\ Alive /\ pc[l] = "session"
    /\ mu \in Syncers
    /\ phase' = "crashed"
    /\ UNCHANGED <<panel, holdVars, pc, ctlVars, sessVars, pushVars, trigger, changes, faults>>

\* Mutant: the pusher stays registered.
UnregisterKeepsPusher(l) ==
    /\ Alive /\ pc[l] = "session" /\ mu = None
    /\ open' = open \ {l}
    /\ Goto(l, "dial")
    /\ UNCHANGED <<panel, phase, holdVars, ctlVars, currentPusher, pushVars, trigger, changes,
                   faults>>

\* The session ends, and unregisters the pusher, whichever session's it is.
Unregister(l) ==
    /\ Alive /\ pc[l] = "session" /\ mu = None
    /\ currentPusher' = None
    /\ open' = open \ {l}
    /\ Goto(l, "dial")
    /\ UNCHANGED <<panel, phase, holdVars, ctlVars, pushVars, trigger, changes, faults>>

Listen(l) == Register(l) \/ Cancelled(l) \/ Event(l) \/ EventRaces(l) \/ Unregister(l)

-----------------------------------------------------------------------------
(***************************************************************************)
(* PushEvent and drainReverbOutbound.                                      *)
(***************************************************************************)
BeginPush(t) ==
    /\ Alive /\ pc[t] = "idle"
    /\ active # {}
    /\ Goto(t, "send")
    /\ UNCHANGED <<panel, phase, holdVars, ctlVars, sessVars, pushVars, trigger, changes, faults>>

Send(p) ==
    /\ Alive /\ pc[p] = "send"
    /\ Len(queue) < QueueSize
    /\ queue' = Append(queue, p)
    /\ Goto(p, "wait")
    /\ UNCHANGED <<panel, phase, holdVars, ctlVars, sessVars, job, got, trigger, changes, faults>>

Take ==
    /\ Alive /\ pc["drain"] = "idle"
    /\ queue # << >>
    /\ job' = Head(queue)
    /\ queue' = Tail(queue)
    /\ Goto("drain", "lock")
    /\ UNCHANGED <<panel, phase, holdVars, ctlVars, sessVars, got, trigger, changes, faults>>

ReadPusher ==
    /\ Alive /\ pc["drain"] = "lock" /\ mu = None
    /\ got' = currentPusher
    /\ Goto("drain", "reply")
    /\ UNCHANGED <<panel, phase, holdVars, ctlVars, sessVars, queue, job, trigger, changes,
                   faults>>

Returned(p) == IF p \in Holders THEN "built" ELSE "idle"

\* Mutant: without a connection nobody is answered.
ReplyIfConnected ==
    /\ Alive /\ pc["drain"] = "reply"
    /\ pc' = IF got = None THEN [pc EXCEPT !["drain"] = "idle"]
             ELSE [pc EXCEPT !["drain"] = "idle", ![job] = Returned(job)]
    /\ job' = None /\ got' = None
    /\ UNCHANGED <<panel, phase, holdVars, ctlVars, sessVars, queue, trigger, changes, faults>>

\* The write succeeds, fails, times out, or is refused by a closed session: in
\* any case the pusher that waits is answered.
Reply ==
    /\ Alive /\ pc["drain"] = "reply"
    /\ pc' = [pc EXCEPT !["drain"] = "idle", ![job] = Returned(job)]
    /\ job' = None /\ got' = None
    /\ UNCHANGED <<panel, phase, holdVars, ctlVars, sessVars, queue, trigger, changes, faults>>

Drain == Take \/ ReadPusher \/ Reply

-----------------------------------------------------------------------------
Hold(h) == StartNode(h) \/ Started(h) \/ StartFails(h) \/ StartBlocked(h) \/ Send(h)
Boot == GetServerNodes \/ Hold("start") \/ Launch
Sync(s) == Fetch(s) \/ Apply(s) \/ ApplyStopped(s) \/ Hold(s) \/ Unlock(s)

Next ==
    \/ PanelChange \/ Stop \/ Boot \/ Drain
    \/ \E s \in Syncers : Sync(s)
    \/ \E l \in Listeners : Listen(l)
    \/ \E t \in Tasks : BeginPush(t) \/ Send(t)

(***************************************************************************)
(* The runtime schedules every goroutine, the poller's timer fires again   *)
(* and again (Periodic.tla), requests and writes return (they have         *)
(* timeouts), and a Go mutex and channel keep no waiter out forever (a     *)
(* mutex in starvation mode is handed to its first waiter): strong         *)
(* fairness.  No session has to come up or end.                            *)
(***************************************************************************)
Fairness ==
    /\ WF_vars(Boot) /\ SF_vars(Drain)
    /\ \A s \in Syncers : SF_vars(Sync(s))
    /\ \A t \in Tasks : SF_vars(Send(t))

Spec == Init /\ [][Next]_vars /\ Fairness

-----------------------------------------------------------------------------
(***************************************************************************)
(* Properties                                                              *)
(***************************************************************************)
TypeOK ==
    /\ panel \subseteq Nodes
    /\ phase \in {"starting", "running", "stopped", "crashed"}
    /\ mu \in Holders \cup {None}
    /\ \A h \in Holders : pc[h] \in {"off", "idle", "lock", "nodes", "send", "wait", "built"}
    /\ todo \subseteq Nodes /\ starting \in Nodes \cup {None}
    /\ \A h \in Holders : pc[h] \in {"send", "wait", "built"} => mu = h /\ starting # None
    /\ DOMAIN controllerMap \subseteq Nodes
    /\ \A n \in DOMAIN controllerMap : controllerMap[n][1] = n
    /\ ToSet(Service) \cup active \subseteq Nodes \X Nat
    /\ currentPusher \in Listeners \cup {None} /\ open \subseteq Listeners
    /\ Len(queue) <= QueueSize

\* Every controller whose tasks run is the one controllerMap names for its
\* node, so events reach it and a later list can close it, and is in Service,
\* so Stop can: however failed starts, removals and returns of a node left
\* earlier controllers of that node behind in Service.
ControllersAreKnown ==
    \A c \in active :
        /\ c[1] \in DOMAIN controllerMap /\ controllerMap[c[1]] = c
        /\ c \in ToSet(Service)

\* "new nodes are started, removed nodes are stopped" (server_poller.go:57):
\* the engine has an inbound exactly for the nodes with a running controller, but
\* for those whose Start failed half-way, which nobody takes down.
InboundsAreControlled ==
    phase = "running" => inbounds \ halfway = DOMAIN controllerMap

\* Both: engine, controllerMap and Service name the same nodes after any list.
NodesAreAccountedFor == ControllersAreKnown /\ InboundsAreControlled

\* The registered pusher is never that of a closed session, whichever of
\* several sessions ends first.
PusherIsOpen == currentPusher # None => currentPusher \in open

\* A goroutine waits, in PushEvent, for the drainer, which waits for i.mu,
\* which the first one holds.
Wedged == mu # None /\ pc[mu] \in {"send", "wait"}

\* The running controllers become, and stay, those of the panel's list: a list
\* fetched before another was applied, and applied after it, is put right. They
\* never do when a self-signed node wedges the instance, nor for a node whose
\* Start once failed half-way; all the other nodes follow the list even so.
NodesFollowPanel ==
    <>[](phase = "running" => Wedged \/ DOMAIN controllerMap = panel \ halfway)

\* A task that pushes an event gets an answer, with or without a session and
\* with a full queue, unless the instance is wedged.
TaskPushesReturn ==
    \A t \in Tasks :
        pc[t] = "send" ~> pc[t] = "idle" \/ Wedged \/ phase = "crashed"

\* What PushEvent promises everyone: "Returns an error if there is no active
\* connection" (reverb.go:276) rather than waiting for ever.
PushEventReturns ==
    \A p \in Pushers : pc[p] = "wait" ~> pc[p] # "wait" \/ phase = "crashed"
=============================================================================
