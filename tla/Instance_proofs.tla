-------------------------- MODULE Instance_proofs --------------------------
(***************************************************************************)
(* Proofs that engine, controllerMap and Service name the same nodes after *)
(* any lists and failed starts, that the registered pusher is open, that   *)
(* no push is lost, and that a list is applied whole (core/instance), for  *)
(* any nodes, Reverb servers and tasks.                                    *)
(***************************************************************************)
EXTENDS Instance, FiniteSetTheorems, SequenceTheorems, TLAPS

(***************************************************************************)
(* The inductive invariant.                                                *)
(***************************************************************************)
Controllers == Nodes \X Nat
HolderLocs == {"off", "idle", "lock", "nodes", "send", "wait", "built"}

Placed ==
    /\ DOMAIN pc = Pushers \cup Listeners \cup {"drain"}
    /\ \A h \in Holders : pc[h] \in HolderLocs
    /\ \A t \in Tasks : pc[t] \in {"idle", "send", "wait"}
    /\ pc["drain"] \in {"off", "idle", "lock", "reply"}

Typed ==
    /\ panel \subseteq Nodes /\ answer \in [Holders -> SUBSET Nodes]
    /\ phase \in {"starting", "running", "stopped", "crashed"}
    /\ made \in [Nodes -> Nat]
    /\ DOMAIN controllerMap \subseteq Nodes
    /\ \A n \in DOMAIN controllerMap : controllerMap[n] \in {n} \X Nat
    /\ Service \in Seq(Controllers) /\ active \subseteq Controllers
    /\ currentPusher \in Listeners \cup {None} /\ open \subseteq Listeners

\* Who waits for the drainer, waits for one answer.
Waiting ==
    /\ queue \in Seq(Pushers) /\ Len(queue) <= QueueSize
    /\ job \in Pushers \cup {None}
    /\ pc["drain"] \in {"lock", "reply"} => job \in Pushers
    /\ pc["drain"] \in {"lock", "reply"} => pc[job] = "wait"
    /\ \A i \in DOMAIN queue : pc[queue[i]] = "wait"
    /\ \A i, j \in DOMAIN queue : queue[i] = queue[j] => i = j
    /\ pc["drain"] \in {"lock", "reply"} => \A i \in DOMAIN queue : queue[i] # job

\* One goroutine at a time is in the part of the code that holds i.mu, and
\* only there a controller is being started; in Start it is Start itself.
Held ==
    /\ mu \in Holders \cup {None}
    /\ \A h \in Holders : pc[h] \in {"nodes", "send", "wait", "built"} => mu = h
    /\ \A h \in Holders : pc[h] \in {"send", "wait", "built"} => starting # None
    /\ starting # None => mu \in Holders /\ pc[mu] \in {"send", "wait", "built"}
    /\ phase = "starting" => mu = "start" /\ pc["drain"] = "off"
    /\ mu = "start" => phase = "starting"
    /\ phase = "starting" => \A s \in Syncers : pc[s] = "off"
    /\ pc["start"] = "idle" => phase = "starting" /\ DOMAIN controllerMap = {}

\* What is still to be started has no controller yet.
ToStart ==
    /\ todo \subseteq Nodes /\ starting \in Nodes \cup {None}
    /\ todo \cap DOMAIN controllerMap = {}
    /\ starting \notin todo /\ starting \notin DOMAIN controllerMap

\* As InboundsAreControlled, but while Start is at work too.
Inbounds ==
    phase \in {"starting", "running"} =>
        inbounds \ halfway = DOMAIN controllerMap

IInv ==
    /\ Placed /\ Typed /\ Waiting /\ Held /\ ToStart
    /\ ControllersAreKnown /\ Inbounds /\ PusherIsOpen
-----------------------------------------------------------------------------
(***************************************************************************)
(* The goroutines and where they move.                                     *)
(***************************************************************************)
LEMMA Names ==
  /\ Holders = {"poller", "watcher", "start"} /\ Syncers = {"poller", "watcher"}
  /\ Holders \subseteq Pushers /\ Tasks \subseteq Pushers
  /\ "drain" \notin Pushers /\ None \notin Pushers /\ None \notin Nodes /\ None \notin Listeners
  /\ Tasks \cap Holders = {} /\ Listeners \cap Pushers = {} /\ "drain" \notin Listeners
BY NameAssumption DEF Holders, Syncers, Pushers

\* One goroutine goes to another place.
Goes(a, l) ==
    /\ a \in DOMAIN pc /\ pc'[a] = l /\ DOMAIN pc' = DOMAIN pc
    /\ \A b \in DOMAIN pc \ {a} : pc'[b] = pc[b]

LEMMA GotoGoes ==
  ASSUME Placed, NEW a, NEW l, a \in Pushers \cup Listeners \cup {"drain"}, Goto(a, l)
  PROVE  Goes(a, l)
BY DEF Placed, Goto, Goes

\* Nobody stops waiting and the drainer is where it was.
LEMMA WaitingKeeps ==
  ASSUME Placed, Waiting, UNCHANGED pushVars,
         pc'["drain"] = pc["drain"] \/ pc'["drain"] = "idle",
         \A p \in Pushers : pc[p] = "wait" => pc'[p] = "wait"
  PROVE  Waiting'
<1>1. UNCHANGED <<queue, job, got>>
  BY DEF pushVars
<1>2. \A i \in DOMAIN queue : queue[i] \in Pushers
  BY DEF Waiting
<1>3. /\ pc'["drain"] \in {"lock", "reply"} => pc["drain"] \in {"lock", "reply"}
      /\ pc["drain"] \in {"lock", "reply"} => job \in Pushers /\ pc[job] = "wait"
  BY DEF Waiting
<1> QED
  BY <1>1, <1>2, <1>3 DEF Waiting

\* A holder of i.mu moves from one place to another, neither of them a wait.
LEMMA HolderMoves ==
  ASSUME Placed, Waiting, NEW h \in Holders, NEW l \in HolderLocs,
         pc[h] # "wait", Goto(h, l), UNCHANGED pushVars
  PROVE  Placed' /\ Waiting' /\ Goes(h, l)
<1>1. Goes(h, l)
  BY GotoGoes, Names
<1>2. Placed'
  BY <1>1, Names DEF Placed, Goes
<1>3. /\ pc'["drain"] = pc["drain"]
      /\ \A p \in Pushers : pc[p] = "wait" => pc'[p] = "wait"
  BY <1>1, Names DEF Placed, Goes
<1>4. Waiting'
  BY <1>3, WaitingKeeps
<1> QED
  BY <1>1, <1>2, <1>4

LEMMA InitIInv == Init => IInv
<1> SUFFICES ASSUME Init PROVE IInv
  OBVIOUS
<1>1. Placed
  BY Names DEF Init, Placed, HolderLocs
<1>2. Typed
  BY DEF Init, Typed, Controllers
<1>3. Waiting
  BY Names, QueueAssumption DEF Init, Waiting
<1>4. Held
  BY Names DEF Init, Held
<1>5. ToStart
  BY Names DEF Init, ToStart
<1>6. ControllersAreKnown /\ Inbounds /\ PusherIsOpen
  BY DEF Init, ControllersAreKnown, Inbounds, PusherIsOpen
<1> QED
  BY <1>1, <1>2, <1>3, <1>4, <1>5, <1>6 DEF IInv
-----------------------------------------------------------------------------
(***************************************************************************)
(* Starting controllers.                                                   *)
(***************************************************************************)
LEMMA StartNodeKeeps ==
  ASSUME IInv, NEW h \in Holders, StartNode(h)
  PROVE  IInv'
<1>1. PICK n \in todo : /\ starting' = n
                        /\ todo' = todo \ {n}
                        /\ Goto(h, IF n \in SelfSigned THEN "send" ELSE "built")
  BY DEF StartNode
<1>2. /\ mu = h /\ pc[h] = "nodes"
      /\ UNCHANGED <<panel, phase, mu, answer, made, controllerMap, Service, active, inbounds,
                     halfway, currentPusher, open, pushVars>>
  BY DEF StartNode, ctlVars, sessVars
<1>3. PICK l \in {"send", "built"} : Goto(h, l)
  BY <1>1
<1>4. Placed' /\ Waiting' /\ Goes(h, l)
  BY <1>2, <1>3, HolderMoves DEF IInv, HolderLocs
<1>5. n \in Nodes /\ n # None
  BY Names DEF IInv, ToStart
<1>6. Typed'
  BY <1>1, <1>2, <1>5 DEF IInv, Typed
<1>7. Held'
  BY <1>1, <1>2, <1>4, <1>5, Names DEF IInv, Held, Goes, Placed
<1>8. ToStart'
  BY <1>1, <1>2, <1>5 DEF IInv, ToStart
<1>9. ControllersAreKnown' /\ Inbounds' /\ PusherIsOpen'
  BY <1>2 DEF IInv, ControllersAreKnown, Inbounds, PusherIsOpen
<1> QED
  BY <1>4, <1>6, <1>7, <1>8, <1>9 DEF IInv

LEMMA StartingIsNew ==
  ASSUME IInv, NEW h \in Holders, pc[h] = "built"
  PROVE  /\ starting \in Nodes /\ starting \notin DOMAIN controllerMap
         /\ Controller \in {starting} \X Nat /\ Controller \in Controllers
BY DEF IInv, Held, ToStart, Typed, Controller, Controllers

\* Going back to the loop over the nodes, once a Start has returned.
LEMMA BackToNodes ==
  ASSUME IInv, NEW h \in Holders, mu = h, pc[h] = "built", Goto(h, "nodes"),
         starting' = None, DOMAIN controllerMap' \subseteq DOMAIN controllerMap \cup {starting},
         UNCHANGED <<phase, mu, todo, pushVars>>
  PROVE  Placed' /\ Waiting' /\ Held' /\ ToStart'
<1>1. Placed' /\ Waiting' /\ Goes(h, "nodes")
  BY HolderMoves DEF IInv, HolderLocs
<1>2. \A k \in Holders \ {h} : pc'[k] \notin {"nodes", "send", "wait", "built"} /\ pc'[k] = pc[k]
  BY <1>1, Names DEF IInv, Held, Goes, Placed
<1>3. pc'["start"] # "idle"
  BY <1>1, <1>2, Names DEF IInv, Held, Goes
<1>4. Held'
  BY <1>1, <1>2, <1>3, Names DEF IInv, Held, Goes, Placed
<1>5. ToStart'
  <2>1. DOMAIN controllerMap' \subseteq Nodes /\ None \notin DOMAIN controllerMap'
    BY StartingIsNew, Names DEF IInv, Typed
  <2>2. \A n \in todo : n \in Nodes /\ n \notin DOMAIN controllerMap'
    BY DEF IInv, ToStart
  <2> QED
    BY <2>1, <2>2, Names DEF ToStart
<1> QED
  BY <1>1, <1>4, <1>5

LEMMA AppendController ==
  ASSUME NEW s \in Seq(Controllers), NEW c \in Controllers
  PROVE  /\ Append(s, c) \in Seq(Controllers)
         /\ ToSet(s) \subseteq ToSet(Append(s, c)) /\ c \in ToSet(Append(s, c))
<1>1. Append(s, c) \in Seq(Controllers) /\ DOMAIN Append(s, c) = 1..(Len(s) + 1)
  OBVIOUS
<1>2. /\ \A i \in 1..Len(s) : Append(s, c)[i] = s[i]
      /\ Append(s, c)[Len(s) + 1] = c
      /\ DOMAIN s = 1..Len(s)
  OBVIOUS
<1> QED
  BY <1>1, <1>2 DEF ToSet

LEMMA StartedKeeps ==
  ASSUME IInv, NEW h \in Holders, Started(h)
  PROVE  IInv'
<1> DEFINE c == Controller
<1>1. /\ mu = h /\ pc[h] = "built" /\ starting' = None /\ Goto(h, "nodes")
      /\ UNCHANGED <<panel, phase, mu, answer, todo, currentPusher, open, pushVars>>
      /\ made' = [made EXCEPT ![starting] = made[starting] + 1]
  BY DEF Started, Keep, sessVars
<1>2. /\ starting \in Nodes /\ starting \notin DOMAIN controllerMap
      /\ c \in {starting} \X Nat /\ c \in Controllers
  BY <1>1, StartingIsNew
<1>3. /\ DOMAIN controllerMap' = DOMAIN controllerMap \cup {starting}
      /\ controllerMap'[starting] = c
      /\ \A n \in DOMAIN controllerMap : controllerMap'[n] = controllerMap[n]
  BY <1>2 DEF Started
<1>4. /\ Service' = Append(Service, c) /\ active' = active \cup {c}
      /\ inbounds' = inbounds \cup {starting} /\ halfway' = halfway /\ starting \notin halfway
  BY DEF Started, Keep
<1> HIDE DEF c
<1>5. /\ Service' \in Seq(Controllers)
      /\ ToSet(Service) \subseteq ToSet(Service') /\ c \in ToSet(Service')
  BY <1>2, <1>4, AppendController DEF IInv, Typed
<1>6. Placed' /\ Waiting' /\ Held' /\ ToStart'
  BY <1>1, <1>3, BackToNodes
<1>7. Typed'
  <2>1. \A n \in DOMAIN controllerMap' : n \in Nodes /\ controllerMap'[n] \in {n} \X Nat
    BY <1>2, <1>3 DEF IInv, Typed
  <2> QED
    BY <1>1, <1>2, <1>4, <1>5, <2>1 DEF IInv, Typed
<1>8. ControllersAreKnown'
  <2>1. c[1] = starting
    BY <1>2
  <2> QED
    BY <1>3, <1>4, <1>5, <2>1 DEF IInv, ControllersAreKnown
<1>9. Inbounds' /\ PusherIsOpen'
  BY <1>1, <1>3, <1>4 DEF IInv, Inbounds, PusherIsOpen
<1> QED
  BY <1>6, <1>7, <1>8, <1>9 DEF IInv

\* A Start that returns an error, for whatever reason.
LEMMA NotStartedKeeps ==
  ASSUME IInv, NEW h \in Holders, StartFails(h) \/ StartBlocked(h)
  PROVE  IInv'
<1>1. NotStarted(h)
  BY DEF StartFails, StartBlocked
<1>2. /\ mu = h /\ pc[h] = "built" /\ starting' = None /\ Goto(h, "nodes")
      /\ UNCHANGED <<panel, phase, mu, answer, todo, controllerMap, active, currentPusher, open,
                     pushVars>>
  BY <1>1 DEF NotStarted, sessVars
<1>3. starting \in Nodes /\ starting \notin DOMAIN controllerMap
  BY <1>2, StartingIsNew
<1>4. /\ Service' \in Seq(Controllers) /\ made' \in [Nodes -> Nat]
      /\ ToSet(Service) \subseteq ToSet(Service')
  <2>1. \/ Service' = Append(Service, Controller) /\ made' = [made EXCEPT ![starting] = made[starting] + 1]
        \/ Service' = Service /\ made' = made
    BY <1>1 DEF NotStarted, Keep
  <2>2. Controller \in Controllers /\ Service \in Seq(Controllers) /\ made \in [Nodes -> Nat]
    BY <1>2, StartingIsNew DEF IInv, Typed
  <2>3. made' \in [Nodes -> Nat]
    BY <1>3, <2>1, <2>2
  <2>4. CASE Service' = Service
    BY <2>2, <2>3, <2>4 DEF ToSet
  <2>5. CASE Service' = Append(Service, Controller)
    <3>1. /\ Append(Service, Controller) \in Seq(Controllers)
          /\ ToSet(Service) \subseteq ToSet(Append(Service, Controller))
      BY <2>2, AppendController
    <3> QED
      BY <2>3, <2>5, <3>1
  <2> QED
    BY <2>1, <2>3, <2>4, <2>5
<1>5. Placed' /\ Waiting' /\ Held' /\ ToStart'
  BY <1>2, BackToNodes
<1>6. Typed'
  BY <1>2, <1>4 DEF IInv, Typed
<1>7. ControllersAreKnown' /\ PusherIsOpen'
  BY <1>2, <1>4 DEF IInv, ControllersAreKnown, PusherIsOpen
<1>8. Inbounds'
  <2>1. \/ UNCHANGED <<inbounds, halfway>>
        \/ inbounds' = inbounds \cup {starting} /\ halfway' = halfway \cup {starting}
        \/ inbounds' = inbounds \ {starting} /\ halfway' = halfway /\ starting \in halfway
    BY DEF StartFails, StartBlocked
  <2> QED
    BY <1>2, <1>3, <2>1 DEF IInv, Inbounds
<1> QED
  BY <1>5, <1>6, <1>7, <1>8 DEF IInv

LEMMA GetServerNodesKeeps == ASSUME IInv, GetServerNodes PROVE IInv'
<1>1. /\ pc["start"] = "idle" /\ phase = "starting" /\ todo' = panel /\ Goto("start", "nodes")
      /\ answer' = [answer EXCEPT !["start"] = panel]
      /\ UNCHANGED <<panel, phase, mu, starting, made, controllerMap, Service, active, inbounds, halfway,
                     currentPusher, open, pushVars>>
  BY DEF GetServerNodes, ctlVars, sessVars
<1>2. Placed' /\ Waiting' /\ Goes("start", "nodes")
  BY <1>1, HolderMoves, Names DEF IInv, HolderLocs
<1>3. mu = "start" /\ starting = None /\ DOMAIN controllerMap = {}
  BY <1>1 DEF IInv, Held
<1>4. Typed'
  BY <1>1 DEF IInv, Typed
<1>5. Held'
  BY <1>1, <1>2, <1>3, Names DEF IInv, Held, Goes, Placed
<1>6. ToStart'
  BY <1>1, <1>3, Names DEF IInv, Typed, ToStart
<1>7. ControllersAreKnown' /\ Inbounds' /\ PusherIsOpen'
  BY <1>1 DEF IInv, ControllersAreKnown, Inbounds, PusherIsOpen
<1> QED
  BY <1>2, <1>4, <1>5, <1>6, <1>7 DEF IInv

LEMMA LaunchKeeps == ASSUME IInv, Launch PROVE IInv'
<1>1. /\ mu = "start" /\ pc["start"] = "nodes" /\ todo = {} /\ phase' = "running" /\ mu' = None
      /\ UNCHANGED <<panel, answer, todo, starting, made, controllerMap, Service, active, inbounds,
                     halfway, currentPusher, open, pushVars>>
  BY DEF Launch, ctlVars, sessVars
<1>2. /\ DOMAIN pc' = DOMAIN pc /\ pc'["start"] = "off" /\ pc'["drain"] = "idle"
      /\ \A s \in Syncers : pc'[s] = "idle"
      /\ \A t \in Tasks : pc'[t] = pc[t]
  BY Names DEF Launch, IInv, Placed
<1>3. starting = None
  BY <1>1 DEF IInv, Held
<1>4. \A s \in Syncers : pc[s] # "wait"
  BY <1>1, Names DEF IInv, Held, Placed
<1>5. Placed'
  BY <1>2, Names DEF IInv, Placed, HolderLocs
<1>6. Waiting'
  <2>1. \A p \in Pushers : pc[p] = "wait" => pc'[p] = "wait"
    BY <1>1, <1>2, <1>4, Names DEF Pushers
  <2> QED
    BY <1>1, <1>2, <2>1, WaitingKeeps DEF IInv
<1>7. Typed'
  BY <1>1 DEF IInv, Typed
<1>8. Held'
  BY <1>1, <1>2, <1>3, Names DEF Held
<1>9. ToStart'
  BY <1>1 DEF IInv, ToStart
<1>10. ControllersAreKnown' /\ PusherIsOpen'
  BY <1>1 DEF IInv, ControllersAreKnown, PusherIsOpen
<1>11. Inbounds'
  <2>1. phase = "starting"
    BY <1>1 DEF IInv, Held
  <2> QED
    BY <1>1, <2>1 DEF IInv, Inbounds
<1> QED
  BY <1>5, <1>6, <1>7, <1>8, <1>9, <1>10, <1>11 DEF IInv
-----------------------------------------------------------------------------
(***************************************************************************)
(* syncServerNodes.                                                        *)
(***************************************************************************)
LEMMA FetchKeeps == ASSUME IInv, NEW s \in Syncers, Fetch(s) PROVE IInv'
<1>1. /\ pc[s] = "idle" /\ answer' \in [Holders -> SUBSET Nodes]
      /\ UNCHANGED <<panel, phase, mu, todo, starting, made, controllerMap, Service, active, inbounds,
                     halfway, currentPusher, open, pushVars>>
  BY DEF Fetch, ctlVars, sessVars, IInv, Typed
<1>2. s \in Holders /\ s # "start" /\ phase # "starting"
  BY <1>1, Names DEF IInv, Held
<1>3. PICK l \in {"idle", "lock"} : Placed' /\ Waiting' /\ Goes(s, l)
  <2>1. CASE Goto(s, "lock")
    BY <1>1, <1>2, <2>1, HolderMoves DEF IInv, HolderLocs
  <2>2. CASE pc' = pc
    <3>1. Placed' /\ Goes(s, "idle")
      BY <1>1, <1>2, <2>2, Names DEF IInv, Placed, Goes
    <3>2. Waiting'
      BY <1>1, <2>2, WaitingKeeps DEF IInv
    <3> QED
      BY <3>1, <3>2
  <2> QED
    BY <2>1, <2>2 DEF Fetch
<1>4. Typed'
  BY <1>1 DEF IInv, Typed
<1>5. Held'
  BY <1>1, <1>2, <1>3, Names DEF IInv, Held, Goes, Placed
<1>6. ToStart' /\ ControllersAreKnown' /\ Inbounds' /\ PusherIsOpen'
  BY <1>1 DEF IInv, ToStart, ControllersAreKnown, Inbounds, PusherIsOpen
<1> QED
  BY <1>3, <1>4, <1>5, <1>6 DEF IInv

\* The places of a sequence up to one of those that are kept.
Upto(keep, k) == {j \in keep : j <= k}

LEMMA CountUpto ==
  ASSUME NEW n \in Nat, NEW keep \in SUBSET (1..n)
  PROVE  /\ IsFiniteSet(keep) /\ Cardinality(keep) \in Nat
         /\ \A k \in keep : Cardinality(Upto(keep, k)) \in 1..Cardinality(keep)
         /\ \A j, k \in keep : Cardinality(Upto(keep, j)) = Cardinality(Upto(keep, k)) => j = k
         /\ \A i \in 1..Cardinality(keep) : \E k \in keep : Cardinality(Upto(keep, k)) = i
<1>1. IsFiniteSet(1..n)
  BY FS_Interval
<1>2. IsFiniteSet(keep) /\ Cardinality(keep) \in Nat
  BY <1>1, FS_Subset, FS_CardinalityType
<1>3. ASSUME NEW k \in keep
      PROVE  Cardinality(Upto(keep, k)) \in 1..Cardinality(keep)
  <2>1. Upto(keep, k) \in SUBSET keep /\ k \in Upto(keep, k)
    BY DEF Upto
  <2>2. /\ IsFiniteSet(Upto(keep, k)) /\ Cardinality(Upto(keep, k)) \in Nat
        /\ Cardinality(Upto(keep, k)) <= Cardinality(keep)
    BY <1>2, <2>1, FS_Subset, FS_CardinalityType
  <2>3. Cardinality(Upto(keep, k)) # 0
    BY <2>1, <2>2, FS_EmptySet
  <2> QED
    BY <1>2, <2>2, <2>3
<1>4. ASSUME NEW j \in keep, NEW k \in keep, j <= k,
             Cardinality(Upto(keep, j)) = Cardinality(Upto(keep, k))
      PROVE  j = k
  <2>0. keep \subseteq Int /\ j \in Int /\ k \in Int
    OBVIOUS
  <2>1. Upto(keep, j) \in SUBSET Upto(keep, k) /\ k \in Upto(keep, k) /\ Upto(keep, k) \in SUBSET keep
    <3>1. \A i \in keep : i <= j => i <= k
      BY <1>4, <2>0
    <3>2. Upto(keep, j) \in SUBSET Upto(keep, k)
      BY <3>1 DEF Upto
    <3>3. k <= k
      BY <2>0
    <3>4. k \in Upto(keep, k)
      BY <3>3 DEF Upto
    <3>5. Upto(keep, k) \in SUBSET keep
      BY DEF Upto
    <3> QED
      BY <3>2, <3>4, <3>5
  <2>2. IsFiniteSet(Upto(keep, k))
    BY <1>2, <2>1, FS_Subset
  <2>3. k \in Upto(keep, j)
    BY <1>4, <2>1, <2>2, FS_Subset
  <2> QED
    BY <1>4, <2>0, <2>3 DEF Upto
<1>5. ASSUME NEW j \in keep, NEW k \in keep,
             Cardinality(Upto(keep, j)) = Cardinality(Upto(keep, k))
      PROVE  j = k
  <2>1. j <= k \/ k <= j
    OBVIOUS
  <2> QED
    BY <1>4, <1>5, <2>1
<1>6. \A i \in 1..Cardinality(keep) : \E k \in keep : Cardinality(Upto(keep, k)) = i
  <2> DEFINE count == [k \in keep |-> Cardinality(Upto(keep, k))]
             counts == 1..Cardinality(keep)
  <2>1. count \in [keep -> counts]
    BY <1>3
  <2>2. count \in Injection(keep, counts)
    BY <1>5, <2>1 DEF Injection, IsInjective
  <2>3. IsFiniteSet(counts) /\ Cardinality(counts) = Cardinality(keep)
    BY <1>2, FS_Interval
  <2> HIDE DEF count, counts
  <2>4. count \in Surjection(keep, counts)
    BY <2>2, <2>3, FS_Injection
  <2>5. \A i \in counts : \E k \in keep : count[k] = i
    BY <2>4 DEF Surjection
  <2> QED
    BY <2>5 DEF count, counts
<1> QED
  BY <1>2, <1>3, <1>5, <1>6

\* Taking controllers out of Service leaves those of other nodes in it.
LEMMA WithoutKeeps ==
  ASSUME NEW s \in Seq(Controllers), NEW gone
  PROVE  /\ Without(s, gone) \in Seq(Controllers)
         /\ \A c \in ToSet(s) : c[1] \notin gone => c \in ToSet(Without(s, gone))
<1> DEFINE keep == {i \in DOMAIN s :
                      ~(s[i][1] \in gone /\ \A j \in 1..(i - 1) : s[j][1] # s[i][1])}
           n == Cardinality(keep)
           at(i) == CHOOSE k \in keep : Cardinality(Upto(keep, k)) = i
<1>1. DOMAIN s = 1..Len(s) /\ Len(s) \in Nat
  OBVIOUS
<1>2. keep \in SUBSET (1..Len(s))
  BY <1>1
<1>3. Without(s, gone) = [i \in 1..n |-> s[at(i)]]
  BY DEF Without, Upto
<1>4. \A k \in DOMAIN s : s[k][1] \notin gone => k \in keep
  OBVIOUS
<1> HIDE DEF keep
<1>5. /\ IsFiniteSet(keep) /\ n \in Nat
      /\ \A k \in keep : Cardinality(Upto(keep, k)) \in 1..n
      /\ \A j, k \in keep : Cardinality(Upto(keep, j)) = Cardinality(Upto(keep, k)) => j = k
      /\ \A i \in 1..n : \E k \in keep : Cardinality(Upto(keep, k)) = i
  BY <1>1, <1>2, CountUpto
<1>6. /\ \A k \in keep : at(Cardinality(Upto(keep, k))) = k
      /\ \A i \in 1..n : at(i) \in keep
  BY <1>5
<1> HIDE DEF n, at
<1>7. Without(s, gone) \in Seq(Controllers)
  <2>1. \A i \in 1..n : s[at(i)] \in Controllers
    <3>1. \A k \in keep : s[k] \in Controllers
      BY <1>1, <1>2
    <3> QED
      BY <1>6, <3>1
  <2> QED
    BY <1>3, <1>5, <2>1
<1>8. ASSUME NEW c \in ToSet(s), c[1] \notin gone
      PROVE  c \in ToSet(Without(s, gone))
  <2>1. PICK k \in DOMAIN s : s[k] = c
    BY DEF ToSet
  <2>2. k \in keep
    BY <1>4, <1>8, <2>1
  <2> DEFINE i == Cardinality(Upto(keep, k))
  <2>3. i \in 1..n /\ at(i) = k
    BY <1>5, <1>6, <2>2
  <2>4. i \in DOMAIN Without(s, gone) /\ Without(s, gone)[i] = c
    BY <1>3, <2>1, <2>3
  <2> QED
    BY <2>4 DEF ToSet
<1> QED
  BY <1>7, <1>8

LEMMA ApplyKeeps == ASSUME IInv, NEW s \in Syncers, Apply(s) PROVE IInv'
<1> DEFINE gone == Gone(s)
<1>1. /\ pc[s] = "lock" /\ mu = None /\ phase = "running" /\ mu' = s /\ Goto(s, "nodes")
      /\ active' = active \ {controllerMap[n] : n \in gone}
      /\ inbounds' = inbounds \ gone
      /\ controllerMap' = Restrict(controllerMap, DOMAIN controllerMap \ gone)
      /\ Service' = Without(Service, gone)
      /\ todo' = answer[s] \ DOMAIN controllerMap
      /\ UNCHANGED <<panel, phase, answer, starting, made, halfway, currentPusher, open, pushVars>>
  BY DEF Apply, sessVars
<1>2. s \in Holders /\ s # "start" /\ gone \subseteq DOMAIN controllerMap
  BY Names DEF Gone
<1> HIDE DEF gone
<1>3. starting = None
  BY <1>1, Names DEF IInv, Held, Pushers
<1>4. Placed' /\ Waiting' /\ Goes(s, "nodes")
  BY <1>1, <1>2, HolderMoves DEF IInv, HolderLocs
<1>5. /\ DOMAIN controllerMap' = DOMAIN controllerMap \ gone
      /\ \A n \in DOMAIN controllerMap \ gone : controllerMap'[n] = controllerMap[n]
  BY <1>1 DEF Restrict
<1>6. /\ Service' \in Seq(Controllers)
      /\ \A c \in ToSet(Service) : c[1] \notin gone => c \in ToSet(Service')
  BY <1>1, WithoutKeeps DEF IInv, Typed
<1>7. Typed'
  BY <1>1, <1>5, <1>6 DEF IInv, Typed
<1>8. Held'
  BY <1>1, <1>2, <1>3, <1>4, Names DEF IInv, Held, Goes, Placed
<1>9. ToStart'
  <2>1. answer[s] \subseteq Nodes
    BY <1>2 DEF IInv, Typed
  <2>2. None \notin DOMAIN controllerMap' /\ None \notin todo'
    BY <1>1, <1>5, <2>1, Names DEF IInv, Typed
  <2>3. todo' \cap DOMAIN controllerMap' = {}
    BY <1>1, <1>5
  <2> QED
    BY <1>1, <1>3, <2>1, <2>2, <2>3 DEF ToStart
<1>10. ControllersAreKnown'
  <2>1. \A c \in active' : c \in active /\ c[1] \notin gone
    BY <1>1 DEF IInv, ControllersAreKnown
  <2> QED
    BY <1>5, <1>6, <2>1 DEF IInv, ControllersAreKnown
<1>11. Inbounds' /\ PusherIsOpen'
  BY <1>1, <1>5 DEF IInv, Inbounds, PusherIsOpen
<1> QED
  BY <1>4, <1>7, <1>8, <1>9, <1>10, <1>11 DEF IInv

LEMMA ApplyStoppedKeeps == ASSUME IInv, NEW s \in Syncers, ApplyStopped(s) PROVE IInv'
<1>1. /\ pc[s] = "lock" /\ mu = None /\ phase = "stopped" /\ phase' \in {"stopped", "crashed"}
      /\ Goto(s, "idle")
      /\ UNCHANGED <<panel, mu, answer, todo, starting, made, controllerMap, Service, active, inbounds,
                     halfway, currentPusher, open, pushVars>>
  BY DEF ApplyStopped, holdVars, ctlVars, sessVars
<1>2. s \in Holders /\ s # "start"
  BY Names
<1>3. Placed' /\ Waiting' /\ Goes(s, "idle")
  BY <1>1, <1>2, HolderMoves DEF IInv, HolderLocs
<1>4. Typed'
  BY <1>1 DEF IInv, Typed
<1>5. Held'
  BY <1>1, <1>2, <1>3, Names DEF IInv, Held, Goes, Placed
<1>6. ToStart' /\ ControllersAreKnown' /\ Inbounds' /\ PusherIsOpen'
  BY <1>1 DEF IInv, ToStart, ControllersAreKnown, Inbounds, PusherIsOpen
<1> QED
  BY <1>3, <1>4, <1>5, <1>6 DEF IInv

LEMMA UnlockKeeps == ASSUME IInv, NEW s \in Syncers, Unlock(s) PROVE IInv'
<1>1. /\ mu = s /\ pc[s] = "nodes" /\ mu' = None /\ Goto(s, "idle")
      /\ UNCHANGED <<panel, phase, answer, todo, starting, made, controllerMap, Service, active, inbounds,
                     halfway, currentPusher, open, pushVars>>
  BY DEF Unlock, ctlVars, sessVars
<1>2. s \in Holders /\ s # "start" /\ starting = None
  BY <1>1, Names DEF IInv, Held
<1>3. Placed' /\ Waiting' /\ Goes(s, "idle")
  BY <1>1, <1>2, HolderMoves DEF IInv, HolderLocs
<1>4. Typed'
  BY <1>1 DEF IInv, Typed
<1>5. Held'
  BY <1>1, <1>2, <1>3, Names DEF IInv, Held, Goes, Placed
<1>6. ToStart' /\ ControllersAreKnown' /\ Inbounds' /\ PusherIsOpen'
  BY <1>1 DEF IInv, ToStart, ControllersAreKnown, Inbounds, PusherIsOpen
<1> QED
  BY <1>3, <1>4, <1>5, <1>6 DEF IInv

LEMMA StopKeeps == ASSUME IInv, Stop PROVE IInv'
<1>1. /\ phase = "running" /\ mu = None /\ phase' = "stopped" /\ active' = active \ ToSet(Service)
      /\ Service' = << >> /\ controllerMap' = << >>
      /\ UNCHANGED <<panel, mu, answer, todo, starting, pc, made, currentPusher, open, pushVars>>
  BY DEF Stop, holdVars, sessVars
<1>2. active' = {}
  BY <1>1 DEF IInv, ControllersAreKnown
<1>3. Placed' /\ Waiting'
  BY <1>1, WaitingKeeps DEF IInv, Placed
<1>4. Typed'
  BY <1>1, <1>2 DEF IInv, Typed
<1>5. Held'
  BY <1>1 DEF IInv, Held
<1>6. ToStart'
  BY <1>1 DEF IInv, ToStart
<1>7. ControllersAreKnown' /\ Inbounds' /\ PusherIsOpen'
  BY <1>1, <1>2 DEF IInv, ControllersAreKnown, Inbounds, PusherIsOpen
<1> QED
  BY <1>3, <1>4, <1>5, <1>6, <1>7 DEF IInv
-----------------------------------------------------------------------------
(***************************************************************************)
(* The panel, the sessions and the pushes.                                 *)
(***************************************************************************)
LEMMA PanelChangeKeeps == ASSUME IInv, PanelChange PROVE IInv'
<1>1. /\ panel' \subseteq Nodes
      /\ UNCHANGED <<phase, mu, answer, todo, starting, pc, made, controllerMap, Service, active, inbounds,
                     halfway, currentPusher, open, pushVars>>
  BY DEF PanelChange, holdVars, ctlVars, sessVars
<1>2. Placed' /\ Waiting'
  BY <1>1, WaitingKeeps DEF IInv, Placed
<1>3. Typed' /\ Held' /\ ToStart'
  BY <1>1 DEF IInv, Typed, Held, ToStart
<1>4. ControllersAreKnown' /\ Inbounds' /\ PusherIsOpen'
  BY <1>1 DEF IInv, ControllersAreKnown, Inbounds, PusherIsOpen
<1> QED
  BY <1>2, <1>3, <1>4 DEF IInv

LEMMA ListenKeeps == ASSUME IInv, NEW l \in Listeners, Listen(l) PROVE IInv'
<1>1. /\ phase' = phase \/ (phase' = "crashed" /\ mu \in Syncers)
      /\ UNCHANGED <<panel, mu, answer, todo, starting, made, controllerMap, Service, active, inbounds,
                     halfway, pushVars>>
  BY DEF Listen, Register, Cancelled, Event, EventRaces, Unregister, holdVars, ctlVars
<1>2. /\ currentPusher' \in Listeners \cup {None} /\ open' \subseteq Listeners
      /\ PusherIsOpen'
  BY DEF IInv, Typed, PusherIsOpen, Listen, Register, Cancelled, Event, EventRaces, Unregister, sessVars
<1>3. DOMAIN pc' = DOMAIN pc /\ \A b \in DOMAIN pc \ {l} : pc'[b] = pc[b]
  BY DEF IInv, Placed, Goto, Listen, Register, Cancelled, Event, EventRaces, Unregister
<1>4. /\ \A p \in Pushers : pc'[p] = pc[p]
      /\ pc'["drain"] = pc["drain"]
  BY <1>3, Names DEF IInv, Placed
<1>5. Placed'
  BY <1>3, <1>4, Names DEF IInv, Placed
<1>6. Waiting'
  BY <1>1, <1>4, WaitingKeeps DEF IInv
<1>7. Typed' /\ ToStart'
  BY <1>1, <1>2 DEF IInv, Typed, ToStart
<1>8. Held'
  <2>1. phase = "starting" => phase' = phase
    BY <1>1, Names DEF IInv, Held
  <2>2. phase' = "starting" <=> phase = "starting"
    BY <1>1, <2>1
  <2> QED
    BY <1>1, <1>4, <2>2, Names DEF IInv, Held
<1>9. ControllersAreKnown' /\ Inbounds'
  BY <1>1 DEF IInv, ControllersAreKnown, Inbounds
<1> QED
  BY <1>2, <1>5, <1>6, <1>7, <1>8, <1>9 DEF IInv

\* A push changes nothing but who is where and who waits.
Frame == UNCHANGED <<panel, phase, holdVars, ctlVars, sessVars>>

LEMMA FrameKeeps ==
  ASSUME IInv, Frame
  PROVE  Typed' /\ ToStart' /\ ControllersAreKnown' /\ Inbounds' /\ PusherIsOpen'
BY DEF Frame, holdVars, ctlVars, sessVars, IInv, Typed, ToStart, ControllersAreKnown, Inbounds,
       PusherIsOpen

LEMMA BeginPushKeeps == ASSUME IInv, NEW t \in Tasks, BeginPush(t) PROVE IInv'
<1>1. Frame /\ pc[t] = "idle" /\ Goto(t, "send") /\ UNCHANGED pushVars
  BY DEF BeginPush, Frame
<1>2. Goes(t, "send")
  BY <1>1, GotoGoes, Names DEF IInv
<1>3. /\ \A h \in Holders : pc'[h] = pc[h]
      /\ pc'["drain"] = pc["drain"]
      /\ \A p \in Pushers : pc[p] = "wait" => pc'[p] = "wait"
  BY <1>1, <1>2, Names DEF Goes, IInv, Placed
<1>4. Placed'
  BY <1>2, <1>3, Names DEF Goes, IInv, Placed
<1>5. Waiting'
  BY <1>1, <1>3, WaitingKeeps DEF IInv
<1>6. Held'
  BY <1>1, <1>3, Names DEF Frame, holdVars, ctlVars, IInv, Held
<1> QED
  BY <1>1, <1>4, <1>5, <1>6, FrameKeeps DEF IInv

LEMMA SendKeeps == ASSUME IInv, NEW p \in Pushers, Send(p) PROVE IInv'
<1>1. /\ Frame /\ pc[p] = "send" /\ Goto(p, "wait") /\ UNCHANGED <<job, got>>
      /\ Len(queue) < QueueSize /\ queue' = Append(queue, p)
  BY DEF Send, Frame
<1>2. Goes(p, "wait")
  BY <1>1, GotoGoes DEF IInv
<1>3. pc'["drain"] = pc["drain"] /\ pc'[p] = "wait"
  BY <1>2, Names DEF Goes, IInv, Placed
<1>4. Placed'
  BY <1>2, <1>3, Names DEF Goes, IInv, Placed, HolderLocs
<1>5. /\ queue \in Seq(Pushers) /\ queue' \in Seq(Pushers)
      /\ Len(queue') = Len(queue) + 1 /\ queue'[Len(queue) + 1] = p
      /\ \A i \in 1..Len(queue) : queue'[i] = queue[i]
      /\ DOMAIN queue = 1..Len(queue) /\ DOMAIN queue' = 1..(Len(queue) + 1) /\ Len(queue) \in Nat
  BY <1>1 DEF IInv, Waiting
<1>6. /\ \A i \in 1..Len(queue) : pc[queue[i]] = "wait" /\ queue[i] # p /\ queue[i] \in Pushers
      /\ pc["drain"] \in {"lock", "reply"} => job \in Pushers /\ pc[job] = "wait" /\ job # p
  BY <1>1, <1>5 DEF IInv, Waiting
<1>7. Waiting'
  <2>1. Len(queue') <= QueueSize
    BY <1>1, <1>5, QueueAssumption
  <2>2. \A i \in DOMAIN queue' : i \in 1..Len(queue) \/ i = Len(queue) + 1
    BY <1>5
  <2>3. \A i \in DOMAIN queue' : pc'[queue'[i]] = "wait"
    BY <1>2, <1>3, <1>5, <1>6, <2>2, Names DEF Goes, IInv, Placed
  <2>4. \A i, j \in DOMAIN queue' : queue'[i] = queue'[j] => i = j
    BY <1>5, <1>6, <2>2 DEF IInv, Waiting
  <2>5. pc'["drain"] \in {"lock", "reply"} =>
          job \in Pushers /\ pc'[job] = "wait" /\ \A i \in DOMAIN queue' : queue'[i] # job
    BY <1>2, <1>3, <1>5, <1>6, <2>2, Names DEF Goes, IInv, Placed, Waiting
  <2> QED
    BY <1>1, <1>5, <2>1, <2>3, <2>4, <2>5 DEF IInv, Waiting
<1>8. Held'
  BY <1>1, <1>2, <1>3, Names DEF Goes, IInv, Placed, Held, Frame, holdVars, ctlVars
<1> QED
  BY <1>1, <1>4, <1>7, <1>8, FrameKeeps DEF IInv

LEMMA TakeKeeps == ASSUME IInv, Take PROVE IInv'
<1>1. /\ Frame /\ pc["drain"] = "idle" /\ queue # << >> /\ job' = Head(queue) /\ queue' = Tail(queue)
      /\ Goto("drain", "lock")
  BY DEF Take, Frame
<1>2. Goes("drain", "lock")
  BY <1>1, GotoGoes DEF IInv
<1>3. /\ \A p \in Pushers : pc'[p] = pc[p]
      /\ pc'["drain"] = "lock" /\ DOMAIN pc' = DOMAIN pc
  BY <1>2, Names DEF Goes, IInv, Placed
<1>4. Placed'
  BY <1>3, Names DEF IInv, Placed
<1>5. /\ queue \in Seq(Pushers) /\ queue' \in Seq(Pushers) /\ Len(queue) \in Nat \ {0}
      /\ Len(queue') = Len(queue) - 1 /\ DOMAIN queue' = 1..(Len(queue) - 1)
      /\ DOMAIN queue = 1..Len(queue)
      /\ \A i \in 1..(Len(queue) - 1) : queue'[i] = queue[i + 1]
      /\ job' = queue[1]
  BY <1>1 DEF IInv, Waiting
<1>6. \A i \in 1..Len(queue) : pc[queue[i]] = "wait" /\ queue[i] \in Pushers
  BY <1>5 DEF IInv, Waiting
<1>7. Waiting'
  <2>1. \A i \in DOMAIN queue' : i + 1 \in 1..Len(queue) /\ i + 1 # 1 /\ queue'[i] = queue[i + 1]
    BY <1>5
  <2>2. \A i \in DOMAIN queue' : pc'[queue'[i]] = "wait"
    BY <1>3, <1>6, <2>1
  <2>3. 1 \in DOMAIN queue /\ \A i, j \in DOMAIN queue : queue[i] = queue[j] => i = j
    BY <1>5 DEF IInv, Waiting
  <2>4. \A i, j \in DOMAIN queue' : queue'[i] = queue'[j] => i = j
    BY <1>5, <2>1, <2>3
  <2>5. job' \in Pushers /\ pc'[job'] = "wait" /\ \A i \in DOMAIN queue' : queue'[i] # job'
    BY <1>3, <1>5, <1>6, <2>1, <2>3
  <2>6. Len(queue') <= QueueSize
    BY <1>5, QueueAssumption DEF IInv, Waiting
  <2> QED
    BY <1>5, <2>2, <2>4, <2>5, <2>6 DEF Waiting
<1>8. Held'
  <2>1. phase # "starting"
    BY <1>1 DEF IInv, Held
  <2> QED
    BY <1>1, <1>3, <2>1, Names DEF IInv, Held, Frame, holdVars, ctlVars
<1> QED
  BY <1>1, <1>4, <1>7, <1>8, FrameKeeps DEF IInv

LEMMA ReadPusherKeeps == ASSUME IInv, ReadPusher PROVE IInv'
<1>1. Frame /\ pc["drain"] = "lock" /\ Goto("drain", "reply") /\ UNCHANGED <<queue, job>>
  BY DEF ReadPusher, Frame
<1>2. Goes("drain", "reply")
  BY <1>1, GotoGoes DEF IInv
<1>3. /\ \A p \in Pushers : pc'[p] = pc[p]
      /\ pc'["drain"] = "reply" /\ DOMAIN pc' = DOMAIN pc
  BY <1>2, Names DEF Goes, IInv, Placed
<1>4. Placed'
  BY <1>3, Names DEF IInv, Placed
<1>5. Waiting'
  <2>1. \A i \in DOMAIN queue : queue[i] \in Pushers
    BY DEF IInv, Waiting
  <2> QED
    BY <1>1, <1>3, <2>1 DEF IInv, Waiting
<1>6. Held'
  BY <1>1, <1>3, Names DEF IInv, Held, Frame, holdVars, ctlVars
<1> QED
  BY <1>1, <1>4, <1>5, <1>6, FrameKeeps DEF IInv

LEMMA ReplyKeeps == ASSUME IInv, Reply PROVE IInv'
<1>1. /\ Frame /\ pc["drain"] = "reply" /\ UNCHANGED queue /\ job' = None
      /\ pc' = [pc EXCEPT !["drain"] = "idle", ![job] = Returned(job)]
  BY DEF Reply, Frame
<1>2. job \in Pushers /\ pc[job] = "wait" /\ \A i \in DOMAIN queue : queue[i] # job
  BY <1>1 DEF IInv, Waiting
<1>3. /\ DOMAIN pc' = DOMAIN pc /\ pc'["drain"] = "idle" /\ pc'[job] = Returned(job)
      /\ \A p \in Pushers \ {job} : pc'[p] = pc[p]
  BY <1>1, <1>2, Names DEF IInv, Placed
<1>4. Placed'
  <2>1. \A h \in Holders : pc'[h] \in HolderLocs
    BY <1>2, <1>3, Names DEF IInv, Placed, Returned, HolderLocs
  <2>2. \A t \in Tasks : pc'[t] \in {"idle", "send", "wait"}
    BY <1>2, <1>3, Names DEF IInv, Placed, Returned
  <2> QED
    BY <1>3, <2>1, <2>2 DEF IInv, Placed
<1>5. Waiting'
  <2>1. \A i \in DOMAIN queue : queue[i] \in Pushers /\ pc[queue[i]] = "wait"
    BY DEF IInv, Waiting
  <2>2. \A i \in DOMAIN queue : pc'[queue[i]] = "wait"
    BY <1>2, <1>3, <2>1
  <2> QED
    BY <1>1, <1>3, <2>2 DEF IInv, Waiting
<1>6. Held'
  <2>1. \A h \in Holders : pc'[h] = pc[h] \/ (pc[h] = "wait" /\ pc'[h] = "built")
    BY <1>2, <1>3, Names DEF Returned
  <2>2. phase # "starting"
    BY <1>1 DEF IInv, Held
  <2> QED
    BY <1>1, <1>3, <2>1, <2>2, Names DEF IInv, Held, Frame, holdVars, ctlVars
<1> QED
  BY <1>1, <1>4, <1>5, <1>6, FrameKeeps DEF IInv
-----------------------------------------------------------------------------
LEMMA NextKeepsIInv == IInv /\ [Next]_vars => IInv'
<1> SUFFICES ASSUME IInv, [Next]_vars PROVE IInv'
  OBVIOUS
<1>1. ASSUME NEW h \in Holders, Hold(h) PROVE IInv'
  BY <1>1, StartNodeKeeps, StartedKeeps, NotStartedKeeps, SendKeeps, Names DEF Hold
<1>2. CASE Boot
  BY <1>1, <1>2, GetServerNodesKeeps, LaunchKeeps, Names DEF Boot
<1>3. ASSUME NEW s \in Syncers, Sync(s) PROVE IInv'
  BY <1>1, <1>3, FetchKeeps, ApplyKeeps, ApplyStoppedKeeps, UnlockKeeps, Names DEF Sync
<1>4. CASE Drain
  BY <1>4, TakeKeeps, ReadPusherKeeps, ReplyKeeps DEF Drain
<1>5. ASSUME NEW t \in Tasks, BeginPush(t) \/ Send(t) PROVE IInv'
  BY <1>5, BeginPushKeeps, SendKeeps, Names
<1>6. CASE UNCHANGED vars
  <2>1. UNCHANGED pc /\ UNCHANGED pushVars /\ Frame
    BY <1>6 DEF vars, Frame
  <2>2. Placed' /\ Waiting'
    BY <2>1, WaitingKeeps DEF IInv, Placed
  <2>3. Held'
    BY <2>1 DEF IInv, Held, Frame, holdVars, ctlVars
  <2> QED
    BY <2>1, <2>2, <2>3, FrameKeeps DEF IInv
<1> QED
  BY <1>2, <1>3, <1>4, <1>5, <1>6, PanelChangeKeeps, StopKeeps, ListenKeeps DEF Next

\* The invariant, for any nodes, Reverb servers, tasks and queue.
THEOREM Inductive == Spec => []IInv
BY InitIInv, NextKeepsIInv, PTL DEF Spec

\* Every variable keeps its type: in particular a goroutine that starts a
\* controller or waits for its push holds i.mu (instance.go, reverb.go).
THEOREM TypeCorrect == Spec => []TypeOK
<1>1. IInv => TypeOK
  <2> SUFFICES ASSUME IInv PROVE TypeOK
    OBVIOUS
  <2>1. \A h \in Holders : pc[h] \in {"off", "idle", "lock", "nodes", "send", "wait", "built"}
    BY DEF IInv, Placed, HolderLocs
  <2>2. \A h \in Holders : pc[h] \in {"send", "wait", "built"} => mu = h /\ starting # None
    BY DEF IInv, Held
  <2>3. \A n \in DOMAIN controllerMap : controllerMap[n][1] = n
    BY DEF IInv, Typed
  <2>4. ToSet(Service) \cup active \subseteq Nodes \X Nat
    BY DEF IInv, Typed, ToSet, Controllers
  <2> QED
    BY <2>1, <2>2, <2>3, <2>4 DEF IInv, Typed, Waiting, Held, ToStart, TypeOK
<1> QED
  BY <1>1, Inductive, PTL

\* After any lists, failed starts and returns of nodes, a running controller is
\* the one in controllerMap and in Service, and the engine's inbounds are those
\* of the controllers, but for Starts that failed half-way (server_poller.go:57).
THEOREM NodesAccounted == Spec => []NodesAreAccountedFor
<1>1. IInv => NodesAreAccountedFor
  BY DEF IInv, Inbounds, NodesAreAccountedFor, InboundsAreControlled
<1> QED
  BY <1>1, Inductive, PTL

\* However many sessions come and go, the registered pusher is that of an open
\* one (reverb.go:127, 136).
THEOREM PusherOpen == Spec => []PusherIsOpen
<1>1. IInv => PusherIsOpen
  BY DEF IInv
<1> QED
  BY <1>1, Inductive, PTL
-----------------------------------------------------------------------------
(***************************************************************************)
(* Nobody who pushes is forgotten: the safety core of TaskPushesReturn.    *)
(***************************************************************************)
\* Who waits in PushEvent is in the queue, or is the drainer's item.
Handed ==
    \A p \in Pushers :
        pc[p] = "wait" =>
            p \in ToSet(queue) \/ (pc["drain"] \in {"lock", "reply"} /\ job = p)

\* Once Start is over the drainer runs.
DrainerRuns == phase # "starting" => pc["drain"] # "off"

\* Who holds i.mu can go on, or waits for the drainer (Wedged).
HolderIsBusy ==
    mu # None =>
        \/ pc[mu] \in {"nodes", "built"} \/ Wedged
        \/ mu = "start" /\ pc[mu] = "idle"

NoneForgotten == Handed /\ DrainerRuns /\ HolderIsBusy

\* Steps that are no push and no answer: at most one goroutine moves, and not
\* to a wait.
Moves(a, l) == l # "wait" /\ (Goto(a, l) \/ UNCHANGED pc) /\ UNCHANGED pushVars

LEMMA HandedKeeps ==
  ASSUME Placed, Handed, DrainerRuns, NEW a \in Pushers \cup Listeners, NEW l, Moves(a, l),
         phase' = phase \/ phase # "starting"
  PROVE  Handed' /\ DrainerRuns'
<1>1. /\ pc'["drain"] = pc["drain"]
      /\ \A p \in Pushers : pc'[p] = "wait" => pc[p] = "wait"
  <2>1. CASE UNCHANGED pc
    BY <2>1
  <2>2. CASE Goto(a, l)
    BY <2>2, GotoGoes, Names DEF Moves, Goes, Placed
  <2> QED
    BY <2>1, <2>2 DEF Moves
<1>2. UNCHANGED <<queue, job>>
  BY DEF Moves, pushVars
<1>3. Handed'
  BY <1>1, <1>2 DEF Handed
<1>4. DrainerRuns'
  BY <1>1 DEF DrainerRuns
<1> QED
  BY <1>3, <1>4

LEMMA HoldKeepsNone ==
  ASSUME IInv, NoneForgotten, NEW h \in Holders,
         StartNode(h) \/ Started(h) \/ StartFails(h) \/ StartBlocked(h)
  PROVE  NoneForgotten'
<1>1. PICK l \in {"send", "built", "nodes"} : Goto(h, l)
  BY DEF StartNode, Started, StartFails, StartBlocked, NotStarted
<1>2. mu = h /\ UNCHANGED <<mu, phase, pushVars>>
  BY DEF StartNode, Started, StartFails, StartBlocked, NotStarted
<1>3. pc'[h] = l
  BY <1>1, GotoGoes, Names DEF IInv, Goes
<1>4. Handed' /\ DrainerRuns'
  BY <1>1, <1>2, HandedKeeps, Names DEF IInv, NoneForgotten, Moves
<1>5. HolderIsBusy'
  BY <1>1, <1>2, <1>3 DEF HolderIsBusy, Wedged
<1> QED
  BY <1>4, <1>5 DEF NoneForgotten

LEMMA BootKeepsNone ==
  ASSUME IInv, NoneForgotten, GetServerNodes \/ Launch
  PROVE  NoneForgotten'
<1>1. CASE GetServerNodes
  <2>1. Goto("start", "nodes") /\ UNCHANGED <<mu, phase, pushVars>>
    BY <1>1 DEF GetServerNodes
  <2>2. mu = "start" /\ pc'["start"] = "nodes"
    BY <1>1, <2>1, GotoGoes, Names DEF GetServerNodes, IInv, Held, Goes
  <2>3. Handed' /\ DrainerRuns'
    BY <2>1, HandedKeeps, Names DEF IInv, NoneForgotten, Moves
  <2> QED
    BY <2>1, <2>2, <2>3 DEF NoneForgotten, HolderIsBusy, Wedged
<1>2. CASE Launch
  <2>1. mu = "start" /\ mu' = None /\ UNCHANGED <<queue, job>>
    BY <1>2 DEF Launch, pushVars
  <2>2. phase = "starting" /\ pc["drain"] = "off"
    BY <2>1 DEF IInv, Held
  <2>3. pc'["drain"] = "idle" /\ \A p \in Pushers : pc'[p] = "wait" => pc[p] = "wait"
    BY <1>2, Names DEF Launch, IInv, Placed
  <2>4. Handed'
    BY <2>1, <2>2, <2>3 DEF NoneForgotten, Handed
  <2> QED
    BY <2>1, <2>3, <2>4 DEF NoneForgotten, DrainerRuns, HolderIsBusy
<1> QED
  BY <1>1, <1>2

LEMMA SyncKeepsNone ==
  ASSUME IInv, NoneForgotten, NEW s \in Syncers,
         Fetch(s) \/ Apply(s) \/ ApplyStopped(s) \/ Unlock(s)
  PROVE  NoneForgotten'
<1>1. s \in Holders /\ s # "start" /\ s # None
  BY Names
<1>2. PICK l \in {"lock", "nodes", "idle"} : Moves(s, l)
  BY DEF Fetch, Apply, ApplyStopped, Unlock, Moves
<1>3. phase' = phase \/ phase # "starting"
  BY DEF Fetch, Apply, ApplyStopped, Unlock
<1>4. Handed' /\ DrainerRuns'
  BY <1>1, <1>2, <1>3, HandedKeeps, Names DEF IInv, NoneForgotten
<1>5. HolderIsBusy'
  <2>1. CASE Fetch(s)
    <3>1. UNCHANGED mu /\ mu # s /\ (Goto(s, "lock") \/ UNCHANGED pc)
      BY <1>1, <2>1 DEF Fetch, holdVars, NoneForgotten, HolderIsBusy, Wedged
    <3>2. mu # None => pc'[mu] = pc[mu]
      BY <1>1, <3>1, GotoGoes, Names DEF IInv, Placed, Held, Goes
    <3> QED
      BY <3>1, <3>2 DEF NoneForgotten, HolderIsBusy, Wedged
  <2>2. CASE Apply(s)
    <3>1. mu' = s /\ pc'[s] = "nodes"
      BY <1>1, <2>2, GotoGoes, Names DEF Apply, IInv, Goes
    <3> QED
      BY <3>1 DEF HolderIsBusy
  <2>3. CASE ApplyStopped(s) \/ Unlock(s)
    <3>1. mu' = None
      BY <2>3 DEF ApplyStopped, Unlock, holdVars
    <3> QED
      BY <3>1 DEF HolderIsBusy
  <2> QED
    BY <2>1, <2>2, <2>3
<1> QED
  BY <1>4, <1>5 DEF NoneForgotten

LEMMA OthersKeepNone ==
  ASSUME IInv, NoneForgotten,
         \/ PanelChange \/ Stop \/ UNCHANGED vars
         \/ \E l \in Listeners : Listen(l)
         \/ \E t \in Tasks : BeginPush(t)
  PROVE  NoneForgotten'
<1>1. UNCHANGED <<mu, pushVars>>
  BY DEF PanelChange, Stop, vars, Listen, Register, Cancelled, Event, EventRaces, Unregister,
         BeginPush, holdVars
<1>2. phase' = phase \/ phase # "starting"
  BY Names DEF PanelChange, Stop, vars, Listen, Register, Cancelled, Event, EventRaces, Unregister,
               BeginPush, IInv, Held
<1>3. \/ UNCHANGED pc
      \/ \E a \in Listeners \cup Tasks : \E l \in {"session", "off", "dial", "send"} : Goto(a, l)
  BY DEF PanelChange, Stop, vars, Listen, Register, Cancelled, Event, EventRaces, Unregister,
         BeginPush
<1>4. Handed' /\ DrainerRuns' /\ \A h \in Holders : pc'[h] = pc[h]
  <2>1. CASE UNCHANGED pc
    <3>1. Moves("start", "nodes") /\ "start" \in Pushers
      BY <1>1, <2>1, Names DEF Moves
    <3> QED
      BY <1>2, <2>1, <3>1, HandedKeeps DEF IInv, NoneForgotten
  <2>2. ASSUME NEW a \in Listeners \cup Tasks, NEW l \in {"session", "off", "dial", "send"}, Goto(a, l)
        PROVE  Handed' /\ DrainerRuns' /\ \A h \in Holders : pc'[h] = pc[h]
    <3>1. Moves(a, l) /\ a \in Pushers \cup Listeners /\ a \notin Holders
      BY <1>1, <2>2, Names DEF Moves
    <3>2. Handed' /\ DrainerRuns'
      BY <1>2, <3>1, HandedKeeps DEF IInv, NoneForgotten
    <3>3. \A h \in Holders : pc'[h] = pc[h]
      BY <2>2, <3>1, GotoGoes, Names DEF IInv, Placed, Goes
    <3> QED
      BY <3>2, <3>3
  <2> QED
    BY <1>3, <2>1, <2>2
<1>5. HolderIsBusy'
  BY <1>1, <1>4 DEF IInv, Held, NoneForgotten, HolderIsBusy, Wedged
<1> QED
  BY <1>4, <1>5 DEF NoneForgotten

LEMMA SendKeepsNone ==
  ASSUME IInv, NoneForgotten, NEW p \in Pushers, Send(p)
  PROVE  NoneForgotten'
<1>1. /\ pc[p] = "send" /\ Goto(p, "wait") /\ queue' = Append(queue, p)
      /\ UNCHANGED <<mu, phase, job>>
  BY DEF Send, holdVars
<1>2. Goes(p, "wait") /\ pc'["drain"] = pc["drain"]
  BY <1>1, GotoGoes, Names DEF IInv, Placed, Goes
<1>3. ToSet(queue') = ToSet(queue) \cup {p}
  <2>1. queue \in Seq(Pushers)
    BY DEF IInv, Waiting
  <2> QED
    BY <1>1, <2>1 DEF ToSet
<1>4. Handed'
  BY <1>1, <1>2, <1>3 DEF IInv, Placed, Goes, NoneForgotten, Handed
<1>5. DrainerRuns'
  BY <1>1, <1>2 DEF NoneForgotten, DrainerRuns
<1>6. HolderIsBusy'
  <2>1. mu # None => pc'[mu] = pc[mu] \/ (mu = p /\ pc'[mu] = "wait")
    BY <1>2, Names DEF Goes, IInv, Placed, Held
  <2> QED
    BY <1>1, <2>1 DEF NoneForgotten, HolderIsBusy, Wedged
<1> QED
  BY <1>4, <1>5, <1>6 DEF NoneForgotten

LEMMA DrainKeepsNone == ASSUME IInv, NoneForgotten, Drain PROVE NoneForgotten'
<1>1. CASE Take
  <2>1. /\ pc["drain"] = "idle" /\ queue # << >> /\ job' = Head(queue) /\ queue' = Tail(queue)
        /\ UNCHANGED <<mu, phase>> /\ Goes("drain", "lock")
    BY <1>1, GotoGoes DEF Take, IInv, holdVars
  <2>2. pc'["drain"] = "lock" /\ \A p \in Pushers : pc'[p] = pc[p]
    BY <2>1, Names DEF Goes, IInv, Placed
  <2>3. ToSet(queue) = {job'} \cup ToSet(queue')
    <3>1. queue \in Seq(Pushers)
      BY DEF IInv, Waiting
    <3>2. /\ DOMAIN queue = 1..Len(queue) /\ DOMAIN queue' = 1..(Len(queue) - 1)
          /\ job' = queue[1] /\ \A i \in DOMAIN queue' : queue'[i] = queue[i + 1]
          /\ Len(queue) \in Nat \ {0}
      BY <2>1, <3>1
    <3>3. \A i \in DOMAIN queue : i = 1 \/ (i - 1 \in DOMAIN queue' /\ (i - 1) + 1 = i)
      BY <3>2
    <3>4. \A i \in DOMAIN queue' : i + 1 \in DOMAIN queue
      BY <3>2
    <3> QED
      BY <3>2, <3>3, <3>4 DEF ToSet
  <2>4. Handed'
    BY <2>1, <2>2, <2>3 DEF NoneForgotten, Handed
  <2>5. DrainerRuns' /\ HolderIsBusy'
    BY <2>1, <2>2, Names DEF NoneForgotten, DrainerRuns, HolderIsBusy, Wedged, IInv, Held
  <2> QED
    BY <2>4, <2>5 DEF NoneForgotten
<1>2. CASE ReadPusher
  <2>1. pc["drain"] = "lock" /\ UNCHANGED <<mu, phase, queue, job>> /\ Goes("drain", "reply")
    BY <1>2, GotoGoes DEF ReadPusher, IInv, holdVars
  <2>2. pc'["drain"] = "reply" /\ \A p \in Pushers : pc'[p] = pc[p]
    BY <2>1, Names DEF Goes, IInv, Placed
  <2>3. Handed'
    BY <2>1, <2>2 DEF NoneForgotten, Handed
  <2>4. DrainerRuns' /\ HolderIsBusy'
    BY <2>1, <2>2, Names DEF NoneForgotten, DrainerRuns, HolderIsBusy, Wedged, IInv, Held
  <2> QED
    BY <2>3, <2>4 DEF NoneForgotten
<1>3. CASE Reply
  <2>1. /\ pc["drain"] = "reply" /\ UNCHANGED <<mu, phase, queue>>
        /\ pc' = [pc EXCEPT !["drain"] = "idle", ![job] = Returned(job)]
    BY <1>3 DEF Reply, holdVars
  <2>2. job \in Pushers /\ pc[job] = "wait"
    BY <2>1 DEF IInv, Waiting
  <2>3. /\ pc'["drain"] = "idle" /\ pc'[job] = Returned(job)
        /\ \A p \in Pushers \ {job} : pc'[p] = pc[p]
    BY <2>1, <2>2, Names DEF IInv, Placed
  <2>4. Handed'
    <3>1. pc'[job] # "wait"
      BY <2>3 DEF Returned
    <3>2. ASSUME NEW p \in Pushers, pc'[p] = "wait" PROVE p \in ToSet(queue)
      <4>1. p # job /\ pc[p] = "wait"
        BY <2>3, <3>1, <3>2
      <4> QED
        BY <4>1 DEF NoneForgotten, Handed
    <3>3. ToSet(queue') = ToSet(queue)
      BY <2>1
    <3> QED
      BY <3>2, <3>3 DEF Handed
  <2>5. mu # None => pc'[mu] = pc[mu] \/ (mu = job /\ pc'[mu] = "built")
    BY <2>3, Names DEF IInv, Held, Returned
  <2>6. DrainerRuns' /\ HolderIsBusy'
    BY <2>1, <2>3, <2>5 DEF NoneForgotten, DrainerRuns, HolderIsBusy, Wedged
  <2> QED
    BY <2>4, <2>6 DEF NoneForgotten
<1> QED
  BY <1>1, <1>2, <1>3 DEF Drain

\* A push is answered or still to be answered, never lost: who waits in
\* PushEvent is in the queue or in the drainer's hands, the drainer runs once
\* Start is over, and only a holder of i.mu that itself waits for an answer
\* keeps the drainer from its next one (PushEvent, drainReverbOutbound).
THEOREM PushesAreInHand == Spec => []NoneForgotten
<1>1. Init => NoneForgotten
  BY Names DEF Init, NoneForgotten, Handed, DrainerRuns, HolderIsBusy, Pushers
<1>2. IInv /\ NoneForgotten /\ [Next]_vars => NoneForgotten'
  <2> SUFFICES ASSUME IInv, NoneForgotten, [Next]_vars PROVE NoneForgotten'
    OBVIOUS
  <2>1. ASSUME NEW h \in Holders, Hold(h) PROVE NoneForgotten'
    BY <2>1, HoldKeepsNone, SendKeepsNone, Names DEF Hold
  <2>2. CASE Boot
    BY <2>1, <2>2, BootKeepsNone, Names DEF Boot
  <2>3. ASSUME NEW s \in Syncers, Sync(s) PROVE NoneForgotten'
    BY <2>1, <2>3, SyncKeepsNone, Names DEF Sync
  <2>4. ASSUME NEW t \in Tasks, BeginPush(t) \/ Send(t) PROVE NoneForgotten'
    BY <2>4, OthersKeepNone, SendKeepsNone, Names
  <2> QED
    BY <2>2, <2>3, <2>4, DrainKeepsNone, OthersKeepNone DEF Next
<1> QED
  BY <1>1, <1>2, Inductive, PTL DEF Spec
-----------------------------------------------------------------------------
(***************************************************************************)
(* A list is applied whole: the safety core of NodesFollowPanel.           *)
(***************************************************************************)
\* While somebody applies a list under i.mu, the controllers are those of nodes
\* of that list, and what it lists and has none is still to be started, or
\* something has failed.
ListUnderWay ==
    mu # None /\ pc[mu] # "idle" =>
        /\ DOMAIN controllerMap \cup todo \cup ({starting} \ {None}) \subseteq answer[mu]
        /\ faults = 0 => answer[mu] = DOMAIN controllerMap \cup todo \cup ({starting} \ {None})

OneList == ListUnderWay /\ faults \in Nat

\* Only a Start that failed leaves a listener behind.
Unhurt == faults \in Nat /\ (halfway # {} => faults # 0)

LEMMA UnhurtAlways == Spec => []Unhurt
<1>1. Init => Unhurt
  BY DEF Init, Unhurt
<1>2. Unhurt /\ [Next]_vars => Unhurt'
  <2> SUFFICES ASSUME Unhurt, [Next]_vars PROVE Unhurt'
    OBVIOUS
  <2> USE DEF Unhurt
  <2>1. ASSUME NEW h \in Holders, StartFails(h) PROVE Unhurt'
    BY <2>1 DEF StartFails, Fault
  <2>2. ASSUME NEW h \in Holders, StartNode(h) \/ Started(h) \/ StartBlocked(h) \/ Send(h)
        PROVE  Unhurt'
    BY <2>2 DEF StartNode, Started, StartBlocked, Send, ctlVars
  <2>3. CASE GetServerNodes \/ Launch \/ PanelChange \/ Stop \/ Drain
    BY <2>3 DEF GetServerNodes, Launch, PanelChange, Stop, Drain, Take, ReadPusher, Reply, ctlVars
  <2>4. ASSUME NEW s \in Syncers, Fetch(s) \/ Apply(s) \/ ApplyStopped(s) \/ Unlock(s)
        PROVE  Unhurt'
    BY <2>4 DEF Fetch, Apply, ApplyStopped, Unlock, Fault, ctlVars
  <2>5. ASSUME NEW l \in Listeners, Listen(l) PROVE Unhurt'
    BY <2>5 DEF Listen, Register, Cancelled, Event, EventRaces, Unregister, ctlVars
  <2>6. ASSUME NEW t \in Tasks, BeginPush(t) \/ Send(t) PROVE Unhurt'
    BY <2>6 DEF BeginPush, Send, ctlVars
  <2>7. CASE UNCHANGED vars
    BY <2>7 DEF vars, ctlVars
  <2> HIDE DEF Unhurt
  <2>8. ASSUME NEW h \in Holders, Hold(h) PROVE Unhurt'
    BY <2>1, <2>2, <2>8 DEF Hold
  <2> QED
    BY <2>3, <2>4, <2>5, <2>6, <2>7, <2>8, Names DEF Next, Boot, Sync
<1> QED
  BY <1>1, <1>2, PTL DEF Spec

\* Steps that touch neither the list nor the controllers.
LEMMA OneListKeeps ==
  ASSUME OneList,
         UNCHANGED <<mu, todo, starting>> /\ DOMAIN controllerMap' = DOMAIN controllerMap,
         faults' \in {faults, faults + 1},
         mu # None => answer'[mu] = answer[mu] /\ (pc[mu] # "idle" \/ pc'[mu] = pc[mu])
  PROVE  OneList'
<1>1. faults' \in Nat /\ (faults' = 0 => faults = 0)
  BY DEF OneList
<1>2. ListUnderWay'
  BY <1>1 DEF OneList, ListUnderWay
<1> QED
  BY <1>1, <1>2 DEF OneList

LEMMA HoldKeepsList ==
  ASSUME IInv, OneList, Unhurt, NEW h \in Holders,
         StartNode(h) \/ Started(h) \/ StartFails(h) \/ StartBlocked(h)
  PROVE  OneList'
<1>1. mu = h /\ mu # None /\ UNCHANGED <<mu, answer>> /\ pc[mu] # "idle"
  BY Names DEF StartNode, Started, StartFails, StartBlocked, NotStarted
<1>2. CASE StartNode(h)
  <2>1. PICK n \in todo : starting' = n /\ todo' = todo \ {n}
    BY <1>2 DEF StartNode
  <2>2. starting = None /\ n # None /\ UNCHANGED <<controllerMap, faults>>
    BY <1>1, <1>2, <2>1, Names DEF StartNode, ctlVars, IInv, Held, ToStart
  <2> QED
    BY <1>1, <2>1, <2>2 DEF OneList, ListUnderWay
<1>3. CASE Started(h)
  <2>1. /\ starting' = None /\ UNCHANGED <<todo, faults>>
        /\ DOMAIN controllerMap' = DOMAIN controllerMap \cup {starting}
    BY <1>3 DEF Started
  <2>2. starting # None
    BY <1>1, <1>3 DEF Started, IInv, Held
  <2> QED
    BY <1>1, <2>1, <2>2 DEF OneList, ListUnderWay
<1>4. CASE StartFails(h) \/ StartBlocked(h)
  <2>1. starting' = None /\ UNCHANGED <<todo, controllerMap>>
    BY <1>4 DEF StartFails, StartBlocked, NotStarted
  <2>2. faults' \in Nat /\ faults' # 0
    BY <1>4 DEF StartFails, StartBlocked, Fault, OneList, Unhurt
  <2> QED
    BY <1>1, <2>1, <2>2 DEF OneList, ListUnderWay
<1> QED
  BY <1>2, <1>3, <1>4

LEMMA BootKeepsList ==
  ASSUME IInv, OneList, GetServerNodes \/ Launch
  PROVE  OneList'
<1>1. CASE GetServerNodes
  <2>1. /\ pc["start"] = "idle" /\ answer' = [answer EXCEPT !["start"] = panel] /\ todo' = panel
        /\ UNCHANGED <<mu, starting, controllerMap, faults>>
    BY <1>1 DEF GetServerNodes, ctlVars
  <2>2. mu = "start" /\ DOMAIN controllerMap = {}
    BY <2>1 DEF IInv, Held
  <2>3. starting = None
    BY <2>1, <2>2 DEF IInv, Held
  <2>4. answer'["start"] = panel
    BY <2>1, Names DEF IInv, Typed
  <2> QED
    BY <2>1, <2>2, <2>3, <2>4 DEF OneList, ListUnderWay
<1>2. CASE Launch
  BY <1>2 DEF Launch, OneList, ListUnderWay
<1> QED
  BY <1>1, <1>2

LEMMA SyncKeepsList ==
  ASSUME IInv, NoneForgotten, OneList, NEW s \in Syncers,
         Fetch(s) \/ Apply(s) \/ ApplyStopped(s) \/ Unlock(s)
  PROVE  OneList'
<1>1. s \in Holders /\ s # "start" /\ s # None
  BY Names
<1>2. CASE Fetch(s)
  <2>1. /\ UNCHANGED <<mu, todo, starting, controllerMap>> /\ pc[s] = "idle"
        /\ faults' \in {faults, faults + 1}
        /\ answer' = answer \/ answer' = [answer EXCEPT ![s] = panel]
        /\ UNCHANGED pc \/ Goto(s, "lock")
    BY <1>2 DEF Fetch, Fault, ctlVars
  <2>2. mu # s
    BY <1>1, <2>1 DEF NoneForgotten, HolderIsBusy, Wedged
  <2>3. mu # None => answer'[mu] = answer[mu]
    BY <2>1, <2>2 DEF IInv, Typed, Held
  <2>4. mu # None => pc'[mu] = pc[mu]
    BY <1>1, <2>1, <2>2, GotoGoes, Names DEF IInv, Placed, Held, Goes
  <2> QED
    BY <2>1, <2>3, <2>4, OneListKeeps
<1>3. CASE Apply(s)
  <2>1. /\ mu = None /\ mu' = s /\ todo' = answer[s] \ DOMAIN controllerMap
        /\ UNCHANGED <<answer, starting, faults>>
        /\ controllerMap' = Restrict(controllerMap, DOMAIN controllerMap \ Gone(s))
    BY <1>3 DEF Apply
  <2>2. starting = None
    BY <2>1, Names DEF IInv, Held
  <2>3. DOMAIN controllerMap' = DOMAIN controllerMap \cap answer[s]
    BY <2>1 DEF Restrict, Gone
  <2> QED
    BY <2>1, <2>2, <2>3 DEF OneList, ListUnderWay
<1>4. CASE ApplyStopped(s) \/ Unlock(s)
  <2>1. mu' = None /\ faults' \in {faults, faults + 1}
    BY <1>4 DEF ApplyStopped, Unlock, holdVars, Fault
  <2> QED
    BY <2>1 DEF OneList, ListUnderWay
<1> QED
  BY <1>2, <1>3, <1>4

LEMMA OthersKeepList ==
  ASSUME IInv, OneList,
         \/ PanelChange \/ UNCHANGED vars \/ Drain
         \/ \E l \in Listeners : Listen(l)
         \/ \E t \in Tasks : BeginPush(t)
         \/ \E p \in Pushers : Send(p)
  PROVE  OneList'
<1>1. UNCHANGED <<mu, todo, starting, answer, faults, controllerMap>>
  BY DEF PanelChange, vars, Listen, Register, Cancelled, Event, EventRaces, Unregister,
         BeginPush, Send, Drain, Take, ReadPusher, Reply, holdVars, ctlVars
<1>2. ASSUME NEW a \in Pushers \cup Listeners \cup {"drain"}, NEW l, Goto(a, l),
             a \notin Holders \/ pc[a] # "idle"
      PROVE  mu # None => pc[mu] # "idle" \/ pc'[mu] = pc[mu]
  BY <1>2, GotoGoes, Names DEF IInv, Placed, Held, Goes
<1>3. mu # None => pc[mu] # "idle" \/ pc'[mu] = pc[mu]
  <2>1. CASE PanelChange \/ UNCHANGED vars
    BY <2>1 DEF PanelChange, vars
  <2>2. CASE \E l \in Listeners : Listen(l)
    BY <1>2, <2>2, Names DEF Listen, Register, Cancelled, Event, EventRaces, Unregister
  <2>3. CASE \E t \in Tasks : BeginPush(t)
    BY <1>2, <2>3, Names DEF BeginPush
  <2>4. CASE \E p \in Pushers : Send(p)
    BY <1>2, <2>4 DEF Send
  <2>5. CASE Take \/ ReadPusher
    BY <1>2, <2>5, Names DEF Take, ReadPusher
  <2>6. CASE Reply
    <3>1. job \in Pushers /\ pc[job] = "wait"
      BY <2>6 DEF Reply, IInv, Waiting
    <3> QED
      BY <2>6, <3>1, Names DEF Reply, IInv, Placed, Held
  <2> QED
    BY <2>1, <2>2, <2>3, <2>4, <2>5, <2>6 DEF Drain
<1> QED
  BY <1>1, <1>3, OneListKeeps

\* Whatever lists come while one is applied, and whatever is pushed meanwhile:
\* who applies a list under i.mu ends with controllers of its nodes only, and,
\* unless a request or a start failed, with one for each (syncServerNodes).
THEOREM ListsAreApplied == Spec => []OneList
<1>1. Init => OneList
  <2> SUFFICES ASSUME Init PROVE OneList
    OBVIOUS
  <2>1. mu = "start" /\ pc["start"] = "idle" /\ faults = 0
    BY Names DEF Init
  <2> QED
    BY <2>1 DEF OneList, ListUnderWay
<1>2. IInv /\ NoneForgotten /\ Unhurt /\ OneList /\ [Next]_vars => OneList'
  <2> SUFFICES ASSUME IInv, NoneForgotten, Unhurt, OneList, [Next]_vars PROVE OneList'
    OBVIOUS
  <2>1. ASSUME NEW h \in Holders, Hold(h) PROVE OneList'
    BY <2>1, HoldKeepsList, OthersKeepList, Names DEF Hold
  <2>2. CASE Boot
    BY <2>1, <2>2, BootKeepsList, Names DEF Boot
  <2>3. ASSUME NEW s \in Syncers, Sync(s) PROVE OneList'
    BY <2>1, <2>3, SyncKeepsList, Names DEF Sync
  <2>4. CASE Stop
    <3>1. mu = None /\ UNCHANGED <<mu, faults>>
      BY <2>4 DEF Stop, holdVars
    <3> QED
      BY <3>1 DEF OneList, ListUnderWay
  <2> QED
    BY <2>2, <2>3, <2>4, OthersKeepList, Names DEF Next
<1> QED
  BY <1>1, <1>2, Inductive, PushesAreInHand, UnhurtAlways, PTL DEF Spec
=============================================================================
