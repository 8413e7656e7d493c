-------------------------- MODULE Reconcile_proofs --------------------------
(***************************************************************************)
(* Proofs that apiMonitor, called by one caller at a time, reconciles the  *)
(* running state with the panel's answers, and what c.subscriptionList     *)
(* tells of it whatever failed (controller/controller.go).                 *)
(***************************************************************************)
EXTENDS Reconcile, Integers, TLAPS

\* The "node" task alone: with Reverb the webhook loop is a second caller, and
\* two callers at once do lose updates.
OneCaller(me) == Actors = {me}

(***************************************************************************)
(* The inductive invariant: what the inbound, the limiter, the rules, the  *)
(* local variables and the answers are at each place of apiMonitor.        *)
(***************************************************************************)
Places == {"idle", "subs", "unrelay", "remove", "add", "populate", "relay", "limits",
           "soft", "diff", "added", "modified", "readd", "relayDiff", "store"}

\* nodeInfoChangedStructurally finds nothing.
Same(old, new) == old.tag = new.tag /\ old.relay = new.relay

Inbound == [up : BOOLEAN, node : Nodes, users : Lists, serves : Lists]
Limiter == [speed : Speeds, users : Lists]

Typed ==
    /\ pnode \in Nodes /\ seenNode \in Nodes /\ nodeInfo \in Nodes
    /\ psubs \in Lists /\ seenSubs \in Lists /\ list \in Lists
    /\ inbound \in [DOMAIN inbound -> Inbound]
    /\ limits \in [DOMAIN limits -> Limiter]
    /\ rules \in [Users -> Int] /\ keyed \subseteq Users /\ relay \in BOOLEAN
    /\ pc \in [Actors -> Places] /\ loc \in [Actors -> Local]
    /\ faults \in Nat /\ partial \in BOOLEAN
    /\ missed \subseteq Users /\ unlimited \subseteq Users
    /\ faults = 0 => ~partial

\* The list as the calls of a comparison change it, one after another.
Without(old, new) == Upsert(old, Deleted(old, new), NoUsers)
With(old, new) == Upsert(Without(old, new), Added(old, new), new)
Reduced(old, new) == Upsert(With(old, new), Modified(old, new), NoUsers)

\* The inbound has a list, and serves it but for users a call failed for.
InboundIs(subs) ==
    \A t \in DOMAIN inbound :
        /\ t = nodeInfo.tag
        /\ inbound[t].users = subs
        /\ \A u \in Users \ missed : inbound[t].serves[u] = subs[u]

\* Until the branches change it the inbound has c.subscriptionList, and
\* afterwards the list that is about to be stored.
InboundAt(a) ==
    /\ pc[a] \in {"idle", "subs", "unrelay", "remove", "soft", "diff"} => InboundIs(list)
    /\ pc[a] = "add" => DOMAIN inbound = {}
    /\ pc[a] = "populate" => DOMAIN inbound = {nodeInfo.tag} /\ InboundIs(NoUsers)
    /\ pc[a] = "added" => InboundIs(Without(list, loc[a].subs))
    /\ pc[a] = "modified" => InboundIs(With(list, loc[a].subs))
    /\ pc[a] = "readd" => InboundIs(Reduced(list, loc[a].subs))
    /\ pc[a] \in {"relay", "limits", "relayDiff", "store"} => InboundIs(loc[a].subs)

\* Before any fault the inbound is up, and no call for a user has failed.
UpAt(a) ==
    faults = 0 =>
        /\ missed = {} /\ unlimited = {}
        /\ pc[a] # "add" => /\ nodeInfo.tag \in DOMAIN inbound
                            /\ inbound[nodeInfo.tag].up
                            /\ Same(inbound[nodeInfo.tag].node, nodeInfo)

\* The limiter follows after the inbound, but for users a call failed for.
LimitsAre(node, subs) ==
    /\ DOMAIN limits = {node.tag}
    /\ limits[node.tag].speed = node.speed
    /\ \A u \in Users \ unlimited : limits[node.tag].users[u] = subs[u]

LimitsAt(a) ==
    /\ pc[a] \in {"idle", "subs", "unrelay", "remove", "soft", "diff"} =>
         LimitsAre(nodeInfo, list)
    /\ pc[a] \in {"add", "populate", "relay", "limits"} => LimitsAre(loc[a].old, list)
    /\ pc[a] = "added" => LimitsAre(nodeInfo, Without(list, loc[a].subs))
    /\ pc[a] = "modified" => LimitsAre(nodeInfo, With(list, loc[a].subs))
    /\ pc[a] = "readd" => LimitsAre(nodeInfo, Reduced(list, loc[a].subs))
    /\ pc[a] \in {"relayDiff", "store"} => LimitsAre(nodeInfo, loc[a].subs)

\* One rule for each relayed subscription of the list, and relayRules names it.
RulesAre(subs) ==
    ~partial =>
        /\ rules = [u \in Users |-> IF relay /\ subs[u] # 0 THEN 1 ELSE 0]
        /\ keyed = {u \in Users : relay /\ subs[u] # 0}

RulesAt(a) ==
    /\ pc[a] \in {"remove", "add", "populate", "relay", "diff", "added", "modified", "readd",
                  "relayDiff"} => ~relay
    /\ pc[a] \notin {"limits", "store"} => RulesAre(list)
    /\ pc[a] \in {"limits", "store"} => RulesAre(loc[a].subs)

\* What the local variables of apiMonitor say of c's fields.
LocalAt(a) ==
    /\ pc[a] \in {"subs", "unrelay"} => loc[a].nodeChanged \/ loc[a].node = nodeInfo
    /\ pc[a] \in {"unrelay", "soft"} => loc[a].subsChanged \/ loc[a].subs = list
    /\ pc[a] = "soft" => Same(nodeInfo, loc[a].node) /\ (loc[a].subsChanged => ~relay)
    /\ pc[a] \in {"add", "populate", "relay", "limits"} => nodeInfo = loc[a].node

\* Before any fault nothing the panel answered is lost on its way.
AnswersAt(a) ==
    faults = 0 =>
        /\ pc[a] = "idle" => nodeInfo = seenNode
        /\ pc[a] \in {"subs", "unrelay", "remove", "soft"} => loc[a].node = seenNode
        /\ pc[a] \in {"add", "populate", "relay", "limits", "diff", "added", "modified", "readd",
                      "relayDiff", "store"} =>
             nodeInfo = seenNode
        /\ pc[a] \in {"idle", "subs"} => list = seenSubs
        /\ pc[a] \notin {"idle", "subs"} => loc[a].subs = seenSubs
        /\ pc[a] \in {"idle", "subs", "unrelay", "limits", "store"} => relay = nodeInfo.relay
        /\ pc[a] = "soft" /\ ~loc[a].subsChanged => relay = nodeInfo.relay

At(a) == InboundAt(a) /\ UpAt(a) /\ LimitsAt(a) /\ RulesAt(a) /\ LocalAt(a) /\ AnswersAt(a)

Closed ==
    closed = "quiet" =>
        /\ \A a \in Actors : pc[a] = "idle"
        /\ DOMAIN inbound = {} /\ DOMAIN limits = {}
        /\ ~partial => rules = [u \in Users |-> 0]

IInv == Typed /\ Closed /\ (closed = "no" => \A a \in Actors : At(a))
-----------------------------------------------------------------------------
(***************************************************************************)
(* The operators on lists, nodes and maps.                                 *)
(***************************************************************************)
LEMMA Lists0 == NoUsers \in Lists
BY DEF NoUsers, Lists

LEMMA SameIsNotStructural ==
  ASSUME NEW old \in Nodes, NEW new \in Nodes
  PROVE  ~Structural(old, new) <=> Same(old, new)
BY DEF Structural, Same, Nodes

\* Applying a comparison to the old list makes the new one.
LEMMA DiffApplies ==
  ASSUME NEW old \in Lists, NEW new \in Lists
  PROVE  Upsert(Reduced(old, new), Modified(old, new), new) = new
BY DEF Upsert, Deleted, Added, Modified, Listed, Lists, NoUsers, Without, With, Reduced

LEMMA PopulateApplies ==
  ASSUME NEW new \in Lists
  PROVE  Upsert(NoUsers, Listed(new), new) = new
BY DEF Upsert, NoUsers, Listed, Lists

LEMMA UpsertType ==
  ASSUME NEW users \in Lists, NEW gone, NEW us, NEW subs \in Lists
  PROVE  Upsert(users, us, subs) \in Lists /\ Drop(users, gone) \in Lists
BY DEF Upsert, Drop, Lists

LEMMA StagesType ==
  ASSUME NEW old \in Lists, NEW new \in Lists
  PROVE  /\ Without(old, new) \in Lists /\ With(old, new) \in Lists
         /\ Reduced(old, new) \in Lists
BY UpsertType, Lists0 DEF Without, With, Reduced

LEMMA NobodyUpserted ==
  ASSUME NEW old \in Lists, NEW new
  PROVE  Upsert(old, {}, new) = old
BY DEF Upsert, Lists

LEMMA RestrictIs ==
  ASSUME NEW f, NEW S
  PROVE  /\ DOMAIN Restrict(f, DOMAIN f \ S) = DOMAIN f \ S
         /\ \A t \in DOMAIN f \ S : Restrict(f, DOMAIN f \ S)[t] = f[t]
BY DEF Restrict
-----------------------------------------------------------------------------
(***************************************************************************)
(* Every variable keeps its type.                                          *)
(***************************************************************************)
LEMMA FaultType ==
  ASSUME Typed, NEW a \in Actors, NEW l \in Places, Fault(a, l)
  PROVE  pc' \in [Actors -> Places] /\ faults' \in Nat /\ faults' # 0
BY DEF Typed, Fault, Goto

LEMMA PlacesFacts ==
  /\ "idle" \in Places /\ "subs" \in Places /\ "unrelay" \in Places /\ "remove" \in Places
  /\ "add" \in Places /\ "populate" \in Places /\ "relay" \in Places /\ "limits" \in Places
  /\ "soft" \in Places /\ "diff" \in Places /\ "added" \in Places /\ "modified" \in Places
  /\ "readd" \in Places /\ "relayDiff" \in Places /\ "store" \in Places
BY DEF Places

LEMMA RequestsTyped ==
  ASSUME Typed, NEW a \in Actors,
         GetNodeInfo(a) \/ GetSubscriptionList(a) \/ GetSubscriptionListFails(a)
  PROVE  Typed'
<1>1. CASE GetNodeInfo(a)
  <2>1. pc' \in [Actors -> Places]
    BY <1>1, PlacesFacts DEF GetNodeInfo, Goto, Typed
  <2>2. loc' \in [Actors -> Local]
    BY <1>1 DEF GetNodeInfo, Typed, Local
  <2> QED
    BY <1>1, <2>1, <2>2 DEF GetNodeInfo, Typed, panelVars, engineVars, historyVars
<1>2. CASE GetSubscriptionList(a)
  <2>1. pc' \in [Actors -> Places]
    BY <1>2, PlacesFacts DEF GetSubscriptionList, Goto, Typed
  <2>2. loc' \in [Actors -> Local]
    BY <1>2 DEF GetSubscriptionList, Typed, Local
  <2> QED
    BY <1>2, <2>1, <2>2 DEF GetSubscriptionList, NoFault, Typed, panelVars, engineVars, historyVars
<1>3. CASE GetSubscriptionListFails(a)
  BY <1>3, FaultType, PlacesFacts DEF GetSubscriptionListFails, Typed, panelVars, engineVars, historyVars
<1> QED
  BY <1>1, <1>2, <1>3

LEMMA RemoveRulesType ==
  ASSUME Typed, NEW us \in SUBSET Users, RemoveRules(us)
  PROVE  rules' \in [Users -> Int] /\ keyed' \subseteq Users /\ relay' \in BOOLEAN
<1>1. \A u \in Users : rules[u] \in Int
  BY DEF Typed
<1>2. rules' \in [Users -> Int]
  BY <1>1 DEF RemoveRules
<1>3. keyed' \subseteq Users /\ relay' \in BOOLEAN
  BY DEF Typed, RemoveRules
<1> QED
  BY <1>2, <1>3

LEMMA AddRulesType ==
  ASSUME Typed, NEW us \in SUBSET Users, AddRules(us)
  PROVE  rules' \in [Users -> Int] /\ keyed' \subseteq Users
BY DEF Typed, AddRules

LEMMA RemoveRelayTyped ==
  ASSUME Typed, NEW a \in Actors, RemoveRelay(a)
  PROVE  Typed'
<1>1. pc' \in [Actors -> Places]
  BY PlacesFacts DEF RemoveRelay, Goto, Typed
<1>2. Listed(list) \in SUBSET Users
  BY DEF Listed
<1>3. rules' \in [Users -> Int] /\ keyed' \subseteq Users /\ relay' \in BOOLEAN
  BY <1>2, RemoveRulesType DEF RemoveRelay, Typed
<1> QED
  BY <1>1, <1>3 DEF RemoveRelay, NoFault, Typed, panelVars, historyVars

LEMMA SetupRelayTyped ==
  ASSUME Typed, NEW a \in Actors, NEW at, NEW next \in Places,
         SetupRelay(a, at, next) \/ SetupRelayFails(a, at, next)
  PROVE  Typed'
<1>1. Listed(loc[a].subs) \in SUBSET Users
  BY DEF Listed
<1>2. CASE SetupRelay(a, at, next)
  <2>1. pc' \in [Actors -> Places]
    BY <1>2 DEF SetupRelay, Goto, Typed
  <2>2. rules' \in [Users -> Int] /\ keyed' \subseteq Users /\ relay' \in BOOLEAN
    BY <1>1, <1>2, AddRulesType DEF SetupRelay, Typed
  <2> QED
    BY <1>2, <2>1, <2>2 DEF SetupRelay, NoFault, Typed, panelVars, historyVars
<1>3. CASE SetupRelayFails(a, at, next)
  <2>1. PICK us \in SUBSET Listed(loc[a].subs) : AddRules(us) /\ partial' = (partial \/ us # {})
    BY <1>3 DEF SetupRelayFails
  <2>2. rules' \in [Users -> Int] /\ keyed' \subseteq Users
    BY <1>1, <2>1, AddRulesType
  <2>3. partial' \in BOOLEAN
    BY <2>1
  <2>4. Fault(a, next)
    BY <1>3 DEF SetupRelayFails
  <2> QED
    BY <1>3, <2>2, <2>3, <2>4, FaultType DEF SetupRelayFails, Typed, panelVars
<1> QED
  BY <1>2, <1>3

LEMMA RemoveNodeTyped ==
  ASSUME Typed, NEW a \in Actors, RemoveNode(a) \/ RemoveNodeFails(a)
  PROVE  Typed'
<1>1. CASE RemoveNode(a)
  <2>1. pc' \in [Actors -> Places]
    BY <1>1, PlacesFacts DEF RemoveNode, Goto, Typed
  <2>2. loc' \in [Actors -> Local] /\ nodeInfo' \in Nodes
    BY <1>1 DEF RemoveNode, Typed, Local
  <2>3. inbound' \in [DOMAIN inbound' -> Inbound]
    BY <1>1 DEF RemoveNode, Restrict, Typed
  <2> QED
    BY <1>1, <2>1, <2>2, <2>3 DEF RemoveNode, NoFault, Typed, panelVars, historyVars
<1>2. CASE RemoveNodeFails(a)
  <2>1. Fault(a, "idle")
    BY <1>2 DEF RemoveNodeFails
  <2>2. inbound' \in [DOMAIN inbound' -> Inbound]
    BY <1>2 DEF RemoveNodeFails, Typed, Inbound
  <2> QED
    BY <1>2, <2>1, <2>2, FaultType, PlacesFacts DEF RemoveNodeFails, Typed, panelVars, historyVars
<1> QED
  BY <1>1, <1>2

LEMMA AddNodeTyped ==
  ASSUME Typed, NEW a \in Actors, AddNode(a) \/ AddNodeFails(a)
  PROVE  Typed'
<1>0. loc[a] \in Local
  BY DEF Typed
<1>1. CASE AddNode(a)
  <2>1. pc' \in [Actors -> Places]
    BY <1>1, PlacesFacts DEF AddNode, Goto, Typed
  <2>2. [up |-> TRUE, node |-> loc[a].node, users |-> NoUsers, serves |-> NoUsers] \in Inbound
    BY <1>0, Lists0 DEF Local, Inbound
  <2>3. inbound' \in [DOMAIN inbound' -> Inbound]
    BY <1>1, <2>2 DEF AddNode, Put, Typed
  <2> QED
    BY <1>1, <2>1, <2>3 DEF AddNode, NoFault, Typed, panelVars, historyVars
<1>2. CASE AddNodeFails(a)
  <2>1. Fault(a, "idle") /\ nodeInfo' \in Nodes
    BY <1>0, <1>2 DEF AddNodeFails, Local
  <2> QED
    BY <1>2, <2>1, FaultType, PlacesFacts DEF AddNodeFails, Typed, panelVars, engineVars, historyVars
<1> QED
  BY <1>1, <1>2

\* What a call of the subscription manager leaves alone, and its types.
LEMMA CallsTyped ==
  ASSUME Typed, NEW us \in SUBSET Users, NEW subs \in Lists, NEW succeeds \in BOOLEAN,
         nodeInfo.tag \in DOMAIN inbound, Calls(us, subs, succeeds)
  PROVE  /\ inbound' \in [DOMAIN inbound' -> Inbound] /\ missed' \subseteq Users
         /\ DOMAIN inbound' = DOMAIN inbound
<1> DEFINE t == nodeInfo.tag
           table == Upsert(inbound[t].users, us, subs)
<1>1. PICK serves \in Lists : inbound' = [inbound EXCEPT ![t].users = table, ![t].serves = serves]
  BY DEF Calls
<1>2. inbound[t] \in Inbound
  BY DEF Typed
<1>3. table \in Lists
  BY <1>2, UpsertType DEF Inbound
<1> HIDE DEF table
<1>4. inbound' \in [DOMAIN inbound -> Inbound]
  BY <1>1, <1>2, <1>3 DEF Typed, Inbound
<1>5. missed' \subseteq Users
  BY DEF Calls, Typed
<1> QED
  BY <1>4, <1>5

LEMMA ListedUsers == ASSUME NEW subs PROVE Listed(subs) \in SUBSET Users
BY DEF Listed

LEMMA AddSubscriptionsTyped ==
  ASSUME Typed, NEW a \in Actors, AddSubscriptions(a) \/ AddSubscriptionsFails(a)
  PROVE  Typed'
<1>1. loc[a].subs \in Lists /\ Listed(loc[a].subs) \in SUBSET Users
  BY ListedUsers DEF Typed, Local
<1>2. inbound' \in [DOMAIN inbound' -> Inbound] /\ missed' \subseteq Users
  BY <1>1, CallsTyped DEF AddSubscriptions, AddSubscriptionsFails, Typed
<1>3. CASE AddSubscriptions(a)
  <2>1. pc' \in [Actors -> Places]
    BY <1>3, PlacesFacts DEF AddSubscriptions, Goto, Typed
  <2> QED
    BY <1>2, <1>3, <2>1 DEF AddSubscriptions, NoFault, Typed, panelVars
<1>4. CASE AddSubscriptionsFails(a)
  <2>1. Fault(a, "relay")
    BY <1>4 DEF AddSubscriptionsFails
  <2> QED
    BY <1>2, <1>4, <2>1, FaultType, PlacesFacts DEF AddSubscriptionsFails, Typed, panelVars
<1> QED
  BY <1>3, <1>4

LEMMA UpdateLimitsTyped ==
  ASSUME Typed, NEW a \in Actors, UpdateLimits(a)
  PROVE  Typed'
<1> DEFINE new == loc[a].node
           old == loc[a].old
           subs == loc[a].subs
           us == Deleted(list, subs)
           touched == Added(list, subs) \cup Modified(list, subs)
<1>0. new \in Nodes /\ old \in Nodes /\ subs \in Lists
  BY DEF Typed, Local
<1>1. pc' \in [Actors -> Places]
  BY PlacesFacts DEF UpdateLimits, Goto, Typed
<1>2. limits' \in [DOMAIN limits' -> Limiter]
  <2>1. CASE old.tag # nodeInfo.tag
    <3>1. [speed |-> new.speed, users |-> subs] \in Limiter
      BY <1>0 DEF Limiter, Nodes
    <3>2. limits' = Put(Restrict(limits, DOMAIN limits \ {old.tag}), nodeInfo.tag,
                        [speed |-> new.speed, users |-> subs])
      BY <2>1 DEF UpdateLimits
    <3> QED
      BY <3>1, <3>2 DEF Put, Restrict, Typed
  <2>2. CASE old.tag = nodeInfo.tag /\ old.tag \in DOMAIN limits
    <3> DEFINE entry == [speed |-> new.speed,
                         users |-> Upsert(Drop(limits[old.tag].users, us), touched, subs)]
    <3>1. Upsert(Drop(limits[old.tag].users, us), touched, subs) \in Lists
      BY <1>0, <2>2, UpsertType DEF Typed, Limiter
    <3>2. entry \in Limiter
      BY <1>0, <3>1 DEF Limiter, Nodes
    <3>3. limits' = [limits EXCEPT ![old.tag] = entry]
      BY <2>2 DEF UpdateLimits
    <3> HIDE DEF entry
    <3> QED
      BY <3>2, <3>3 DEF Typed
  <2>3. CASE old.tag = nodeInfo.tag /\ old.tag \notin DOMAIN limits
    BY <2>3 DEF UpdateLimits, Typed
  <2> QED
    BY <2>1, <2>2, <2>3
<1> QED
  BY <1>1, <1>2 DEF UpdateLimits, NoFault, Typed, panelVars

LEMMA UpdateNodeInfoTyped ==
  ASSUME Typed, NEW a \in Actors, UpdateNodeInfo(a)
  PROVE  Typed'
<1>0. nodeInfo' = loc[a].node /\ loc[a].node \in Nodes
  BY DEF UpdateNodeInfo, Typed, Local
<1>1. pc' \in [Actors -> Places]
  BY PlacesFacts DEF UpdateNodeInfo, Goto, Typed
<1>2. limits' \in [DOMAIN limits' -> Limiter]
  BY <1>0 DEF UpdateNodeInfo, Typed, Limiter, Nodes
<1> QED
  BY <1>0, <1>1, <1>2 DEF UpdateNodeInfo, NoFault, Typed, panelVars, historyVars

LEMMA LimitsFollowTyped ==
  ASSUME Typed, NEW us \in SUBSET Users, NEW subs \in Lists, LimitsFollow(us, subs)
  PROVE  limits' \in [DOMAIN limits' -> Limiter] /\ unlimited' \subseteq Users
<1> DEFINE t == nodeInfo.tag
           new == Upsert(limits[t].users, us, subs)
<1>1. CASE t \in DOMAIN limits
  <2>1. limits[t] \in Limiter
    BY <1>1 DEF Typed
  <2>2. new \in Lists
    BY <2>1, UpsertType DEF Limiter
  <2>3. limits' = [limits EXCEPT ![t].users = new]
    BY <1>1 DEF LimitsFollow
  <2> HIDE DEF new
  <2>4. limits' \in [DOMAIN limits -> Limiter]
    BY <1>1, <2>1, <2>2, <2>3 DEF Typed, Limiter
  <2> QED
    BY <2>4 DEF LimitsFollow, Typed
<1>2. CASE t \notin DOMAIN limits
  BY <1>2 DEF LimitsFollow, Typed
<1> QED
  BY <1>1, <1>2

LEMMA ManagerCallTyped ==
  ASSUME Typed, NEW a \in Actors, NEW at, NEW next \in Places, NEW us \in SUBSET Users,
         NEW subs \in Lists, ManagerCall(a, at, next, us, subs)
  PROVE  Typed'
<1>1. /\ inbound' \in [DOMAIN inbound' -> Inbound] /\ missed' \subseteq Users
      /\ limits' \in [DOMAIN limits' -> Limiter] /\ unlimited' \subseteq Users
  <2>1. CASE Succeeds(a, at, next, us, subs)
    BY <2>1, CallsTyped, LimitsFollowTyped DEF Succeeds, Typed
  <2>2. CASE Errs(a, at, next, us, subs)
    <3>1. inbound' \in [DOMAIN inbound' -> Inbound] /\ missed' \subseteq Users
      BY <2>2, CallsTyped DEF Errs, Typed
    <3>2. limits' \in [DOMAIN limits' -> Limiter] /\ unlimited' \subseteq Users
      BY <2>2, LimitsFollowTyped DEF Errs, Typed
    <3> QED
      BY <3>1, <3>2
  <2> QED
    BY <2>1, <2>2 DEF ManagerCall
<1>2. pc' \in [Actors -> Places] /\ faults' \in Nat /\ (faults' = 0 => faults = 0)
  BY FaultType DEF ManagerCall, Succeeds, Errs, NoFault, Goto, Typed
<1>3. UNCHANGED <<panelVars, seenNode, seenSubs, nodeInfo, list, rules, keyed, relay, loc, partial>>
  BY DEF ManagerCall, Succeeds, Errs
<1> QED
  BY <1>1, <1>2, <1>3 DEF Typed, panelVars

LEMMA ComparedUsers ==
  ASSUME NEW old, NEW new
  PROVE  /\ Deleted(old, new) \in SUBSET Users /\ Added(old, new) \in SUBSET Users
         /\ Modified(old, new) \in SUBSET Users
BY DEF Deleted, Added, Modified, Listed

LEMMA DiffTyped ==
  ASSUME Typed, NEW a \in Actors, Diff(a)
  PROVE  Typed'
<1>1. loc[a].subs \in Lists
  BY DEF Typed, Local
<1> QED
  BY <1>1, ManagerCallTyped, ComparedUsers, Lists0, PlacesFacts DEF Diff

LEMMA StoreListTyped ==
  ASSUME Typed, NEW a \in Actors, StoreList(a)
  PROVE  Typed'
<1>1. pc' \in [Actors -> Places] /\ list' \in Lists
  BY PlacesFacts DEF StoreList, Goto, Typed, Local
<1> QED
  BY <1>1 DEF StoreList, NoFault, Typed, panelVars, engineVars, historyVars

LEMMA CloseTyped == ASSUME Typed, Close PROVE Typed'
<1>1. limits' \in [DOMAIN limits' -> Limiter]
  BY DEF Close, Restrict, Typed
<1>2. /\ inbound' \in [DOMAIN inbound' -> Inbound]
      /\ faults' \in Nat /\ (faults' = 0 => faults = 0)
  <2>1. CASE inbound' = Restrict(inbound, DOMAIN inbound \ {nodeInfo.tag}) /\ faults' = faults
    BY <2>1 DEF Restrict, Typed
  <2>2. CASE /\ nodeInfo.tag \in DOMAIN inbound /\ faults' = faults + 1
             /\ inbound' = [inbound EXCEPT ![nodeInfo.tag].up = FALSE]
    <3>1. inbound' \in [DOMAIN inbound' -> Inbound]
      BY <2>2 DEF Inbound, Typed
    <3>2. faults' \in Nat /\ faults' # 0
      BY <2>2 DEF Typed
    <3> QED
      BY <3>1, <3>2
  <2> QED
    BY <2>1, <2>2 DEF Close
<1>3. rules' \in [Users -> Int] /\ keyed' \subseteq Users
  <2>1. \A u \in Users : rules[u] \in Int
    BY DEF Typed
  <2> QED
    BY <2>1 DEF Close, Typed
<1> QED
  BY <1>1, <1>2, <1>3 DEF Close, Typed, panelVars

LEMMA PanelChangeTyped == ASSUME Typed, PanelChange PROVE Typed'
BY DEF PanelChange, Typed, engineVars, historyVars

LEMMA StepTyped == ASSUME Typed, NEW a \in Actors, Step(a) PROVE Typed'
BY RequestsTyped, RemoveRelayTyped, SetupRelayTyped, RemoveNodeTyped, AddNodeTyped,
   AddSubscriptionsTyped, UpdateLimitsTyped, UpdateNodeInfoTyped, DiffTyped, StoreListTyped,
   PlacesFacts DEF Step
-----------------------------------------------------------------------------
(***************************************************************************)
(* What the invariant says at each place carries over to the next one.     *)
(***************************************************************************)
LEMMA GetNodeInfoKeeps ==
  ASSUME NEW me \in Actors, Typed, At(me), GetNodeInfo(me)
  PROVE  At(me)'
<1>1. pc[me] = "idle" /\ pc'[me] = "subs"
  BY DEF GetNodeInfo, Goto, Typed
<1>2. /\ loc'[me].nodeChanged \/ loc'[me].node = nodeInfo
      /\ nodeInfo = seenNode => loc'[me].node = pnode
      /\ seenNode' = pnode
  BY DEF GetNodeInfo, Typed, Local
<1>3. UNCHANGED <<seenSubs, nodeInfo, list, inbound, limits, rules, keyed, relay, faults, missed, unlimited, partial>>
  BY DEF GetNodeInfo, engineVars, historyVars
<1>4. InboundAt(me)' /\ UpAt(me)'
  BY <1>1, <1>3 DEF At, InboundAt, InboundIs, UpAt
<1>5. LimitsAt(me)'
  BY <1>1, <1>3 DEF At, LimitsAt, LimitsAre
<1>6. RulesAt(me)'
  BY <1>1, <1>3 DEF At, RulesAt, RulesAre
<1>7. LocalAt(me)' /\ AnswersAt(me)'
  BY <1>1, <1>2, <1>3 DEF At, LocalAt, AnswersAt
<1> QED
  BY <1>4, <1>5, <1>6, <1>7 DEF At

LEMMA GetSubscriptionListKeeps ==
  ASSUME NEW me \in Actors, Typed, At(me), GetSubscriptionList(me)
  PROVE  At(me)'
<1>1. pc[me] = "subs" /\ pc'[me] = "unrelay"
  BY DEF GetSubscriptionList, Goto, Typed
<1>2. /\ loc'[me].subsChanged \/ loc'[me].subs = list
      /\ list = seenSubs => loc'[me].subs = psubs
      /\ seenSubs' = psubs
      /\ loc'[me].node = loc[me].node /\ loc'[me].nodeChanged = loc[me].nodeChanged
  BY DEF GetSubscriptionList, Typed, Local
<1>3. UNCHANGED <<seenNode, nodeInfo, list, inbound, limits, rules, keyed, relay, faults, missed, unlimited, partial>>
  BY DEF GetSubscriptionList, NoFault, engineVars, historyVars
<1>4. InboundAt(me)' /\ UpAt(me)'
  BY <1>1, <1>3 DEF At, InboundAt, InboundIs, UpAt
<1>5. LimitsAt(me)'
  BY <1>1, <1>3 DEF At, LimitsAt, LimitsAre
<1>6. RulesAt(me)'
  BY <1>1, <1>3 DEF At, RulesAt, RulesAre
<1>7. LocalAt(me)' /\ AnswersAt(me)'
  BY <1>1, <1>2, <1>3 DEF At, LocalAt, AnswersAt
<1> QED
  BY <1>4, <1>5, <1>6, <1>7 DEF At

LEMMA GetSubscriptionListFailsKeeps ==
  ASSUME NEW me \in Actors, Typed, At(me), GetSubscriptionListFails(me)
  PROVE  At(me)'
<1>1. pc[me] = "subs" /\ pc'[me] = "idle" /\ faults' # 0
  BY DEF GetSubscriptionListFails, Fault, Goto, Typed
<1>2. UNCHANGED <<nodeInfo, list, inbound, limits, rules, keyed, relay, missed, unlimited, partial>>
  BY DEF GetSubscriptionListFails, engineVars, historyVars
<1>3. InboundAt(me)' /\ UpAt(me)'
  BY <1>1, <1>2 DEF At, InboundAt, InboundIs, UpAt
<1>4. LimitsAt(me)'
  BY <1>1, <1>2 DEF At, LimitsAt, LimitsAre
<1>5. RulesAt(me)'
  BY <1>1, <1>2 DEF At, RulesAt, RulesAre
<1>6. LocalAt(me)' /\ AnswersAt(me)'
  BY <1>1 DEF LocalAt, AnswersAt
<1> QED
  BY <1>3, <1>4, <1>5, <1>6 DEF At

\* Removing the rules of the listed removes them all.
LEMMA RemovedRules ==
  ASSUME Typed, RulesAre(list), relay, RemoveRules(Listed(list))
  PROVE  /\ relay' = FALSE
         /\ ~partial => rules' = [u \in Users |-> 0] /\ keyed' = {}
<1>1. relay' = FALSE
  BY DEF RemoveRules
<1>2. ASSUME ~partial PROVE rules' = [u \in Users |-> 0] /\ keyed' = {}
  <2>1. /\ rules = [u \in Users |-> IF list[u] # 0 THEN 1 ELSE 0]
        /\ keyed = Listed(list)
    BY <1>2 DEF RulesAre, Listed
  <2> QED
    BY <2>1 DEF RemoveRules, Listed
<1> QED
  BY <1>1, <1>2

LEMMA RemoveRelayKeeps ==
  ASSUME NEW me \in Actors, Typed, At(me), RemoveRelay(me)
  PROVE  At(me)'
<1> DEFINE structural == loc[me].nodeChanged /\ Structural(nodeInfo, loc[me].node)
<1>0. loc[me] \in Local
  BY DEF Typed
<1>1. /\ pc[me] = "unrelay"
      /\ pc'[me] = (IF structural THEN "remove" ELSE IF loc[me].nodeChanged THEN "soft"
                    ELSE IF loc[me].subsChanged THEN "diff" ELSE "store")
  BY DEF RemoveRelay, Goto, Typed
<1>2. UNCHANGED <<seenNode, seenSubs, nodeInfo, list, inbound, limits, loc, faults, missed, unlimited, partial>>
  BY DEF RemoveRelay, NoFault, historyVars
<1>3. /\ structural \/ loc[me].subsChanged => relay' = FALSE
      /\ ~structural /\ ~loc[me].subsChanged => relay' = relay
      /\ RulesAre(list)'
  <2>1. CASE relay /\ (structural \/ loc[me].subsChanged)
    <3>1. RemoveRules(Listed(list))
      BY <2>1 DEF RemoveRelay
    <3> QED
      BY <1>1, <1>2, <2>1, <3>1, RemovedRules DEF At, RulesAt, RulesAre
  <2>2. CASE ~(relay /\ (structural \/ loc[me].subsChanged))
    <3>1. UNCHANGED <<rules, keyed, relay>>
      BY <2>2 DEF RemoveRelay
    <3> QED
      BY <1>1, <1>2, <2>2, <3>1 DEF At, RulesAt, RulesAre, Typed
  <2> QED
    BY <2>1, <2>2
<1>4. /\ ~structural /\ loc[me].nodeChanged => Same(nodeInfo, loc[me].node)
      /\ loc[me].nodeChanged \/ loc[me].node = nodeInfo
      /\ loc[me].subsChanged \/ loc[me].subs = list
      /\ loc[me].nodeChanged \in BOOLEAN /\ loc[me].subsChanged \in BOOLEAN
  BY <1>0, <1>1, SameIsNotStructural DEF At, LocalAt, Typed, Local
<1>5. structural \in BOOLEAN
  BY DEF Structural
<1> HIDE DEF structural
<1>6. /\ pc'[me] \in {"remove", "soft", "diff", "store"}
      /\ pc'[me] = "remove" => structural
      /\ pc'[me] = "soft" => ~structural /\ loc[me].nodeChanged
      /\ pc'[me] \in {"diff", "store"} => ~structural /\ ~loc[me].nodeChanged
      /\ pc'[me] = "diff" => loc[me].subsChanged
      /\ pc'[me] = "store" => ~loc[me].subsChanged
  BY <1>1
<1>7. InboundAt(me)' /\ UpAt(me)'
  BY <1>1, <1>2, <1>4, <1>6 DEF At, InboundAt, InboundIs, UpAt
<1>8. LimitsAt(me)'
  BY <1>1, <1>2, <1>4, <1>6 DEF At, LimitsAt, LimitsAre
<1>9. RulesAt(me)'
  BY <1>2, <1>3, <1>4, <1>6 DEF RulesAt, RulesAre
<1>10. LocalAt(me)'
  BY <1>2, <1>3, <1>4, <1>6 DEF LocalAt
<1>11. AnswersAt(me)'
  BY <1>1, <1>2, <1>3, <1>4, <1>6 DEF At, AnswersAt, Same
<1> QED
  BY <1>7, <1>8, <1>9, <1>10, <1>11 DEF At

LEMMA RemoveNodeKeeps ==
  ASSUME NEW me \in Actors, Typed, At(me), RemoveNode(me)
  PROVE  At(me)'
<1>1. pc[me] = "remove" /\ pc'[me] = "add"
  BY DEF RemoveNode, Goto, Typed
<1>2. /\ loc'[me].old = nodeInfo /\ nodeInfo' = loc[me].node /\ loc'[me].node = loc[me].node
      /\ loc'[me].subs = loc[me].subs
  BY DEF RemoveNode, Typed, Local
<1>3. UNCHANGED <<seenNode, seenSubs, list, limits, rules, keyed, relay, faults, missed, unlimited, partial>>
  BY DEF RemoveNode, NoFault, historyVars
<1>4. DOMAIN inbound' = {}
  <2>1. \A t \in DOMAIN inbound : t = nodeInfo.tag
    BY <1>1 DEF At, InboundAt, InboundIs
  <2>2. inbound' = Restrict(inbound, DOMAIN inbound \ {nodeInfo.tag})
    BY DEF RemoveNode
  <2>3. DOMAIN inbound' = DOMAIN inbound \ {nodeInfo.tag}
    BY <2>2, RestrictIs
  <2> QED
    BY <2>1, <2>3
<1>5. InboundAt(me)' /\ UpAt(me)'
  BY <1>1, <1>3, <1>4 DEF At, InboundAt, InboundIs, UpAt
<1>6. LimitsAt(me)'
  BY <1>1, <1>2, <1>3 DEF At, LimitsAt, LimitsAre
<1>7. RulesAt(me)'
  BY <1>1, <1>3 DEF At, RulesAt, RulesAre
<1>8. LocalAt(me)' /\ AnswersAt(me)'
  BY <1>1, <1>2, <1>3 DEF At, LocalAt, AnswersAt
<1> QED
  BY <1>5, <1>6, <1>7, <1>8 DEF At

LEMMA RemoveNodeFailsKeeps ==
  ASSUME NEW me \in Actors, Typed, At(me), RemoveNodeFails(me)
  PROVE  At(me)'
<1>1. pc[me] = "remove" /\ pc'[me] = "idle" /\ faults' # 0
  BY DEF RemoveNodeFails, Fault, Goto, Typed
<1>2. UNCHANGED <<nodeInfo, list, limits, rules, keyed, relay, missed, unlimited, partial>>
  BY DEF RemoveNodeFails, historyVars
<1>3. /\ DOMAIN inbound' = DOMAIN inbound
      /\ \A t \in DOMAIN inbound : /\ inbound'[t].users = inbound[t].users
                                   /\ inbound'[t].serves = inbound[t].serves
  BY DEF RemoveNodeFails, Typed, Inbound
<1>4. InboundAt(me)' /\ UpAt(me)'
  BY <1>1, <1>2, <1>3 DEF At, InboundAt, InboundIs, UpAt
<1>5. LimitsAt(me)'
  BY <1>1, <1>2 DEF At, LimitsAt, LimitsAre
<1>6. RulesAt(me)'
  BY <1>1, <1>2 DEF At, RulesAt, RulesAre
<1>7. LocalAt(me)' /\ AnswersAt(me)'
  BY <1>1 DEF LocalAt, AnswersAt
<1> QED
  BY <1>4, <1>5, <1>6, <1>7 DEF At

LEMMA AddNodeKeeps ==
  ASSUME NEW me \in Actors, Typed, At(me), AddNode(me)
  PROVE  At(me)'
<1>1. pc[me] = "add" /\ pc'[me] = "populate"
  BY DEF AddNode, Goto, Typed
<1>2. /\ UNCHANGED <<seenNode, seenSubs, nodeInfo, list, limits, rules, keyed, relay, loc, faults,
                     unlimited, partial>>
      /\ missed' = {}
  BY DEF AddNode, NoFault
<1>3. /\ DOMAIN inbound' = {nodeInfo.tag}
      /\ inbound'[nodeInfo.tag] =
           [up |-> TRUE, node |-> nodeInfo, users |-> NoUsers, serves |-> NoUsers]
  <2>1. DOMAIN inbound = {} /\ loc[me].node = nodeInfo
    BY <1>1 DEF At, InboundAt, LocalAt
  <2> DEFINE new == [up |-> TRUE, node |-> nodeInfo, users |-> NoUsers, serves |-> NoUsers]
  <2>2. inbound' = Put(inbound, nodeInfo.tag, new)
    BY <2>1 DEF AddNode
  <2> HIDE DEF new
  <2>3. DOMAIN inbound' = DOMAIN inbound \cup {nodeInfo.tag} /\ inbound'[nodeInfo.tag] = new
    BY <2>2 DEF Put
  <2> QED
    BY <2>1, <2>3 DEF new
<1>4. InboundAt(me)' /\ UpAt(me)'
  BY <1>1, <1>2, <1>3 DEF At, InboundAt, InboundIs, UpAt, Same
<1>5. LimitsAt(me)'
  BY <1>1, <1>2 DEF At, LimitsAt, LimitsAre
<1>6. RulesAt(me)'
  BY <1>1, <1>2 DEF At, RulesAt, RulesAre
<1>7. LocalAt(me)' /\ AnswersAt(me)'
  BY <1>1, <1>2 DEF At, LocalAt, AnswersAt
<1> QED
  BY <1>4, <1>5, <1>6, <1>7 DEF At

LEMMA AddNodeFailsKeeps ==
  ASSUME NEW me \in Actors, Typed, At(me), AddNodeFails(me)
  PROVE  At(me)'
<1>1. pc[me] = "add" /\ pc'[me] = "idle" /\ faults' # 0
  BY DEF AddNodeFails, Fault, Goto, Typed
<1>2. /\ nodeInfo' = loc[me].old
      /\ UNCHANGED <<list, inbound, limits, rules, keyed, relay, missed, unlimited, partial>>
  BY DEF AddNodeFails, engineVars, historyVars
<1>3. InboundAt(me)' /\ UpAt(me)'
  BY <1>1, <1>2 DEF At, InboundAt, InboundIs, UpAt
<1>4. LimitsAt(me)'
  BY <1>1, <1>2 DEF At, LimitsAt, LimitsAre
<1>5. RulesAt(me)'
  BY <1>1, <1>2 DEF At, RulesAt, RulesAre
<1>6. LocalAt(me)' /\ AnswersAt(me)'
  BY <1>1 DEF LocalAt, AnswersAt
<1> QED
  BY <1>3, <1>4, <1>5, <1>6 DEF At

\* A call of the subscription manager changes the table of the inbound, and
\* makes it serve, but for those it failed for, what it says of them.
LEMMA CallsKeep ==
  ASSUME Typed, NEW us \in SUBSET Users, NEW subs \in Lists, NEW succeeds \in BOOLEAN,
         NEW old \in Lists, nodeInfo.tag \in DOMAIN inbound, Calls(us, subs, succeeds),
         \A t \in DOMAIN inbound :
            /\ t = nodeInfo.tag
            /\ inbound[t].users = old
            /\ \A u \in Users \ missed : inbound[t].serves[u] = old[u]
  PROVE  /\ DOMAIN inbound' = DOMAIN inbound
         /\ \A t \in DOMAIN inbound :
              /\ inbound'[t].users = Upsert(old, us, subs)
              /\ \A u \in Users \ missed' : inbound'[t].serves[u] = Upsert(old, us, subs)[u]
              /\ inbound'[t].up = inbound[t].up /\ inbound'[t].node = inbound[t].node
<1> DEFINE t == nodeInfo.tag
           table == Upsert(old, us, subs)
<1>1. inbound[t] \in Inbound /\ inbound[t].users = old
  BY DEF Typed
<1>2. PICK serves \in Lists :
        /\ \A u \in Users : serves[u] \in IF succeeds /\ u \in us THEN {table[u]}
                                          ELSE Between(inbound[t].serves[u], table[u])
        /\ inbound' = [inbound EXCEPT ![t].users = table, ![t].serves = serves]
  BY <1>1 DEF Calls
<1>3. missed' = IF succeeds THEN missed \ us ELSE missed \cup us
  BY DEF Calls
<1>4. \A u \in Users : table[u] = IF u \in us THEN subs[u] ELSE old[u]
  BY DEF Upsert
<1>5. \A u \in Users \ missed' : serves[u] = table[u]
  <2> SUFFICES ASSUME NEW u \in Users \ missed' PROVE serves[u] = table[u]
    OBVIOUS
  <2> HIDE DEF table
  <2>1. CASE succeeds /\ u \in us
    BY <1>2, <2>1
  <2>2. CASE ~(succeeds /\ u \in us)
    <3>1. u \notin missed /\ u \notin us
      BY <1>3, <2>2
    <3>2. inbound[t].serves[u] = table[u]
      BY <1>4, <3>1
    <3> QED
      BY <1>2, <2>2, <3>2 DEF Between
  <2> QED
    BY <2>1, <2>2
<1> HIDE DEF table
<1>6. /\ DOMAIN inbound' = DOMAIN inbound
      /\ inbound'[t].users = table /\ inbound'[t].serves = serves
      /\ inbound'[t].up = inbound[t].up /\ inbound'[t].node = inbound[t].node
  BY <1>1, <1>2 DEF Inbound, Typed
<1> QED
  BY <1>5, <1>6 DEF table

LEMMA AddSubscriptionsKeeps ==
  ASSUME NEW me \in Actors, Typed, At(me), AddSubscriptions(me) \/ AddSubscriptionsFails(me)
  PROVE  At(me)'
<1> DEFINE subs == loc[me].subs
<1>1. pc[me] = "populate" /\ pc'[me] = "relay"
  BY DEF AddSubscriptions, AddSubscriptionsFails, Fault, Goto, Typed
<1>2. UNCHANGED <<seenNode, seenSubs, nodeInfo, list, limits, rules, keyed, relay, loc, unlimited, partial>>
  BY DEF AddSubscriptions, AddSubscriptionsFails
<1>3. DOMAIN inbound = {nodeInfo.tag} /\ InboundIs(NoUsers)
  BY <1>1 DEF At, InboundAt
<1>4. subs \in Lists /\ Listed(subs) \in SUBSET Users /\ Upsert(NoUsers, Listed(subs), subs) = subs
  BY ListedUsers, PopulateApplies DEF Typed, Local
<1>5. /\ DOMAIN inbound' = DOMAIN inbound
      /\ \A t \in DOMAIN inbound :
           /\ inbound'[t].users = subs
           /\ \A u \in Users \ missed' : inbound'[t].serves[u] = subs[u]
           /\ inbound'[t].up = inbound[t].up /\ inbound'[t].node = inbound[t].node
  <2>1. CASE Listed(subs) = {}
    <3>1. UNCHANGED <<inbound, missed>>
      BY <2>1 DEF AddSubscriptions, AddSubscriptionsFails
    <3>2. subs = NoUsers
      BY <1>4, <2>1, NobodyUpserted, Lists0
    <3> QED
      BY <1>3, <3>1, <3>2 DEF InboundIs
  <2>2. CASE Listed(subs) # {}
    <3>1. PICK succeeds \in BOOLEAN : Calls(Listed(subs), subs, succeeds)
      BY <1>3, <2>2 DEF AddSubscriptions, AddSubscriptionsFails
    <3>2. \A t \in DOMAIN inbound :
            /\ t = nodeInfo.tag
            /\ inbound[t].users = NoUsers
            /\ \A u \in Users \ missed : inbound[t].serves[u] = NoUsers[u]
      BY <1>3 DEF InboundIs
    <3>3. /\ DOMAIN inbound' = DOMAIN inbound
          /\ \A t \in DOMAIN inbound :
               /\ inbound'[t].users = Upsert(NoUsers, Listed(subs), subs)
               /\ \A u \in Users \ missed' :
                    inbound'[t].serves[u] = Upsert(NoUsers, Listed(subs), subs)[u]
               /\ inbound'[t].up = inbound[t].up /\ inbound'[t].node = inbound[t].node
      <4> HIDE DEF subs
      <4>1. nodeInfo.tag \in DOMAIN inbound
        BY <1>3
      <4>2. CASE Calls(Listed(subs), subs, TRUE)
        BY <1>4, <3>2, <4>1, <4>2, CallsKeep, Lists0
      <4>3. CASE Calls(Listed(subs), subs, FALSE)
        BY <1>4, <3>2, <4>1, <4>3, CallsKeep, Lists0
      <4> QED
        BY <3>1, <4>2, <4>3
    <3> HIDE DEF subs
    <3> QED
      BY <1>4, <3>3
  <2> QED
    BY <2>1, <2>2
<1>6. faults' = 0 => faults = 0 /\ (missed = {} => missed' = {})
  <2>1. CASE AddSubscriptionsFails(me)
    BY <2>1 DEF AddSubscriptionsFails, Fault, Typed
  <2>2. CASE AddSubscriptions(me)
    <3>1. missed' = missed \/ missed' = missed \ Listed(subs)
      BY <2>2 DEF AddSubscriptions, Calls
    <3>2. faults' = faults
      BY <2>2 DEF AddSubscriptions, NoFault
    <3> HIDE DEF subs
    <3> QED
      BY <3>1, <3>2
  <2> QED
    BY <2>1, <2>2
<1>7. InboundAt(me)'
  BY <1>1, <1>2, <1>3, <1>5 DEF InboundAt, InboundIs
<1>8. UpAt(me)'
  BY <1>1, <1>2, <1>3, <1>5, <1>6 DEF At, UpAt, Same
<1>9. LimitsAt(me)'
  BY <1>1, <1>2 DEF At, LimitsAt, LimitsAre
<1>10. RulesAt(me)'
  BY <1>1, <1>2 DEF At, RulesAt, RulesAre
<1>11. LocalAt(me)' /\ AnswersAt(me)'
  BY <1>1, <1>2, <1>6 DEF At, LocalAt, AnswersAt
<1> QED
  BY <1>7, <1>8, <1>9, <1>10, <1>11 DEF At

\* The rules of a list, added where there are none.
LEMMA AddedRules ==
  ASSUME Typed, NEW subs \in Lists, RulesAre(list), ~relay, ~partial, AddRules(Listed(subs))
  PROVE  /\ rules' = [u \in Users |-> IF subs[u] # 0 THEN 1 ELSE 0]
         /\ keyed' = {u \in Users : subs[u] # 0}
<1>1. rules = [u \in Users |-> 0] /\ keyed = {}
  BY DEF RulesAre
<1> QED
  BY <1>1 DEF AddRules, Listed

\* What setupRelay makes of the rules, in either branch and with or without
\* a failure.
LEMMA RelayDone ==
  ASSUME NEW a \in Actors, Typed, NEW at, NEW next, SetupRelay(a, at, next),
         RulesAre(list), ~relay
  PROVE  /\ UNCHANGED <<seenNode, seenSubs, nodeInfo, list, inbound, limits, loc,
                        faults, missed, unlimited, partial>>
         /\ relay' = nodeInfo.relay
         /\ RulesAre(loc[a].subs)'
<1>1. UNCHANGED <<seenNode, seenSubs, nodeInfo, list, inbound, limits, loc, faults, missed, unlimited, partial>>
  BY DEF SetupRelay, NoFault, historyVars
<1>2. loc[a].subs \in Lists
  BY DEF Typed, Local
<1>3. relay' = nodeInfo.relay
  BY DEF SetupRelay, Typed, Nodes
<1>4. ASSUME ~partial
      PROVE  /\ rules' = [u \in Users |-> IF relay' /\ loc[a].subs[u] # 0 THEN 1 ELSE 0]
             /\ keyed' = {u \in Users : relay' /\ loc[a].subs[u] # 0}
  <2>1. CASE nodeInfo.relay
    <3>1. AddRules(Listed(loc[a].subs)) /\ relay' = TRUE
      BY <2>1 DEF SetupRelay
    <3> QED
      BY <1>2, <1>4, <3>1, AddedRules
  <2>2. CASE ~nodeInfo.relay
    <3>1. UNCHANGED <<rules, keyed, relay>>
      BY <2>2 DEF SetupRelay
    <3>2. rules = [u \in Users |-> 0] /\ keyed = {}
      BY <1>4 DEF RulesAre
    <3> QED
      BY <3>1, <3>2
  <2> QED
    BY <2>1, <2>2
<1> QED
  BY <1>1, <1>3, <1>4 DEF RulesAre

LEMMA RelayNotDone ==
  ASSUME NEW a \in Actors, Typed, NEW at, NEW next, SetupRelayFails(a, at, next),
         RulesAre(list), ~relay
  PROVE  /\ UNCHANGED <<seenNode, seenSubs, nodeInfo, list, inbound, limits, loc,
                        relay, missed, unlimited>>
         /\ faults' # 0
         /\ RulesAre(loc[a].subs)'
<1>1. UNCHANGED <<seenNode, seenSubs, nodeInfo, list, inbound, limits, loc, relay, missed, unlimited>>
  BY DEF SetupRelayFails
<1>2. faults' # 0
  BY DEF SetupRelayFails, Fault, Typed
<1>3. PICK us \in SUBSET Listed(loc[a].subs) : AddRules(us) /\ partial' = (partial \/ us # {})
  BY DEF SetupRelayFails
<1>4. ASSUME ~partial'
      PROVE  rules' = [u \in Users |-> 0] /\ keyed' = {}
  <2>1. ~partial /\ us = {}
    BY <1>3, <1>4
  <2>2. rules = [u \in Users |-> 0] /\ keyed = {}
    BY <2>1 DEF RulesAre
  <2> QED
    BY <1>3, <2>1, <2>2 DEF AddRules
<1>5. RulesAre(loc[a].subs)'
  BY <1>1, <1>4 DEF RulesAre
<1> QED
  BY <1>1, <1>2, <1>5

LEMMA SetupRelayKeeps ==
  ASSUME NEW me \in Actors, Typed, At(me),
         \/ SetupRelay(me, "relay", "limits") \/ SetupRelayFails(me, "relay", "limits")
         \/ SetupRelay(me, "relayDiff", "store") \/ SetupRelayFails(me, "relayDiff", "store")
  PROVE  At(me)'
<1>1. \/ pc[me] = "relay" /\ pc'[me] = "limits"
      \/ pc[me] = "relayDiff" /\ pc'[me] = "store"
  BY DEF SetupRelay, SetupRelayFails, Fault, Goto, Typed
<1>2. RulesAre(list) /\ ~relay
  BY <1>1 DEF At, RulesAt
<1>3. /\ UNCHANGED <<seenNode, seenSubs, nodeInfo, list, inbound, limits, loc, missed, unlimited>>
      /\ faults' = 0 => relay' = nodeInfo.relay /\ faults = 0
      /\ RulesAre(loc[me].subs)'
  BY <1>2, RelayDone, RelayNotDone
<1>4. InboundAt(me)' /\ UpAt(me)'
  BY <1>1, <1>3 DEF At, InboundAt, InboundIs, UpAt
<1>5. LimitsAt(me)'
  BY <1>1, <1>3 DEF At, LimitsAt, LimitsAre
<1>6. RulesAt(me)'
  BY <1>1, <1>3 DEF RulesAt, RulesAre
<1>7. LocalAt(me)' /\ AnswersAt(me)'
  BY <1>1, <1>3 DEF At, LocalAt, AnswersAt
<1> QED
  BY <1>4, <1>5, <1>6, <1>7 DEF At

LEMMA UpdateLimitsKeeps ==
  ASSUME NEW me \in Actors, Typed, At(me), UpdateLimits(me)
  PROVE  At(me)'
<1> DEFINE new == loc[me].node
           old == loc[me].old
           subs == loc[me].subs
           us == Deleted(list, subs)
           touched == Added(list, subs) \cup Modified(list, subs)
<1>0. old \in Nodes /\ subs \in Lists /\ list \in Lists
  BY DEF Typed, Local
<1>1. pc[me] = "limits" /\ pc'[me] = "store"
  BY DEF UpdateLimits, Goto, Typed
<1>2. /\ UNCHANGED <<seenNode, seenSubs, nodeInfo, list, inbound, rules, keyed, relay, loc, faults, missed, partial>>
      /\ unlimited' = IF old.tag # nodeInfo.tag THEN {} ELSE {u \in unlimited : list[u] = subs[u]}
  BY DEF UpdateLimits, NoFault
<1>3. nodeInfo = new /\ LimitsAre(old, list)
  BY <1>1 DEF At, LocalAt, LimitsAt
<1> DEFINE entry == [speed |-> nodeInfo.speed, users |-> subs]
<1>4. LimitsAre(nodeInfo, subs)'
  <2>1. CASE old.tag # nodeInfo.tag
    <3>1. limits' = Put(Restrict(limits, DOMAIN limits \ {old.tag}), nodeInfo.tag, entry)
      BY <1>3, <2>1 DEF UpdateLimits
    <3>2. DOMAIN Restrict(limits, DOMAIN limits \ {old.tag}) = {}
      <4>1. DOMAIN limits \ {old.tag} = {}
        BY <1>3 DEF LimitsAre
      <4> QED
        BY <4>1 DEF Restrict
    <3> HIDE DEF entry
    <3>3. DOMAIN limits' = {nodeInfo.tag} /\ limits'[nodeInfo.tag] = entry
      BY <3>1, <3>2 DEF Put
    <3> QED
      BY <1>2, <3>3 DEF LimitsAre, entry
  <2>2. CASE old.tag = nodeInfo.tag
    <3> DEFINE users == Upsert(Drop(limits[old.tag].users, us), touched, subs)
    <3>0. old.tag \in DOMAIN limits
      BY <1>3 DEF LimitsAre
    <3>1. limits' = [limits EXCEPT ![old.tag] = [speed |-> new.speed, users |-> users]]
      BY <2>2, <3>0 DEF UpdateLimits
    <3>2. \A u \in Users \ unlimited' : users[u] = subs[u]
      <4> SUFFICES ASSUME NEW u \in Users \ unlimited' PROVE users[u] = subs[u]
        OBVIOUS
      <4>1. users[u] = IF u \in touched THEN subs[u]
                       ELSE IF u \in us THEN 0 ELSE limits[old.tag].users[u]
        BY DEF Upsert, Drop
      <4>2. list[u] # subs[u] => u \in touched \/ (u \in us /\ subs[u] = 0)
        BY DEF Added, Modified, Deleted, Listed
      <4>3. list[u] = subs[u] => u \notin us /\ limits[old.tag].users[u] = list[u]
        BY <1>2, <1>3, <2>2 DEF LimitsAre, Deleted, Listed
      <4> QED
        BY <4>1, <4>2, <4>3
    <3> HIDE DEF users
    <3>3. DOMAIN limits' = {nodeInfo.tag} /\ limits'[nodeInfo.tag] = [speed |-> new.speed, users |-> users]
      BY <1>3, <2>2, <3>0, <3>1 DEF LimitsAre
    <3> QED
      BY <1>2, <1>3, <3>2, <3>3 DEF LimitsAre
  <2> QED
    BY <2>1, <2>2
<1>5. InboundAt(me)' /\ UpAt(me)'
  BY <1>1, <1>2 DEF At, InboundAt, InboundIs, UpAt
<1>6. LimitsAt(me)'
  BY <1>1, <1>2, <1>4 DEF LimitsAt, LimitsAre
<1>7. RulesAt(me)'
  BY <1>1, <1>2 DEF At, RulesAt, RulesAre
<1>8. LocalAt(me)' /\ AnswersAt(me)'
  BY <1>1, <1>2 DEF At, LocalAt, AnswersAt
<1> QED
  BY <1>5, <1>6, <1>7, <1>8 DEF At

LEMMA UpdateNodeInfoKeeps ==
  ASSUME NEW me \in Actors, Typed, At(me), UpdateNodeInfo(me)
  PROVE  At(me)'
<1>0. loc[me] \in Local
  BY DEF Typed
<1>1. /\ pc[me] = "soft"
      /\ pc'[me] = IF loc[me].subsChanged THEN "diff" ELSE "store"
  BY DEF UpdateNodeInfo, Goto, Typed
<1>2. /\ nodeInfo' = loc[me].node
      /\ UNCHANGED <<seenNode, seenSubs, list, inbound, rules, keyed, relay, loc, faults, missed, unlimited, partial>>
  BY DEF UpdateNodeInfo, NoFault, historyVars
<1>3. /\ nodeInfo'.tag = nodeInfo.tag /\ nodeInfo'.relay = nodeInfo.relay
      /\ loc[me].subsChanged => ~relay
      /\ loc[me].subsChanged \/ loc[me].subs = list
  BY <1>1, <1>2 DEF At, LocalAt, Same
<1>4. /\ pc'[me] \in {"diff", "store"}
      /\ pc'[me] = "diff" => loc[me].subsChanged
      /\ pc'[me] = "store" => ~loc[me].subsChanged
  BY <1>0, <1>1 DEF Local
<1>5. LimitsAre(nodeInfo, list)'
  <2>1. LimitsAre(nodeInfo, list)
    BY <1>1 DEF At, LimitsAt
  <2>2. nodeInfo.tag \in DOMAIN limits
    BY <2>1 DEF LimitsAre
  <2>3. limits' = [limits EXCEPT ![nodeInfo.tag].speed = nodeInfo'.speed]
    BY <1>2, <1>3, <2>2 DEF UpdateNodeInfo
  <2>4. limits[nodeInfo.tag] \in Limiter
    BY <2>2 DEF Typed
  <2>5. /\ DOMAIN limits' = DOMAIN limits
        /\ limits'[nodeInfo.tag].speed = nodeInfo'.speed
        /\ limits'[nodeInfo.tag].users = limits[nodeInfo.tag].users
    BY <2>2, <2>3, <2>4 DEF Limiter
  <2> QED
    BY <1>2, <1>3, <2>1, <2>5 DEF LimitsAre
<1>6. InboundAt(me)' /\ UpAt(me)'
  BY <1>1, <1>2, <1>3, <1>4 DEF At, InboundAt, InboundIs, UpAt, Same
<1>7. LimitsAt(me)'
  BY <1>2, <1>3, <1>4, <1>5 DEF LimitsAt
<1>8. RulesAt(me)'
  BY <1>1, <1>2, <1>3, <1>4 DEF At, RulesAt, RulesAre
<1>9. LocalAt(me)' /\ AnswersAt(me)'
  BY <1>1, <1>2, <1>3, <1>4 DEF At, LocalAt, AnswersAt
<1> QED
  BY <1>6, <1>7, <1>8, <1>9 DEF At

\* A call of a comparison, whether it succeeds or errs: the table and, but for
\* those it failed for, the service and the limiter follow.
LEMMA ManagerCallKeeps ==
  ASSUME Typed, NEW a \in Actors, NEW at, NEW next \in Places, NEW us \in SUBSET Users,
         NEW subs \in Lists, NEW old \in Lists, ManagerCall(a, at, next, us, subs),
         InboundIs(old), LimitsAre(nodeInfo, old)
  PROVE  /\ DOMAIN inbound' = DOMAIN inbound
         /\ \A t \in DOMAIN inbound :
              /\ inbound'[t].users = Upsert(old, us, subs)
              /\ \A u \in Users \ missed' : inbound'[t].serves[u] = Upsert(old, us, subs)[u]
              /\ inbound'[t].up = inbound[t].up /\ inbound'[t].node = inbound[t].node
         /\ DOMAIN limits' = DOMAIN limits
         /\ limits'[nodeInfo.tag].speed = nodeInfo.speed
         /\ \A u \in Users \ unlimited' : limits'[nodeInfo.tag].users[u] = Upsert(old, us, subs)[u]
         /\ faults' = 0 => faults = 0
         /\ /\ faults' = 0 /\ nodeInfo.tag \in DOMAIN inbound
            /\ missed = {} /\ unlimited = {}
            => missed' = {} /\ unlimited' = {}
<1> DEFINE t == nodeInfo.tag
           table == Upsert(old, us, subs)
<1>1. \A u \in Users : table[u] = IF u \in us THEN subs[u] ELSE old[u]
  BY DEF Upsert
<1>2. CASE us = {}
  <2>1. UNCHANGED <<inbound, missed, limits, unlimited, faults>>
    BY <1>2 DEF ManagerCall, Succeeds, Errs, NoFault
  <2>2. table = old
    BY <1>2, NobodyUpserted
  <2> HIDE DEF table
  <2> QED
    BY <2>1, <2>2 DEF InboundIs, LimitsAre, table
<1>3. CASE us # {}
  <2>1. /\ DOMAIN inbound' = DOMAIN inbound
        /\ \A x \in DOMAIN inbound :
             /\ inbound'[x].users = table
             /\ \A u \in Users \ missed' : inbound'[x].serves[u] = table[u]
             /\ inbound'[x].up = inbound[x].up /\ inbound'[x].node = inbound[x].node
    <3>1. CASE t \in DOMAIN inbound
      <4>1. Calls(us, subs, TRUE) \/ Calls(us, subs, FALSE)
        BY <1>3, <3>1 DEF ManagerCall, Succeeds, Errs
      <4> QED
        BY <3>1, <4>1, CallsKeep DEF InboundIs
    <3>2. CASE t \notin DOMAIN inbound
      <4>1. DOMAIN inbound = {} /\ inbound' = inbound
        BY <1>3, <3>2 DEF ManagerCall, Succeeds, Errs, InboundIs
      <4> QED
        BY <4>1
    <3> QED
      BY <3>1, <3>2
  <2>2. /\ DOMAIN limits' = DOMAIN limits
        /\ limits'[t].speed = nodeInfo.speed
        /\ \A u \in Users \ unlimited' : limits'[t].users[u] = table[u]
    <3>0. t \in DOMAIN limits /\ limits[t].speed = nodeInfo.speed
      BY DEF LimitsAre
    <3>1. CASE LimitsFollow(us, subs)
      <4> DEFINE new == Upsert(limits[t].users, us, subs)
      <4>1. limits' = [limits EXCEPT ![t].users = new] /\ unlimited' = unlimited \ us
        BY <3>0, <3>1 DEF LimitsFollow
      <4>2. \A u \in Users \ unlimited' : new[u] = table[u]
        BY <4>1 DEF LimitsAre, Upsert
      <4>3. limits[t] \in Limiter
        BY <3>0 DEF Typed
      <4> HIDE DEF new, table
      <4>4. /\ DOMAIN limits' = DOMAIN limits
            /\ limits'[t].speed = limits[t].speed /\ limits'[t].users = new
        BY <3>0, <4>1, <4>3 DEF Limiter
      <4> QED
        BY <3>0, <4>2, <4>4
    <3>2. CASE limits' = limits /\ unlimited' = unlimited \cup us
      <4> HIDE DEF table
      <4> QED
        BY <1>1, <3>0, <3>2 DEF LimitsAre
    <3> QED
      BY <1>3, <3>1, <3>2 DEF ManagerCall, Succeeds, Errs
  <2>3. faults' = 0 => /\ faults = 0
                       /\ \/ Calls(us, subs, TRUE) /\ LimitsFollow(us, subs)
                          \/ t \notin DOMAIN inbound
    <3>1. CASE Succeeds(a, at, next, us, subs)
      BY <1>3, <3>1 DEF Succeeds, NoFault
    <3>2. CASE Errs(a, at, next, us, subs) /\ t \in DOMAIN inbound
      <4>1. Fault(a, next)
        BY <3>2 DEF Errs
      <4> QED
        BY <4>1 DEF Fault, Typed
    <3>3. CASE Errs(a, at, next, us, subs) /\ t \notin DOMAIN inbound
      BY <3>3 DEF Errs, NoFault
    <3> QED
      BY <3>1, <3>2, <3>3 DEF ManagerCall
  <2>4. Calls(us, subs, TRUE) /\ LimitsFollow(us, subs) =>
          missed' = missed \ us /\ unlimited' = unlimited \ us
    BY DEF Calls, LimitsFollow
  <2> QED
    BY <2>1, <2>2, <2>3, <2>4
<1> QED
  BY <1>2, <1>3

\* What a call leaves: the inbound and the limiter have a list, but for users
\* a call failed for.
Applied(subs) ==
    /\ \A t \in DOMAIN inbound' :
         /\ t = nodeInfo.tag
         /\ inbound'[t].users = subs
         /\ \A u \in Users \ missed' : inbound'[t].serves[u] = subs[u]
    /\ DOMAIN limits' = {nodeInfo.tag} /\ limits'[nodeInfo.tag].speed = nodeInfo.speed
    /\ \A u \in Users \ unlimited' : limits'[nodeInfo.tag].users[u] = subs[u]

Others(a) == UpAt(a) /\ RulesAt(a) /\ LocalAt(a) /\ AnswersAt(a)

LEMMA DiffCallKeeps ==
  ASSUME NEW me \in Actors, Typed, At(me), NEW at \in {"diff", "added", "modified", "readd"},
         NEW next \in {"added", "modified", "readd", "relayDiff"}, NEW us \in SUBSET Users,
         NEW subs \in Lists, NEW old \in Lists, ManagerCall(me, at, next, us, subs),
         InboundIs(old), LimitsAre(nodeInfo, old)
  PROVE  /\ pc'[me] = next /\ UNCHANGED <<nodeInfo, list, loc>>
         /\ Others(me)'
         /\ Applied(Upsert(old, us, subs))
<1>1. pc[me] = at /\ pc'[me] = next
  BY DEF ManagerCall, Succeeds, Errs, Fault, Goto, Typed
<1>2. UNCHANGED <<seenNode, seenSubs, nodeInfo, list, rules, keyed, relay, loc, partial>>
  BY DEF ManagerCall, Succeeds, Errs
<1>3. next \in Places
  BY PlacesFacts
<1> DEFINE table == Upsert(old, us, subs)
<1>4. /\ DOMAIN inbound' = DOMAIN inbound
      /\ \A t \in DOMAIN inbound :
           /\ inbound'[t].users = table
           /\ \A u \in Users \ missed' : inbound'[t].serves[u] = table[u]
           /\ inbound'[t].up = inbound[t].up /\ inbound'[t].node = inbound[t].node
      /\ DOMAIN limits' = DOMAIN limits
      /\ limits'[nodeInfo.tag].speed = nodeInfo.speed
      /\ \A u \in Users \ unlimited' : limits'[nodeInfo.tag].users[u] = table[u]
      /\ faults' = 0 => faults = 0
      /\ /\ faults' = 0 /\ nodeInfo.tag \in DOMAIN inbound
         /\ missed = {} /\ unlimited = {}
         => missed' = {} /\ unlimited' = {}
  BY <1>3, ManagerCallKeeps
<1> HIDE DEF table
<1>5. UpAt(me)'
  BY <1>1, <1>2, <1>4 DEF At, UpAt, Same
<1>6. RulesAt(me)'
  BY <1>1, <1>2 DEF At, RulesAt, RulesAre
<1>7. LocalAt(me)' /\ AnswersAt(me)'
  BY <1>1, <1>2, <1>4 DEF At, LocalAt, AnswersAt
<1>8. DOMAIN limits = {nodeInfo.tag} /\ \A t \in DOMAIN inbound : t = nodeInfo.tag
  BY DEF InboundIs, LimitsAre
<1> QED
  BY <1>1, <1>2, <1>4, <1>5, <1>6, <1>7, <1>8 DEF table, Applied, Others

LEMMA DiffKeeps ==
  ASSUME NEW me \in Actors, Typed, At(me), Diff(me)
  PROVE  At(me)'
<1> DEFINE new == loc[me].subs
<1>0. new \in Lists /\ list \in Lists /\ NoUsers \in Lists
  BY Lists0 DEF Typed, Local
<1>1. CASE ManagerCall(me, "diff", "added", Deleted(list, new), NoUsers)
  <2>1. pc[me] = "diff"
    BY <1>1 DEF ManagerCall, Succeeds, Errs
  <2>2. InboundIs(list) /\ LimitsAre(nodeInfo, list) /\ list \in Lists
    BY <1>0, <2>1 DEF At, InboundAt, LimitsAt
  <2>3. Upsert(list, Deleted(list, new), NoUsers) = Without(list, new)
    BY DEF Without
  <2>4. Deleted(list, new) \in SUBSET Users
    BY ComparedUsers
  <2>5. /\ pc'[me] = "added" /\ UNCHANGED <<nodeInfo, list, loc>>
        /\ Others(me)' /\ Applied(Without(list, new))
    BY <1>0, <1>1, <2>2, <2>3, <2>4, DiffCallKeeps
  <2>6. InboundIs(Without(list, loc[me].subs))' /\ LimitsAre(nodeInfo, Without(list, loc[me].subs))'
    BY <2>5 DEF Applied, InboundIs, LimitsAre, Without
  <2> QED
    BY <2>5, <2>6 DEF At, Others, InboundAt, LimitsAt
<1>2. CASE ManagerCall(me, "added", "modified", Added(list, new), new)
  <2>1. pc[me] = "added"
    BY <1>2 DEF ManagerCall, Succeeds, Errs
  <2>2. InboundIs(Without(list, new)) /\ LimitsAre(nodeInfo, Without(list, new)) /\ Without(list, new) \in Lists
    BY <1>0, <2>1, StagesType DEF At, InboundAt, LimitsAt
  <2>3. Upsert(Without(list, new), Added(list, new), new) = With(list, new)
    BY DEF With
  <2>4. Added(list, new) \in SUBSET Users
    BY ComparedUsers
  <2>5. /\ pc'[me] = "modified" /\ UNCHANGED <<nodeInfo, list, loc>>
        /\ Others(me)' /\ Applied(With(list, new))
    BY <1>0, <1>2, <2>2, <2>3, <2>4, DiffCallKeeps
  <2>6. InboundIs(With(list, loc[me].subs))' /\ LimitsAre(nodeInfo, With(list, loc[me].subs))'
    BY <2>5 DEF Applied, InboundIs, LimitsAre, With
  <2> QED
    BY <2>5, <2>6 DEF At, Others, InboundAt, LimitsAt
<1>3. CASE ManagerCall(me, "modified", "readd", Modified(list, new), NoUsers)
  <2>1. pc[me] = "modified"
    BY <1>3 DEF ManagerCall, Succeeds, Errs
  <2>2. InboundIs(With(list, new)) /\ LimitsAre(nodeInfo, With(list, new)) /\ With(list, new) \in Lists
    BY <1>0, <2>1, StagesType DEF At, InboundAt, LimitsAt
  <2>3. Upsert(With(list, new), Modified(list, new), NoUsers) = Reduced(list, new)
    BY DEF Reduced
  <2>4. Modified(list, new) \in SUBSET Users
    BY ComparedUsers
  <2>5. /\ pc'[me] = "readd" /\ UNCHANGED <<nodeInfo, list, loc>>
        /\ Others(me)' /\ Applied(Reduced(list, new))
    BY <1>0, <1>3, <2>2, <2>3, <2>4, DiffCallKeeps
  <2>6. InboundIs(Reduced(list, loc[me].subs))' /\ LimitsAre(nodeInfo, Reduced(list, loc[me].subs))'
    BY <2>5 DEF Applied, InboundIs, LimitsAre, Reduced
  <2> QED
    BY <2>5, <2>6 DEF At, Others, InboundAt, LimitsAt
<1>4. CASE ManagerCall(me, "readd", "relayDiff", Modified(list, new), new)
  <2>1. pc[me] = "readd"
    BY <1>4 DEF ManagerCall, Succeeds, Errs
  <2>2. InboundIs(Reduced(list, new)) /\ LimitsAre(nodeInfo, Reduced(list, new)) /\ Reduced(list, new) \in Lists
    BY <1>0, <2>1, StagesType DEF At, InboundAt, LimitsAt
  <2>3. Upsert(Reduced(list, new), Modified(list, new), new) = new
    BY <1>0, DiffApplies
  <2>4. Modified(list, new) \in SUBSET Users
    BY ComparedUsers
  <2>5. /\ pc'[me] = "relayDiff" /\ UNCHANGED <<nodeInfo, list, loc>>
        /\ Others(me)' /\ Applied(new)
    BY <1>0, <1>4, <2>2, <2>3, <2>4, DiffCallKeeps
  <2>6. InboundIs(loc[me].subs)' /\ LimitsAre(nodeInfo, loc[me].subs)'
    BY <2>5 DEF Applied, InboundIs, LimitsAre
  <2> QED
    BY <2>5, <2>6 DEF At, Others, InboundAt, LimitsAt
<1> QED
  BY <1>1, <1>2, <1>3, <1>4 DEF Diff

LEMMA StoreListKeeps ==
  ASSUME NEW me \in Actors, Typed, At(me), StoreList(me)
  PROVE  At(me)'
<1>1. pc[me] = "store" /\ pc'[me] = "idle"
  BY DEF StoreList, Goto, Typed
<1>2. /\ list' = loc[me].subs
      /\ UNCHANGED <<seenNode, seenSubs, nodeInfo, inbound, limits, rules, keyed, relay, loc, faults, missed, unlimited, partial>>
  BY DEF StoreList, NoFault, engineVars, historyVars
<1>3. InboundAt(me)' /\ UpAt(me)'
  BY <1>1, <1>2 DEF At, InboundAt, InboundIs, UpAt
<1>4. LimitsAt(me)'
  BY <1>1, <1>2 DEF At, LimitsAt, LimitsAre
<1>5. RulesAt(me)'
  BY <1>1, <1>2 DEF At, RulesAt, RulesAre
<1>6. LocalAt(me)' /\ AnswersAt(me)'
  BY <1>1, <1>2 DEF At, LocalAt, AnswersAt
<1> QED
  BY <1>3, <1>4, <1>5, <1>6 DEF At

LEMMA StepKeeps ==
  ASSUME NEW me \in Actors, Typed, At(me), Step(me)
  PROVE  At(me)'
BY GetNodeInfoKeeps, GetSubscriptionListKeeps, GetSubscriptionListFailsKeeps, RemoveRelayKeeps,
   RemoveNodeKeeps, RemoveNodeFailsKeeps, AddNodeKeeps, AddNodeFailsKeeps, AddSubscriptionsKeeps,
   SetupRelayKeeps, UpdateLimitsKeeps, UpdateNodeInfoKeeps, DiffKeeps, StoreListKeeps DEF Step

LEMMA StepLeavesClosed ==
  ASSUME NEW a, Step(a)
  PROVE  closed' = closed /\ (pc[a] # "idle" \/ closed = "no")
<1>1. CASE GetNodeInfo(a) \/ GetSubscriptionList(a) \/ GetSubscriptionListFails(a) \/ RemoveRelay(a)
  BY <1>1 DEF GetNodeInfo, GetSubscriptionList, GetSubscriptionListFails, RemoveRelay, historyVars
<1>2. CASE \/ RemoveNode(a) \/ RemoveNodeFails(a) \/ AddNode(a) \/ AddNodeFails(a)
           \/ AddSubscriptions(a) \/ AddSubscriptionsFails(a)
  BY <1>2 DEF RemoveNode, RemoveNodeFails, AddNode, AddNodeFails, AddSubscriptions,
              AddSubscriptionsFails, historyVars
<1>3. CASE \/ SetupRelay(a, "relay", "limits") \/ SetupRelayFails(a, "relay", "limits")
           \/ SetupRelay(a, "relayDiff", "store") \/ SetupRelayFails(a, "relayDiff", "store")
  BY <1>3 DEF SetupRelay, SetupRelayFails, historyVars
<1>4. CASE UpdateLimits(a) \/ UpdateNodeInfo(a) \/ Diff(a) \/ StoreList(a)
  BY <1>4 DEF UpdateLimits, UpdateNodeInfo, Diff, ManagerCall, Succeeds, Errs, StoreList, historyVars
<1> QED
  BY <1>1, <1>2, <1>3, <1>4 DEF Step

LEMMA PanelChangeKeeps ==
  ASSUME NEW me \in Actors, Typed, At(me), PanelChange
  PROVE  At(me)'
<1>1. UNCHANGED <<seenNode, seenSubs, nodeInfo, list, inbound, limits, rules, keyed, relay, pc, loc,
                  faults, missed, unlimited, partial>>
  BY DEF PanelChange, engineVars, historyVars
<1>2. InboundAt(me)' /\ UpAt(me)'
  BY <1>1 DEF At, InboundAt, InboundIs, UpAt
<1>3. LimitsAt(me)' /\ RulesAt(me)'
  BY <1>1 DEF At, LimitsAt, LimitsAre, RulesAt, RulesAre
<1>4. LocalAt(me)' /\ AnswersAt(me)'
  BY <1>1 DEF At, LocalAt, AnswersAt
<1> QED
  BY <1>2, <1>3, <1>4 DEF At

\* Removing what the list names, when the controller closes, leaves nothing.
LEMMA CloseCleans ==
  ASSUME NEW me \in Actors, Typed, At(me), pc[me] = "idle", Close, closed' = "quiet"
  PROVE  /\ DOMAIN inbound' = {} /\ DOMAIN limits' = {}
         /\ ~partial' => rules' = [u \in Users |-> 0]
<1>1. DOMAIN inbound' = {}
  <2>1. inbound' = Restrict(inbound, DOMAIN inbound \ {nodeInfo.tag})
    BY DEF Close
  <2>2. DOMAIN inbound \ {nodeInfo.tag} = {}
    BY DEF At, InboundAt, InboundIs
  <2> QED
    BY <2>1, <2>2 DEF Restrict
<1>2. DOMAIN limits' = {}
  <2>1. limits' = Restrict(limits, DOMAIN limits \ {nodeInfo.tag})
    BY DEF Close
  <2>2. DOMAIN limits \ {nodeInfo.tag} = {}
    BY DEF At, LimitsAt, LimitsAre
  <2> QED
    BY <2>1, <2>2 DEF Restrict
<1>3. ASSUME ~partial' PROVE rules' = [u \in Users |-> 0]
  <2>1. /\ rules = [u \in Users |-> IF relay /\ list[u] # 0 THEN 1 ELSE 0]
        /\ keyed = {u \in Users : relay /\ list[u] # 0}
    BY <1>3 DEF Close, At, RulesAt, RulesAre
  <2>2. CASE relay
    <3>1. rules' = [u \in Users |-> IF u \in Listed(list) \cap keyed THEN rules[u] - 1 ELSE rules[u]]
      BY <2>2 DEF Close
    <3> QED
      BY <2>1, <2>2, <3>1 DEF Listed
  <2>3. CASE ~relay
    BY <2>1, <2>3 DEF Close
  <2> QED
    BY <2>2, <2>3
<1> QED
  BY <1>1, <1>2, <1>3
-----------------------------------------------------------------------------
(***************************************************************************)
(* The inductive invariant.                                                *)
(***************************************************************************)
LEMMA InitTyped == Init => Typed
<1> SUFFICES ASSUME Init PROVE Typed
  OBVIOUS
<1>1. pnode \in Nodes /\ psubs \in Lists
  BY DEF Init
<1>2. inbound \in [DOMAIN inbound -> Inbound] /\ limits \in [DOMAIN limits -> Limiter]
  BY <1>1 DEF Init, Only, Inbound, Limiter, Nodes
<1>3. rules \in [Users -> Int] /\ keyed \subseteq Users /\ relay \in BOOLEAN
  BY <1>1 DEF Init, Nodes, Listed
<1>4. pc \in [Actors -> Places] /\ loc \in [Actors -> Local]
  BY <1>1, PlacesFacts DEF Init, Local
<1> QED
  BY <1>1, <1>2, <1>3, <1>4 DEF Init, Typed

LEMMA InitAt == ASSUME Init, NEW a \in Actors PROVE At(a)
<1>1. pc[a] = "idle"
  BY DEF Init
<1>2. InboundAt(a) /\ UpAt(a)
  BY <1>1 DEF Init, InboundAt, InboundIs, UpAt, Only, Same
<1>3. LimitsAt(a)
  BY <1>1 DEF Init, LimitsAt, LimitsAre, Only
<1>4. RulesAt(a)
  <2>1. keyed = {u \in Users : relay /\ list[u] # 0}
    BY DEF Init, Listed, Nodes
  <2>2. rules = [u \in Users |-> IF relay /\ list[u] # 0 THEN 1 ELSE 0]
    BY <2>1 DEF Init
  <2> QED
    BY <1>1, <2>1, <2>2 DEF RulesAt, RulesAre
<1>5. LocalAt(a) /\ AnswersAt(a)
  BY <1>1 DEF Init, LocalAt, AnswersAt
<1> QED
  BY <1>2, <1>3, <1>4, <1>5 DEF At

LEMMA InitIInv == Init => IInv
BY InitTyped, InitAt DEF Init, IInv, Closed

LEMMA NextKeepsIInv ==
  ASSUME NEW me, OneCaller(me), IInv, [Next]_vars
  PROVE  IInv'
<1>0. me \in Actors /\ \A a \in Actors : a = me
  BY DEF OneCaller
<1>1. CASE Step(me)
  <2>1. Typed'
    BY <1>0, <1>1, StepTyped DEF IInv
  <2>2. closed' = closed /\ closed # "quiet"
    BY <1>0, <1>1, StepLeavesClosed DEF IInv, Closed
  <2>3. closed = "no" => At(me)'
    BY <1>0, <1>1, StepKeeps DEF IInv
  <2> QED
    BY <1>0, <2>1, <2>2, <2>3 DEF IInv, Closed
<1>2. CASE PanelChange
  <2>1. Typed'
    BY <1>2, PanelChangeTyped DEF IInv
  <2>2. closed = "no" => At(me)'
    BY <1>0, <1>2, PanelChangeKeeps DEF IInv
  <2>3. UNCHANGED <<closed, pc, inbound, limits, rules, partial>>
    BY <1>2 DEF PanelChange, engineVars, historyVars
  <2> QED
    BY <1>0, <2>1, <2>2, <2>3 DEF IInv, Closed
<1>3. CASE Close
  <2>1. Typed'
    BY <1>3, CloseTyped DEF IInv
  <2>2. closed' # "no" /\ UNCHANGED <<pc, partial>>
    BY <1>3 DEF Close
  <2>3. closed' = "quiet" => \A a \in Actors : pc[a] = "idle"
    BY <1>3 DEF Close
  <2>4. closed = "no"
    BY <1>3 DEF Close
  <2>5. Closed'
    BY <1>0, <1>3, <2>2, <2>3, <2>4, CloseCleans DEF IInv, Closed
  <2> QED
    BY <2>1, <2>2, <2>5 DEF IInv
<1>4. CASE UNCHANGED vars
  <2>1. UNCHANGED <<pnode, psubs, seenNode, seenSubs, nodeInfo, list, inbound, limits, rules, keyed,
                    relay, pc, loc, faults, missed, unlimited, partial, closed>>
    BY <1>4 DEF vars, panelVars, engineVars, historyVars
  <2>2. Typed' /\ Closed'
    BY <2>1 DEF IInv, Typed, Closed
  <2>3. At(me) => At(me)'
    BY <2>1 DEF At, InboundAt, InboundIs, UpAt, LimitsAt, LimitsAre, RulesAt, RulesAre, LocalAt, AnswersAt
  <2> QED
    BY <1>0, <2>1, <2>2, <2>3 DEF IInv
<1> QED
  BY <1>0, <1>1, <1>2, <1>3, <1>4 DEF Next

\* The invariant, for a controller whose apiMonitor only the "node" task calls.
THEOREM Inductive ==
  ASSUME NEW me, OneCaller(me)
  PROVE  Spec => []IInv
<1>1. Init => IInv
  BY InitIInv
<1>2. IInv /\ [Next]_vars => IInv'
  BY NextKeepsIInv
<1> QED
  BY <1>1, <1>2, PTL DEF Spec

\* After any sequence of polls of which none met a fault, the inbound, the
\* limiter, the relay and its rules are exactly what the panel's latest answers
\* ask for (apiMonitor, controller.go:300).
THEOREM Reconciles ==
  ASSUME NEW me, OneCaller(me)
  PROVE  Spec => []ReconciledWithoutFaults
<1>1. IInv => ReconciledWithoutFaults
  <2> SUFFICES ASSUME IInv, Quiet, faults = 0 PROVE Runs(seenNode, seenSubs)
    BY DEF ReconciledWithoutFaults
  <2>1. me \in Actors /\ pc[me] = "idle" /\ At(me)
    BY DEF OneCaller, Quiet, IInv
  <2>2. ~partial /\ missed = {} /\ unlimited = {}
    BY <2>1 DEF At, UpAt, IInv, Typed
  <2>3. nodeInfo = seenNode /\ list = seenSubs /\ relay = nodeInfo.relay
    BY <2>1 DEF At, AnswersAt
  <2>4. /\ DOMAIN inbound = {nodeInfo.tag} /\ inbound[nodeInfo.tag].up
        /\ inbound[nodeInfo.tag].users = list
        /\ \A u \in Users : inbound[nodeInfo.tag].serves[u] = list[u]
        /\ Same(inbound[nodeInfo.tag].node, nodeInfo)
    BY <2>1, <2>2 DEF At, InboundAt, InboundIs, UpAt
  <2>5. /\ inbound[nodeInfo.tag].node \in Nodes /\ nodeInfo \in Nodes
        /\ inbound[nodeInfo.tag].serves \in Lists /\ list \in Lists
    BY <2>4 DEF IInv, Typed, Inbound
  <2>6. /\ ~Structural(inbound[nodeInfo.tag].node, nodeInfo)
        /\ inbound[nodeInfo.tag].serves = list
    BY <2>4, <2>5, SameIsNotStructural DEF Lists
  <2>7. /\ DOMAIN limits = {nodeInfo.tag}
        /\ limits[nodeInfo.tag] = [speed |-> nodeInfo.speed, users |-> list]
    <3>1. /\ DOMAIN limits = {nodeInfo.tag} /\ limits[nodeInfo.tag].speed = nodeInfo.speed
          /\ \A u \in Users : limits[nodeInfo.tag].users[u] = list[u]
      BY <2>1, <2>2 DEF At, LimitsAt, LimitsAre
    <3>2. limits[nodeInfo.tag] \in Limiter
      BY <3>1 DEF IInv, Typed
    <3>3. limits[nodeInfo.tag].users = list
      BY <2>5, <3>1, <3>2 DEF Limiter, Lists
    <3> QED
      BY <3>1, <3>2, <3>3 DEF Limiter
  <2>8. rules = [u \in Users |-> IF nodeInfo.relay /\ list[u] # 0 THEN 1 ELSE 0]
    BY <2>1, <2>2, <2>3 DEF At, RulesAt, RulesAre
  <2> QED
    BY <2>3, <2>4, <2>6, <2>7, <2>8 DEF Runs
<1> QED
  BY <1>1, Inductive, PTL

\* Whatever failed in whichever poll, between two polls c.subscriptionList is
\* the inbound's table and what the relay's rules name; the inbound serves and
\* the limiter limits each user as listed, but for the users whom a failed call
\* to the inbound named and no successful one has since (controller.go:362-364,
\* 446-485: the errors are only logged, and the list is stored all the same).
THEOREM ListIsTrue ==
  ASSUME NEW me, OneCaller(me)
  PROVE  Spec => []ListTellsTheTruth
<1>1. IInv => ListTellsTheTruth
  <2> SUFFICES ASSUME IInv, Quiet
               PROVE  /\ InboundServesList
                      /\ UsersAreLimited
                      /\ ~partial => rules = [u \in Users |-> IF relay /\ list[u] # 0 THEN 1 ELSE 0]
    BY DEF ListTellsTheTruth, InboundServesList, UsersAreLimited, RelayFollowsList
  <2>1. me \in Actors /\ pc[me] = "idle" /\ At(me)
    BY DEF OneCaller, Quiet, IInv
  <2>2. InboundServesList
    BY <2>1 DEF At, InboundAt, InboundIs, InboundServesList
  <2>3. UsersAreLimited
    BY <2>1 DEF At, LimitsAt, LimitsAre, UsersAreLimited
  <2>4. ~partial => rules = [u \in Users |-> IF relay /\ list[u] # 0 THEN 1 ELSE 0]
    BY <2>1 DEF At, RulesAt, RulesAre
  <2> QED
    BY <2>2, <2>3, <2>4
<1> QED
  BY <1>1, Inductive, PTL

\* Close between two polls leaves no inbound, no limiter and no relay rule of
\* the node, whatever had failed before, but for a relay built half-way.
THEOREM CloseUndoesAll ==
  ASSUME NEW me, OneCaller(me)
  PROVE  Spec => []CloseLeavesNothing
<1>1. IInv => CloseLeavesNothing
  BY DEF IInv, Closed, CloseLeavesNothing
<1> QED
  BY <1>1, Inductive, PTL

-----------------------------------------------------------------------------
(***************************************************************************)
(* TypeOK: the tags in the engine and the limiter, and how many rules of a *)
(* subscription there can be, one for the relay and one for every failure, *)
(* whichever list a rule is made for and whenever the controller closes.   *)
(***************************************************************************)
Named ==
  /\ DOMAIN inbound \subseteq Tags /\ DOMAIN limits \subseteq Tags
  /\ closed \in {"no", "quiet", "busy", "failed"}

LEMMA NamedStays == Typed /\ Named /\ [Next]_vars => Named'
<1> SUFFICES ASSUME Typed, Named, [Next]_vars PROVE Named'
  OBVIOUS
<1> USE DEF Named
<1>0. /\ nodeInfo.tag \in Tags
      /\ \A a \in Actors : loc[a].node.tag \in Tags /\ loc[a].old.tag \in Tags
  BY DEF Typed, Local, Nodes
<1>1. CASE PanelChange
  BY <1>1 DEF PanelChange, engineVars, historyVars
<1>2. CASE Close
  BY <1>2 DEF Close, Restrict
<1>3. ASSUME NEW a \in Actors,
             \/ GetNodeInfo(a) \/ GetSubscriptionList(a) \/ GetSubscriptionListFails(a)
             \/ RemoveRelay(a) \/ StoreList(a)
      PROVE  Named'
  BY <1>3 DEF GetNodeInfo, GetSubscriptionList, GetSubscriptionListFails, RemoveRelay, StoreList,
              engineVars, historyVars
<1>4. ASSUME NEW a \in Actors, NEW at, NEW next, SetupRelay(a, at, next) \/ SetupRelayFails(a, at, next)
      PROVE  Named'
  BY <1>4 DEF SetupRelay, SetupRelayFails, historyVars
<1>5. ASSUME NEW a \in Actors, RemoveNode(a) \/ RemoveNodeFails(a) \/ AddNodeFails(a) PROVE Named'
  BY <1>5 DEF RemoveNode, RemoveNodeFails, AddNodeFails, Restrict, engineVars, historyVars
<1>6. ASSUME NEW a \in Actors, AddNode(a) \/ AddSubscriptions(a) \/ AddSubscriptionsFails(a)
      PROVE  Named'
  <2>1. DOMAIN inbound' \subseteq DOMAIN inbound \cup {nodeInfo.tag} /\ UNCHANGED <<limits, closed>>
    BY <1>6 DEF AddNode, AddSubscriptions, AddSubscriptionsFails, Calls, Put, historyVars
  <2> QED
    BY <1>0, <2>1
<1>7. ASSUME NEW a \in Actors, UpdateLimits(a) PROVE Named'
  <2>1. DOMAIN limits' \subseteq DOMAIN limits \cup {nodeInfo.tag} /\ UNCHANGED <<inbound, closed>>
    BY <1>7 DEF UpdateLimits, Put, Restrict, historyVars
  <2> QED
    BY <1>0, <2>1
<1>8. ASSUME NEW a \in Actors, UpdateNodeInfo(a) \/ Diff(a) PROVE Named'
  <2>1. DOMAIN limits' = DOMAIN limits /\ DOMAIN inbound' = DOMAIN inbound /\ closed' = closed
    BY <1>8 DEF UpdateNodeInfo, Diff, ManagerCall, Succeeds, Errs, Calls, LimitsFollow, historyVars
  <2> QED
    BY <2>1
<1>9. CASE UNCHANGED vars
  BY <1>9 DEF vars, engineVars, historyVars
<1> QED
  BY <1>1, <1>2, <1>3, <1>4, <1>5, <1>6, <1>7, <1>8, <1>9 DEF Next, Step

\* The list the rules of a running relay are for.
RelayList(a) == IF pc[a] \in {"limits", "store"} THEN loc[a].subs ELSE list

\* Where the relay is down, and what the local variables say of the list; unlike
\* At, also while the controller closes.
Routed(a) ==
  /\ pc[a] \in {"remove", "add", "populate", "relay", "diff", "added", "modified", "readd",
                "relayDiff"} => ~relay
  /\ pc[a] = "soft" /\ loc[a].subsChanged => ~relay
  /\ pc[a] \in {"unrelay", "soft"} => loc[a].subsChanged \/ loc[a].subs = list

\* Rules beyond one for every failure are known by their tag and in the list.
Counted(a) ==
  \A u \in Users :
    /\ rules[u] >= 0 /\ (u \in keyed => rules[u] > 0)
    /\ rules[u] <= faults \/ (/\ rules[u] <= faults + 1
                              /\ relay /\ u \in keyed /\ u \in Listed(RelayList(a)))

LEMMA RoutedStays ==
  ASSUME Typed, NEW me \in Actors, Routed(me), Step(me)
  PROVE  Routed(me)'
<1> USE DEF Typed, Local, Routed, Goto
<1>1. CASE GetNodeInfo(me)
  BY <1>1 DEF GetNodeInfo
<1>2. CASE GetSubscriptionList(me)
  BY <1>2 DEF GetSubscriptionList, engineVars
<1>3. CASE GetSubscriptionListFails(me)
  BY <1>3 DEF GetSubscriptionListFails, Fault
<1>4. CASE RemoveRelay(me)
  <2>1. /\ UNCHANGED <<loc, list>> /\ pc[me] = "unrelay"
        /\ pc'[me] \in {"remove", "soft", "diff", "store"}
        /\ pc'[me] = "diff" => loc[me].subsChanged
    BY <1>4 DEF RemoveRelay
  <2>2. pc'[me] = "remove" \/ loc[me].subsChanged => ~relay'
    BY <1>4 DEF RemoveRelay, RemoveRules
  <2> QED
    BY <2>1, <2>2
<1>5. CASE RemoveNode(me)
  BY <1>5 DEF RemoveNode
<1>6. CASE AddNode(me) \/ AddSubscriptions(me) \/ AddSubscriptionsFails(me)
  <2>1. /\ pc[me] \in {"add", "populate"} /\ pc'[me] \in {"populate", "relay"}
        /\ UNCHANGED <<loc, list, relay>>
    BY <1>6 DEF AddNode, AddSubscriptions, AddSubscriptionsFails, Fault
  <2> QED
    BY <2>1
<1>7. CASE RemoveNodeFails(me) \/ AddNodeFails(me)
  BY <1>7 DEF RemoveNodeFails, AddNodeFails, Fault
<1>8. ASSUME NEW at, NEW next \in {"limits", "store"}, SetupRelay(me, at, next) \/ SetupRelayFails(me, at, next)
      PROVE  Routed(me)'
  BY <1>8 DEF SetupRelay, SetupRelayFails, Fault
<1>9. CASE UpdateLimits(me) \/ StoreList(me)
  BY <1>9 DEF UpdateLimits, StoreList
<1>10. CASE UpdateNodeInfo(me)
  BY <1>10 DEF UpdateNodeInfo
<1>11. CASE Diff(me)
  <2>1. /\ pc[me] \in {"diff", "added", "modified", "readd"}
        /\ UNCHANGED <<loc, list, relay>>
    BY <1>11 DEF Diff, ManagerCall, Succeeds, Errs
  <2>2. pc'[me] \in {"added", "modified", "readd", "relayDiff"}
    BY <1>11 DEF Diff, ManagerCall, Succeeds, Errs, Fault
  <2> QED
    BY <2>1, <2>2
<1> QED
  BY <1>1, <1>2, <1>3, <1>4, <1>5, <1>6, <1>7, <1>8, <1>9, <1>10, <1>11 DEF Step

LEMMA CountedStays ==
  ASSUME Typed, NEW me \in Actors, Routed(me), Counted(me), Step(me)
  PROVE  Counted(me)'
<1> USE DEF Typed, Local, Goto
<1>1. ASSUME UNCHANGED <<rules, keyed, relay>>, faults' = faults \/ faults' = faults + 1,
             relay => RelayList(me)' = RelayList(me)
      PROVE  Counted(me)'
  BY <1>1 DEF Counted
<1>2. CASE \/ GetNodeInfo(me) \/ GetSubscriptionList(me) \/ GetSubscriptionListFails(me)
           \/ RemoveNode(me) \/ RemoveNodeFails(me) \/ AddNode(me) \/ AddNodeFails(me)
  <2>1. UNCHANGED <<rules, keyed, relay, list>> /\ (faults' = faults \/ faults' = faults + 1)
    BY <1>2 DEF GetNodeInfo, GetSubscriptionList, GetSubscriptionListFails, RemoveNode, RemoveNodeFails,
                AddNode, AddNodeFails, Fault, NoFault, engineVars
  <2>2. pc[me] \notin {"limits", "store"} /\ pc'[me] \notin {"limits", "store"}
    BY <1>2 DEF GetNodeInfo, GetSubscriptionList, GetSubscriptionListFails, RemoveNode, RemoveNodeFails,
                AddNode, AddNodeFails, Fault
  <2> QED
    BY <1>1, <2>1, <2>2 DEF RelayList
<1>3. CASE AddSubscriptions(me) \/ AddSubscriptionsFails(me) \/ Diff(me)
  <2>1. UNCHANGED <<rules, keyed, relay, list>> /\ (faults' = faults \/ faults' = faults + 1)
    BY <1>3 DEF AddSubscriptions, AddSubscriptionsFails, Diff, ManagerCall, Succeeds, Errs, Fault, NoFault
  <2>2. pc[me] \notin {"limits", "store"} /\ pc'[me] \notin {"limits", "store"}
    BY <1>3 DEF AddSubscriptions, AddSubscriptionsFails, Diff, ManagerCall, Succeeds, Errs, Fault
  <2> QED
    BY <1>1, <2>1, <2>2 DEF RelayList
<1>4. CASE UpdateLimits(me) \/ StoreList(me)
  <2>1. UNCHANGED <<rules, keyed, relay, faults>>
    BY <1>4 DEF UpdateLimits, StoreList, NoFault, engineVars
  <2>2. RelayList(me)' = RelayList(me)
    BY <1>4 DEF UpdateLimits, StoreList, RelayList
  <2> QED
    BY <1>1, <2>1, <2>2
<1>5. CASE UpdateNodeInfo(me)
  <2>1. UNCHANGED <<rules, keyed, relay, faults>>
    BY <1>5 DEF UpdateNodeInfo, NoFault
  <2>2. RelayList(me)' = RelayList(me)
    BY <1>5 DEF UpdateNodeInfo, RelayList, Routed
  <2> QED
    BY <1>1, <2>1, <2>2
<1>6. CASE RemoveRelay(me)
  <2>1. UNCHANGED <<faults, list, loc>> /\ pc[me] = "unrelay"
    BY <1>6 DEF RemoveRelay, NoFault
  <2>2. CASE RemoveRules(Listed(list))
    BY <2>1, <2>2 DEF Counted, RemoveRules, RelayList
  <2>3. CASE UNCHANGED <<rules, keyed, relay>>
    <3>1. relay => RelayList(me)' = RelayList(me)
      BY <1>6, <2>1, <2>3 DEF RemoveRelay, RelayList, Routed, RemoveRules
    <3> QED
      BY <1>1, <2>1, <2>3, <3>1
  <2> QED
    BY <1>6, <2>2, <2>3 DEF RemoveRelay
<1>7. ASSUME NEW at \in {"relay", "relayDiff"}, NEW next \in {"limits", "store"}, SetupRelay(me, at, next)
      PROVE  Counted(me)'
  <2>1. UNCHANGED <<faults, list, loc>> /\ ~relay /\ pc'[me] = next
    BY <1>7 DEF SetupRelay, NoFault, Routed
  <2>2. RelayList(me)' = loc[me].subs
    BY <2>1 DEF RelayList
  <2>3. CASE AddRules(Listed(loc[me].subs)) /\ relay'
    BY <2>1, <2>2, <2>3 DEF Counted, AddRules
  <2>4. CASE UNCHANGED <<rules, keyed, relay>>
    BY <1>1, <2>1, <2>4
  <2> QED
    BY <1>7, <2>3, <2>4 DEF SetupRelay
<1>8. ASSUME NEW at \in {"relay", "relayDiff"}, NEW next, SetupRelayFails(me, at, next)
      PROVE  Counted(me)'
  <2>1. ~relay /\ ~relay' /\ faults' = faults + 1
    BY <1>8 DEF SetupRelayFails, Fault
  <2>2. PICK us \in SUBSET Listed(loc[me].subs) : AddRules(us)
    BY <1>8 DEF SetupRelayFails
  <2> QED
    BY <2>1, <2>2 DEF Counted, AddRules
<1> QED
  BY <1>2, <1>3, <1>4, <1>5, <1>6, <1>7, <1>8 DEF Step

LEMMA CloseStaysCounted ==
  ASSUME Typed, NEW me \in Actors, Routed(me), Counted(me), Close
  PROVE  Routed(me)' /\ Counted(me)'
<1>1. UNCHANGED <<pc, loc, list, relay>> /\ (faults' = faults \/ faults' = faults + 1)
  BY DEF Close
<1>2. Routed(me)'
  BY <1>1 DEF Routed
<1>3. RelayList(me)' = RelayList(me)
  BY <1>1 DEF RelayList
<1>4. Counted(me)'
  <2>1. CASE relay
    <3>1. /\ rules' = [u \in Users |-> IF u \in Listed(list) \cap keyed THEN rules[u] - 1 ELSE rules[u]]
          /\ keyed' = keyed \ Listed(list)
      BY <2>1 DEF Close
    <3> QED
      BY <1>1, <1>3, <3>1 DEF Typed, Counted
  <2>2. CASE ~relay
    BY <1>1, <1>3, <2>2 DEF Typed, Counted, Close
  <2> QED
    BY <2>1, <2>2
<1> QED
  BY <1>2, <1>4

LEMMA OthersKeepCounted ==
  ASSUME Typed, NEW me \in Actors, Routed(me), Counted(me), PanelChange \/ UNCHANGED vars
  PROVE  Routed(me)' /\ Counted(me)'
<1>1. UNCHANGED <<pc, loc, list, relay, rules, keyed, faults>>
  BY DEF PanelChange, vars, engineVars
<1> QED
  BY <1>1 DEF Routed, Counted, RelayList

LEMMA InitCounted == Init => Named /\ \A a \in Actors : Routed(a) /\ Counted(a)
<1> SUFFICES ASSUME Init PROVE Named /\ \A a \in Actors : Routed(a) /\ Counted(a)
  OBVIOUS
<1>1. Named
  BY DEF Init, Named, Only, Nodes
<1>2. ASSUME NEW a \in Actors PROVE Routed(a) /\ Counted(a)
  <2>1. pc[a] = "idle" /\ RelayList(a) = list
    BY DEF Init, RelayList
  <2>2. \A u \in Users : rules[u] = IF u \in keyed THEN 1 ELSE 0
    BY DEF Init
  <2>3. \A u \in keyed : relay /\ u \in Listed(list)
    BY DEF Init
  <2> QED
    BY <2>1, <2>2, <2>3 DEF Init, Routed, Counted
<1> QED
  BY <1>1, <1>2

\* The types of the running state, with a bound on the rules of a subscription.
THEOREM TypeCorrect ==
  ASSUME NEW me, OneCaller(me)
  PROVE  Spec => []TypeOK
<1> DEFINE Inv == Typed /\ Named /\ Routed(me) /\ Counted(me)
<1>0. me \in Actors /\ \A a \in Actors : a = me
  BY DEF OneCaller
<1>1. Init => Inv
  BY <1>0, InitTyped, InitCounted
<1>2. Inv /\ [Next]_vars => Inv'
  <2> SUFFICES ASSUME Inv, [Next]_vars PROVE Inv'
    OBVIOUS
  <2>1. Named'
    BY NamedStays
  <2>2. CASE Step(me)
    BY <1>0, <2>1, <2>2, StepTyped, RoutedStays, CountedStays
  <2>3. CASE PanelChange
    BY <1>0, <2>1, <2>3, PanelChangeTyped, OthersKeepCounted
  <2>4. CASE Close
    BY <1>0, <2>1, <2>4, CloseTyped, CloseStaysCounted
  <2>5. CASE UNCHANGED vars
    <3>1. Typed'
      BY <2>5 DEF vars, panelVars, engineVars, historyVars, Typed
    <3> QED
      BY <1>0, <2>1, <2>5, <3>1, OthersKeepCounted
  <2> QED
    BY <1>0, <2>2, <2>3, <2>4, <2>5 DEF Next
<1>3. Inv => TypeOK
  <2> SUFFICES ASSUME Inv PROVE TypeOK
    OBVIOUS
  <2>1. rules \in [Users -> 0..(faults + 1)] /\ keyed \subseteq {u \in Users : rules[u] > 0}
    BY DEF Typed, Counted
  <2>2. (\A t \in DOMAIN inbound : inbound[t] \in Inbound) /\ (\A t \in DOMAIN limits : limits[t] \in Limiter)
    BY DEF Typed
  <2> QED
    BY <2>1, <2>2 DEF Typed, Named, TypeOK, Inbound, Limiter
<1> QED
  BY <1>1, <1>2, <1>3, PTL DEF Spec
=============================================================================
