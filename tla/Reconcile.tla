------------------------------ MODULE Reconcile ------------------------------
(***************************************************************************)
(* controller/controller.go: apiMonitor, setupRelay and Close, with the    *)
(* parts of api (conditional requests), node (inbounds, relay rules),      *)
(* subscription and limiter they drive.                                    *)
(*                                                                         *)
(* apiMonitor is called by the "node" task and, with Reverb, by the        *)
(* webhook loop as well; nothing serialises the two, so each caller is an  *)
(* actor.  A step of an actor ends where another actor, or Close, could    *)
(* see or change what the next step reads.  Each panel request and each    *)
(* change to the engine may fail (up to MaxFaults times).                  *)
(*                                                                         *)
(* c.Tag is always nodeInfo.tag: the code assigns them together.           *)
(* Task intervals and certificate tasks are in Scheduler.tla.              *)
(***************************************************************************)
EXTENDS Naturals, FiniteSets, Functions

CONSTANTS
    Actors,     \* callers of apiMonitor
    Tags,       \* node tags (protocol, port and id)
    Speeds,     \* node speed limits: not structural
    Users,      \* subscriptions
    Versions,   \* UUID and limits of a subscription
    MaxChanges, \* bound on what the panel's operator changes
    MaxFaults   \* bound on failing requests and engine operations

ASSUME BoundAssumption == MaxChanges \in Nat /\ MaxFaults \in Nat
ASSUME VersionAssumption == Versions \subseteq Nat \ {0}

Nodes == [tag : Tags, relay : BOOLEAN, speed : Speeds]
Lists == [Users -> Versions \cup {0}]       \* 0: not in the list

VARIABLES
    pnode, psubs,   \* the panel: node configuration and subscriptions
    seenNode,       \* the answers the client's ETags stand for
    seenSubs,
    nodeInfo, list, \* c.nodeInfo (with c.Tag) and c.subscriptionList
    relay,          \* c.Relay
    inbound,        \* the engine: tag -> inbound, for the registered ones: its
                    \* user table, and what it serves of each user
    limits,         \* the limiter: tag -> node speed and users
    rules,          \* how many relay rules of each user are in router.rules
    keyed,          \* users with an entry in m.relayRules
    pc,             \* where each actor is in apiMonitor
    loc,            \* its local variables
    changes, faults,
    clean,          \* history: an actor's latest call met no fault
    missed,         \* history: users a failed call to the inbound named, and no
                    \* successful one since
    unlimited,      \* history: users whose limiter entry was left as it was because
                    \* the inbound's call failed, and not set since
    partial,        \* history: AddRelayTag has failed half-way
    closed          \* "no", or how the actors were when Close ran

panelVars == <<pnode, psubs, changes>>
engineVars == <<inbound, limits, rules, keyed, relay>>
historyVars == <<missed, unlimited, partial, closed>>
vars == <<panelVars, seenNode, seenSubs, nodeInfo, list, engineVars, pc, loc,
          faults, clean, historyVars>>

Listed(subs) == {u \in Users : subs[u] # 0}
NoUsers == [u \in Users |-> 0]

\* An entry of the engine's or the limiter's map: the only one, or stored in it.
Only(t, v) == [x \in {t} |-> v]
Put(f, t, v) == [x \in DOMAIN f \cup {t} |-> IF x = t THEN v ELSE f[x]]

\* Mutant: only a new tag makes the inbound be rebuilt.
StructuralTagOnly(old, new) == old.tag # new.tag

\* nodeInfoChangedStructurally
Structural(old, new) == [old EXCEPT !.speed = new.speed] # new

\* CompareSubscriptions
Deleted(old, new) == Listed(old) \ Listed(new)
Added(old, new) == Listed(new) \ Listed(old)
Modified(old, new) == {u \in Listed(old) \cap Listed(new) : old[u] # new[u]}

\* AddUsers or UpdateLimiter, and DelUsers or RemoveSubscriptions, of a few users.
Upsert(users, us, subs) == [u \in Users |-> IF u \in us THEN subs[u] ELSE users[u]]
Drop(users, us) == [u \in Users |-> IF u \in us THEN 0 ELSE users[u]]

\* What becomes of a user for whom table and service disagree, when a call
\* changes the service of one layer of the inbound, or of both, or of none.
Between(served, wanted) == IF served = wanted THEN {wanted} ELSE {served, wanted, 0}

\* What a successful Start leaves (Controller.Start).
Init ==
    /\ pnode \in Nodes /\ psubs \in Lists
    /\ seenNode = pnode /\ seenSubs = psubs
    /\ nodeInfo = pnode /\ list = psubs
    /\ inbound = Only(pnode.tag, [up |-> TRUE, node |-> pnode, users |-> psubs, serves |-> psubs])
    /\ limits = Only(pnode.tag, [speed |-> pnode.speed, users |-> psubs])
    /\ relay = pnode.relay
    /\ keyed = IF pnode.relay THEN Listed(psubs) ELSE {}
    /\ rules = [u \in Users |-> IF u \in keyed THEN 1 ELSE 0]
    /\ pc = [a \in Actors |-> "idle"]
    /\ loc = [a \in Actors |-> [node |-> pnode, old |-> pnode, subs |-> psubs,
                                nodeChanged |-> FALSE, subsChanged |-> FALSE]]
    /\ changes = 0 /\ faults = 0
    /\ clean = [a \in Actors |-> TRUE]
    /\ missed = {} /\ unlimited = {} /\ partial = FALSE
    /\ closed = "no"

Goto(a, label) == pc' = [pc EXCEPT ![a] = label]

\* The call meets an error and returns ("idle") or goes on.
Fault(a, label) ==
    /\ faults < MaxFaults
    /\ faults' = faults + 1
    /\ clean' = [clean EXCEPT ![a] = FALSE]
    /\ Goto(a, label)

NoFault == UNCHANGED <<faults, clean>>

\* The operator edits the node or the subscriptions in the panel.
PanelChange ==
    /\ changes < MaxChanges
    /\ changes' = changes + 1
    /\ \/ pnode' \in Nodes \ {pnode} /\ UNCHANGED psubs
       \/ psubs' \in Lists \ {psubs} /\ UNCHANGED pnode
    /\ UNCHANGED <<seenNode, seenSubs, nodeInfo, list, engineVars, pc, loc, faults,
                   clean, historyVars>>

-----------------------------------------------------------------------------
(***************************************************************************)
(* The two conditional requests.  A 200 answer's ETag is stored before the *)
(* answer is used; a 304 answer means "as c.nodeInfo (c.subscriptionList)  *)
(* has it".                                                                *)
(***************************************************************************)
GetNodeInfo(a) ==
    /\ pc[a] = "idle" /\ closed = "no"
    /\ IF pnode = seenNode
         THEN loc' = [loc EXCEPT ![a].node = nodeInfo, ![a].nodeChanged = FALSE]
         ELSE loc' = [loc EXCEPT ![a].node = pnode, ![a].nodeChanged = TRUE]
    /\ seenNode' = pnode
    /\ clean' = [clean EXCEPT ![a] = TRUE]
    /\ Goto(a, "subs")
    /\ UNCHANGED <<panelVars, seenSubs, nodeInfo, list, engineVars, faults, historyVars>>

GetSubscriptionList(a) ==
    /\ pc[a] = "subs"
    /\ IF psubs = seenSubs
         THEN loc' = [loc EXCEPT ![a].subs = list, ![a].subsChanged = FALSE]
         ELSE loc' = [loc EXCEPT ![a].subs = psubs, ![a].subsChanged = TRUE]
    /\ seenSubs' = psubs
    /\ Goto(a, "unrelay")
    /\ NoFault
    /\ UNCHANGED <<panelVars, seenNode, nodeInfo, list, engineVars, historyVars>>

GetSubscriptionListFails(a) ==
    /\ pc[a] = "subs"
    /\ Fault(a, "idle")
    /\ UNCHANGED <<panelVars, seenNode, seenSubs, nodeInfo, list, engineVars, loc, historyVars>>

-----------------------------------------------------------------------------
(***************************************************************************)
(* The relay is torn down when anything it depends on changed; then the    *)
(* branches part.                                                          *)
(***************************************************************************)
\* Mutant: relayRules keeps naming the rules that were removed.
RemoveRulesKeepsKeys(us) ==
    /\ rules' = [u \in Users |-> IF u \in us \cap keyed THEN rules[u] - 1 ELSE rules[u]]
    /\ keyed' = keyed
    /\ relay' = FALSE

RemoveRules(us) ==
    /\ rules' = [u \in Users |-> IF u \in us \cap keyed THEN rules[u] - 1 ELSE rules[u]]
    /\ keyed' = keyed \ us
    /\ relay' = FALSE

\* Mutant: the rules of the new list are removed instead of the old one's.
RemoveRelayOfNewList(a) ==
    /\ pc[a] = "unrelay"
    /\ LET structural == loc[a].nodeChanged /\ Structural(nodeInfo, loc[a].node) IN
         /\ IF relay /\ (structural \/ loc[a].subsChanged)
              THEN RemoveRules(Listed(loc[a].subs)) ELSE UNCHANGED <<rules, keyed, relay>>
         /\ Goto(a, IF structural THEN "remove" ELSE IF loc[a].nodeChanged THEN "soft"
                    ELSE IF loc[a].subsChanged THEN "diff" ELSE "store")
    /\ NoFault
    /\ UNCHANGED <<panelVars, seenNode, seenSubs, nodeInfo, list, inbound, limits, loc,
                   historyVars>>

RemoveRelay(a) ==
    /\ pc[a] = "unrelay"
    /\ LET structural == loc[a].nodeChanged /\ Structural(nodeInfo, loc[a].node) IN
         /\ IF relay /\ (structural \/ loc[a].subsChanged)
              THEN RemoveRules(Listed(list)) ELSE UNCHANGED <<rules, keyed, relay>>
         /\ Goto(a, IF structural THEN "remove" ELSE IF loc[a].nodeChanged THEN "soft"
                    ELSE IF loc[a].subsChanged THEN "diff" ELSE "store")
    /\ NoFault
    /\ UNCHANGED <<panelVars, seenNode, seenSubs, nodeInfo, list, inbound, limits, loc,
                   historyVars>>

-----------------------------------------------------------------------------
(***************************************************************************)
(* The structural branch: the inbound is taken down and built anew.        *)
(***************************************************************************)
RemoveNode(a) ==
    /\ pc[a] = "remove"
    /\ loc' = [loc EXCEPT ![a].old = nodeInfo]
    /\ nodeInfo' = loc[a].node
    /\ inbound' = Restrict(inbound, DOMAIN inbound \ {nodeInfo.tag})
    /\ Goto(a, "add")
    /\ NoFault
    /\ UNCHANGED <<panelVars, seenNode, seenSubs, list, limits, rules, keyed, relay,
                   historyVars>>

\* Stopping the inbound failed: c.nodeInfo and c.Tag are put back, and the
\* stopped inbound stays registered.
RemoveNodeFails(a) ==
    /\ pc[a] = "remove"
    /\ nodeInfo.tag \in DOMAIN inbound
    /\ inbound' = [inbound EXCEPT ![nodeInfo.tag].up = FALSE]
    /\ Fault(a, "idle")
    /\ UNCHANGED <<panelVars, seenNode, seenSubs, nodeInfo, list, limits, rules, keyed,
                   relay, loc, historyVars>>

AddNode(a) ==
    /\ pc[a] = "add"
    /\ inbound' = Put(inbound, nodeInfo.tag,
                      [up |-> TRUE, node |-> loc[a].node,
                       users |-> NoUsers, serves |-> NoUsers])
    /\ missed' = {}
    /\ Goto(a, "populate")
    /\ NoFault
    /\ UNCHANGED <<panelVars, seenNode, seenSubs, nodeInfo, list, limits, rules, keyed,
                   relay, loc, unlimited, partial, closed>>

\* Mutant: c.nodeInfo and c.Tag keep the configuration that could not be built.
AddNodeFailsKeepsNew(a) ==
    /\ pc[a] = "add"
    /\ Fault(a, "idle")
    /\ UNCHANGED <<panelVars, seenNode, seenSubs, nodeInfo, list, engineVars, loc,
                   historyVars>>

\* AddNode rolled back what it had built; c.nodeInfo and c.Tag are put back.
AddNodeFails(a) ==
    /\ pc[a] = "add"
    /\ nodeInfo' = loc[a].old
    /\ Fault(a, "idle")
    /\ UNCHANGED <<panelVars, seenNode, seenSubs, list, engineVars, loc, historyVars>>

(***************************************************************************)
(* A call of the subscription manager for "us", who are to be as in "subs" *)
(* (0: removed).  The inbound's table follows even when the call fails;    *)
(* what its service and a ShadowTLS inbound in front accept need not       *)
(* (Revocation.tla and Chain.tla are its inside).  A call that succeeds is *)
(* in force for those it names.                                            *)
(***************************************************************************)
Calls(us, subs, succeeds) ==
    LET t == nodeInfo.tag
        table == Upsert(inbound[t].users, us, subs)
    IN /\ \E serves \in Lists :
            /\ \A u \in Users :
                 serves[u] \in IF succeeds /\ u \in us THEN {table[u]}
                              ELSE Between(inbound[t].serves[u], table[u])
            /\ inbound' = [inbound EXCEPT ![t].users = table, ![t].serves = serves]
       /\ missed' = IF succeeds THEN missed \ us ELSE missed \cup us

AddSubscriptions(a) ==
    /\ pc[a] = "populate"
    /\ IF Listed(loc[a].subs) # {} /\ nodeInfo.tag \in DOMAIN inbound
         THEN Calls(Listed(loc[a].subs), loc[a].subs, TRUE)
         ELSE UNCHANGED <<inbound, missed>>
    /\ Goto(a, "relay")
    /\ NoFault
    /\ UNCHANGED <<panelVars, seenNode, seenSubs, nodeInfo, list, limits, rules, keyed,
                   relay, loc, unlimited, partial, closed>>

\* The inbound is there without all or some of its users; the error is logged.
AddSubscriptionsFails(a) ==
    /\ pc[a] = "populate"
    /\ Listed(loc[a].subs) # {} /\ nodeInfo.tag \in DOMAIN inbound
    /\ Calls(Listed(loc[a].subs), loc[a].subs, FALSE)
    /\ Fault(a, "relay")
    /\ UNCHANGED <<panelVars, seenNode, seenSubs, nodeInfo, list, limits, rules, keyed,
                   relay, loc, unlimited, partial, closed>>

\* Mutant: under an unchanged tag only the node's settings are refreshed.
UpdateLimitsNodeOnly(a) ==
    /\ pc[a] = "limits"
    /\ LET new == loc[a].node  old == loc[a].old  subs == loc[a].subs
       IN limits' =
            IF old.tag # nodeInfo.tag
            THEN Put(Restrict(limits, DOMAIN limits \ {old.tag}), nodeInfo.tag,
                     [speed |-> new.speed, users |-> subs])
            ELSE IF old.tag \in DOMAIN limits
            THEN [limits EXCEPT ![old.tag].speed = new.speed]
            ELSE limits
    /\ unlimited' = unlimited
    /\ Goto(a, "store")
    /\ NoFault
    /\ UNCHANGED <<panelVars, seenNode, seenSubs, nodeInfo, list, inbound, rules, keyed,
                   relay, loc, missed, partial, closed>>

\* The limiter follows: replaced when the tag changed, else diffed.
UpdateLimits(a) ==
    /\ pc[a] = "limits"
    /\ LET new == loc[a].node  old == loc[a].old  subs == loc[a].subs
           us == Deleted(list, subs)
           touched == Added(list, subs) \cup Modified(list, subs)
       IN limits' =
            IF old.tag # nodeInfo.tag
            THEN Put(Restrict(limits, DOMAIN limits \ {old.tag}), nodeInfo.tag,
                     [speed |-> new.speed, users |-> subs])
            ELSE IF old.tag \in DOMAIN limits
            THEN [limits EXCEPT ![old.tag] =
                    [speed |-> new.speed,
                     users |-> Upsert(Drop(@.users, us), touched, subs)]]
            ELSE limits
    /\ unlimited' =
         IF loc[a].old.tag # nodeInfo.tag THEN {}
         ELSE {u \in unlimited : list[u] = loc[a].subs[u]}
    /\ Goto(a, "store")
    /\ NoFault
    /\ UNCHANGED <<panelVars, seenNode, seenSubs, nodeInfo, list, inbound, rules, keyed,
                   relay, loc, missed, partial, closed>>

-----------------------------------------------------------------------------
(***************************************************************************)
(* The other branch: node settings and subscriptions change in place.      *)
(***************************************************************************)
UpdateNodeInfo(a) ==
    /\ pc[a] = "soft"
    /\ nodeInfo' = loc[a].node
    /\ limits' = IF nodeInfo'.tag \in DOMAIN limits
                 THEN [limits EXCEPT ![nodeInfo'.tag].speed = loc[a].node.speed] ELSE limits
    /\ Goto(a, IF loc[a].subsChanged THEN "diff" ELSE "store")
    /\ NoFault
    /\ UNCHANGED <<panelVars, seenNode, seenSubs, list, inbound, rules, keyed, relay, loc,
                   historyVars>>

(***************************************************************************)
(* The calls that apply a comparison, one after another: an error is only  *)
(* logged.  Without an inbound each of them fails.  The limiter follows a  *)
(* call that succeeded, and in any case the last one.                      *)
(***************************************************************************)
LimitsFollow(us, subs) ==
    /\ limits' = IF nodeInfo.tag \in DOMAIN limits
                 THEN [limits EXCEPT ![nodeInfo.tag].users = Upsert(@, us, subs)] ELSE limits
    /\ unlimited' = unlimited \ us

Succeeds(a, at, next, us, subs) ==
    /\ pc[a] = at
    /\ IF us = {} THEN UNCHANGED <<inbound, missed, limits, unlimited>>
       ELSE /\ nodeInfo.tag \in DOMAIN inbound
            /\ Calls(us, subs, TRUE)
            /\ LimitsFollow(us, subs)
    /\ Goto(a, next)
    /\ NoFault
    /\ UNCHANGED <<panelVars, seenNode, seenSubs, nodeInfo, list, rules, keyed, relay, loc,
                   partial, closed>>

Errs(a, at, next, us, subs) ==
    /\ pc[a] = at
    /\ us # {}
    /\ IF nodeInfo.tag \in DOMAIN inbound
         THEN Calls(us, subs, FALSE) /\ Fault(a, next)
         ELSE UNCHANGED <<inbound, missed>> /\ Goto(a, next) /\ NoFault
    /\ IF at = "readd" THEN LimitsFollow(us, subs)
       ELSE limits' = limits /\ unlimited' = unlimited \cup us
    /\ UNCHANGED <<panelVars, seenNode, seenSubs, nodeInfo, list, rules, keyed, relay, loc,
                   partial, closed>>

ManagerCall(a, at, next, us, subs) == Succeeds(a, at, next, us, subs) \/ Errs(a, at, next, us, subs)

\* Mutant: modified subscriptions are removed and not added again.
DiffForgetsModified(a) ==
    LET new == loc[a].subs IN
    \/ ManagerCall(a, "diff", "added", Deleted(list, new), NoUsers)
    \/ ManagerCall(a, "added", "modified", Added(list, new), new)
    \/ ManagerCall(a, "modified", "relayDiff", Modified(list, new), NoUsers)

Diff(a) ==
    LET new == loc[a].subs IN
    \/ ManagerCall(a, "diff", "added", Deleted(list, new), NoUsers)
    \/ ManagerCall(a, "added", "modified", Added(list, new), new)
    \/ ManagerCall(a, "modified", "readd", Modified(list, new), NoUsers)
    \/ ManagerCall(a, "readd", "relayDiff", Modified(list, new), new)

-----------------------------------------------------------------------------
(***************************************************************************)
(* setupRelay, at the end of both branches.  addRouterRule appends a rule  *)
(* and lets relayRules name it; a rule named before stays in router.rules. *)
(***************************************************************************)
AddRules(us) ==
    /\ rules' = [u \in Users |-> IF u \in us THEN rules[u] + 1 ELSE rules[u]]
    /\ keyed' = keyed \cup us

SetupRelay(a, at, next) ==
    /\ pc[a] = at
    /\ IF nodeInfo.relay /\ ~relay
         THEN AddRules(Listed(loc[a].subs)) /\ relay' = TRUE
         ELSE UNCHANGED <<rules, keyed, relay>>
    /\ Goto(a, next)
    /\ NoFault
    /\ UNCHANGED <<panelVars, seenNode, seenSubs, nodeInfo, list, inbound, limits, loc,
                   historyVars>>

\* GetTransitNode fails, or AddRelayTag does for some subscription: the rules
\* made so far stay, c.Relay stays false, and the caller only logs it.
SetupRelayFails(a, at, next) ==
    /\ pc[a] = at
    /\ nodeInfo.relay /\ ~relay
    /\ \E us \in SUBSET Listed(loc[a].subs) :
         /\ AddRules(us)
         /\ partial' = (partial \/ us # {})
    /\ Fault(a, next)
    /\ UNCHANGED <<panelVars, seenNode, seenSubs, nodeInfo, list, inbound, limits, relay,
                   loc, missed, unlimited, closed>>

\* c.subscriptionList = newSubs
StoreList(a) ==
    /\ pc[a] = "store"
    /\ list' = loc[a].subs
    /\ Goto(a, "idle")
    /\ NoFault
    /\ UNCHANGED <<panelVars, seenNode, seenSubs, nodeInfo, engineVars, loc, historyVars>>

-----------------------------------------------------------------------------
(***************************************************************************)
(* Close, which waits for no actor.  It is one action: what the properties *)
(* say of it is about a Close that no apiMonitor call overlaps.  Stopping  *)
(* the inbound may fail, which is logged.                                  *)
(***************************************************************************)
Close ==
    /\ closed = "no"
    /\ limits' = Restrict(limits, DOMAIN limits \ {nodeInfo.tag})
    /\ \/ /\ inbound' = Restrict(inbound, DOMAIN inbound \ {nodeInfo.tag})
          /\ closed' = IF \A a \in Actors : pc[a] = "idle" THEN "quiet" ELSE "busy"
          /\ faults' = faults
       \/ /\ nodeInfo.tag \in DOMAIN inbound
          /\ inbound' = [inbound EXCEPT ![nodeInfo.tag].up = FALSE]
          /\ closed' = "failed"
          /\ faults < MaxFaults
          /\ faults' = faults + 1
    /\ IF relay
         THEN /\ rules' = [u \in Users |-> IF u \in Listed(list) \cap keyed
                                          THEN rules[u] - 1 ELSE rules[u]]
              /\ keyed' = keyed \ Listed(list)
         ELSE UNCHANGED <<rules, keyed>>
    /\ UNCHANGED <<panelVars, seenNode, seenSubs, nodeInfo, list, relay, pc, loc, clean,
                   missed, unlimited, partial>>

Step(a) ==
    \/ GetNodeInfo(a) \/ GetSubscriptionList(a) \/ GetSubscriptionListFails(a)
    \/ RemoveRelay(a)
    \/ RemoveNode(a) \/ RemoveNodeFails(a) \/ AddNode(a) \/ AddNodeFails(a)
    \/ AddSubscriptions(a) \/ AddSubscriptionsFails(a)
    \/ SetupRelay(a, "relay", "limits") \/ SetupRelayFails(a, "relay", "limits")
    \/ UpdateLimits(a)
    \/ UpdateNodeInfo(a) \/ Diff(a)
    \/ SetupRelay(a, "relayDiff", "store") \/ SetupRelayFails(a, "relayDiff", "store")
    \/ StoreList(a)

Next == PanelChange \/ Close \/ \E a \in Actors : Step(a)

Spec == Init /\ [][Next]_vars

-----------------------------------------------------------------------------
(***************************************************************************)
(* Properties                                                              *)
(***************************************************************************)

Local == [node : Nodes, old : Nodes, subs : Lists,
          nodeChanged : BOOLEAN, subsChanged : BOOLEAN]

TypeOK ==
    /\ pnode \in Nodes /\ seenNode \in Nodes /\ nodeInfo \in Nodes
    /\ psubs \in Lists /\ seenSubs \in Lists /\ list \in Lists
    /\ DOMAIN inbound \subseteq Tags /\ DOMAIN limits \subseteq Tags
    /\ \A t \in DOMAIN inbound :
         inbound[t] \in [up : BOOLEAN, node : Nodes, users : Lists, serves : Lists]
    /\ \A t \in DOMAIN limits : limits[t] \in [speed : Speeds, users : Lists]
    /\ rules \in [Users -> 0..(faults + 1)]
    /\ keyed \subseteq {u \in Users : rules[u] > 0}
    /\ relay \in BOOLEAN
    /\ loc \in [Actors -> Local]
    /\ missed \subseteq Users /\ unlimited \subseteq Users
    /\ closed \in {"no", "quiet", "busy", "failed"}

Quiet == closed = "no" /\ \A a \in Actors : pc[a] = "idle"

\* The running state is what a configuration and a subscription list ask for:
\* one inbound, built for the node, serving and limiting exactly the list, and
\* one relay rule for each subscription of a relayed node.
Runs(node, subs) ==
    /\ DOMAIN inbound = {node.tag} /\ DOMAIN limits = {node.tag}
    /\ inbound[node.tag].up
    /\ ~Structural(inbound[node.tag].node, node)
    /\ inbound[node.tag].users = subs /\ inbound[node.tag].serves = subs
    /\ limits[node.tag] = [speed |-> node.speed, users |-> subs]
    /\ relay = node.relay
    /\ rules = [u \in Users |-> IF node.relay /\ subs[u] # 0 THEN 1 ELSE 0]

\* As long as nothing fails, a finished apiMonitor leaves running exactly what
\* the panel's last answers said, whatever changed in whatever order and
\* whichever branch applied it ("fetches updated node info and subscription
\* list, then reconciles the running state accordingly", controller.go:300).
\* With one caller this holds; two concurrent ones lose updates.
ReconciledWithoutFaults ==
    Quiet /\ faults = 0 => Runs(seenNode, seenSubs)

\* The same sentence for a call that met no fault itself, after one that did:
\* what an earlier call was told and could not apply is still to be applied.
CleanPollReconciles ==
    Quiet /\ (\A a \in Actors : clean[a]) => nodeInfo = seenNode /\ list = seenSubs

\* c.subscriptionList, which is stored whatever failed, is the truth about the
\* inbound: its table has exactly that list, so the next comparison with the
\* panel's list (manager.go:372) starts from what is there; and it serves each
\* user as listed whom the last call that named the user did not fail for.
InboundServesList ==
    Quiet =>
        \A t \in DOMAIN inbound :
            /\ t = nodeInfo.tag
            /\ inbound[t].users = list
            /\ \A u \in Users \ missed : inbound[t].serves[u] = list[u]

\* The node's limiter has the node's speed limit, and each user's as listed,
\* but for users it was not told of because the inbound's call had failed
\* (controller.go:446-462).
UsersAreLimited ==
    Quiet =>
        /\ DOMAIN limits = {nodeInfo.tag}
        /\ limits[nodeInfo.tag].speed = nodeInfo.speed
        /\ \A u \in Users \ unlimited : limits[nodeInfo.tag].users[u] = list[u]

\* c.Relay tells the truth: relayed subscriptions are the listed ones, and
\* while it is false no rule sends anybody's traffic to a relay.
RelayFollowsList ==
    Quiet /\ ~partial =>
        rules = [u \in Users |-> IF relay /\ list[u] # 0 THEN 1 ELSE 0]

\* All three: whichever step of whichever poll failed, c.subscriptionList still
\* tells what the inbound, the limiter and the router do, but for the users a
\* call failed for: these it names as if the call had succeeded, so that no
\* later comparison finds them (controller.go:442-485).
ListTellsTheTruth == InboundServesList /\ UsersAreLimited /\ RelayFollowsList

\* Close between two polls undoes all that any sequence of polls built, failed
\* ones included, as long as AddRelayTag did not stop half-way.
CloseLeavesNothing ==
    closed = "quiet" /\ ~partial =>
        DOMAIN inbound = {} /\ DOMAIN limits = {} /\ rules = [u \in Users |-> 0]
=============================================================================
