------------------------------- MODULE Relay -------------------------------
(***************************************************************************)
(* The relays of several nodes in one engine: AddRelayTag, RemoveRelayTag, *)
(* RemoveRelayRules and what they call in node/node.go, driven by          *)
(* setupRelay and the teardown in apiMonitor and Close.                    *)
(*                                                                         *)
(* Each controller has its own node.Manager, so relayMu and scopeMu order  *)
(* only the calls of one node.  The outbound manager and router.rules are  *)
(* the engine's: reading router.rules and replacing it are two steps, in   *)
(* between of which another node may replace it as well.                   *)
(*                                                                         *)
(* An outbound's tag is relay_<type>_<port>_<RelayNodeID>_<subscription>:  *)
(* two nodes that relay a subscription through the same transit node use   *)
(* the same tag.  Creating a tag that exists replaces it (sing-box).       *)
(***************************************************************************)
EXTENDS Naturals, FiniteSets, Functions

CONSTANTS
    Nodes,      \* nodes of the panel, each with its controller
    Users,      \* subscriptions
    Lists,      \* the subscription lists the panel may send
    Transits,   \* transit nodes; one is one relay tag
    Fronted,    \* those behind ShadowTLS
    MaxSetups,  \* bound on how often each node's relay is set up
    MaxWork,    \* bound on the set-ups and their subscriptions, all nodes together
    MaxFaults   \* bound on failing requests and outbounds

ASSUME ListAssumption == Lists \subseteq SUBSET Users
ASSUME FrontedAssumption == Fronted \subseteq Transits
ASSUME BoundAssumption == MaxSetups \in Nat /\ MaxWork \in Nat /\ MaxFaults \in Nat

Layers == {"protocol", "shadowtls"}
Tags == Transits \X Users \X Layers
Rules == [node : Nodes, user : Users, via : Transits, setup : 1..MaxSetups]

VARIABLES
    outbounds,  \* the outbound manager: tag -> the node that created it
    rules,      \* router.rules
    scopes,     \* outboundScopes of each node's manager
    relayRules, \* the rules each manager knows by their tag
    relay,      \* c.Relay
    via,        \* c.RelayTag
    pc,         \* where each node is in setupRelay or the teardown
    users,      \* the subscriptions the relay was set up for
    todo,       \* those the current loop has still to handle
    current,    \* the slice addRouterRule or removeRouterRule copied
    setups, work, faults,
    raced,      \* history: rules lost or brought back by an outdated copy
    shared,     \* history: tags whose outbound replaced another node's
    partial     \* history: nodes whose AddRelayTag stopped half-way

engineVars == <<outbounds, rules>>
managerVars == <<scopes, relayRules>>
controllerVars == <<relay, via, users, setups, work>>
historyVars == <<raced, shared, partial>>
vars == <<engineVars, managerVars, controllerVars, pc, todo, current, faults, historyVars>>

Init ==
    /\ outbounds = << >> /\ rules = {}
    /\ scopes = [n \in Nodes |-> {}] /\ relayRules = [n \in Nodes |-> {}]
    /\ relay = [n \in Nodes |-> FALSE]
    /\ via = [n \in Nodes |-> "none"]
    /\ users = [n \in Nodes |-> {}] /\ setups = [n \in Nodes |-> 0]
    /\ pc = [n \in Nodes |-> "idle"]
    /\ todo = [n \in Nodes |-> {}] /\ current = [n \in Nodes |-> {}]
    /\ work = 0 /\ faults = 0 /\ raced = {} /\ shared = {} /\ partial = {}

Goto(n, label) == pc' = [pc EXCEPT ![n] = label]

Fault == faults < MaxFaults /\ faults' = faults + 1

\* The subscription the loop of node n is at.
At(n) == CHOOSE u \in todo[n] : TRUE

\* RelayOutboundTag and its ShadowTLSTag.
Tag(n, layer) == <<via[n], At(n), layer>>

Without(n) == todo' = [todo EXCEPT ![n] = @ \ {At(n)}]

-----------------------------------------------------------------------------
(***************************************************************************)
(* setupRelay: the outbounds of a subscription, then its rule; after the   *)
(* last one, c.Relay = true.  An error ends it and leaves what was built;  *)
(* the caller only logs it.                                                *)
(***************************************************************************)
Up(n, t, us) ==
    /\ todo' = [todo EXCEPT ![n] = us]
    /\ Goto(n, IF us = {} THEN "idle" ELSE IF t \in Fronted THEN "front" ELSE "protocol")
    /\ relay' = [relay EXCEPT ![n] = us = {}]

SetupRelay(n) ==
    /\ pc[n] = "idle" /\ ~relay[n] /\ setups[n] < MaxSetups
    /\ setups' = [setups EXCEPT ![n] = @ + 1]
    /\ \E t \in Transits, us \in Lists :
         /\ work' = work + 1 + Cardinality(us) /\ work' <= MaxWork
         /\ via' = [via EXCEPT ![n] = t]
         /\ users' = [users EXCEPT ![n] = us]
         /\ Up(n, t, us)
    /\ UNCHANGED <<engineVars, managerVars, current, faults, historyVars>>

OfAnother(n, t) == {t} \cap {x \in DOMAIN outbounds : outbounds[x] # n}

\* A tag that exists gets a new outbound.
Put(f, t, v) == [x \in DOMAIN f \cup {t} |-> IF x = t THEN v ELSE f[x]]

AddOutbound(n, at, layer, next) ==
    /\ pc[n] = at
    /\ outbounds' = Put(outbounds, Tag(n, layer), n)
    /\ scopes' = [scopes EXCEPT ![n] = @ \cup {Tag(n, layer)}]
    /\ shared' = shared \cup OfAnother(n, Tag(n, layer))
    /\ Goto(n, next)
    /\ UNCHANGED <<rules, relayRules, controllerVars, todo, current, faults, raced, partial>>

AddFront(n) == AddOutbound(n, "front", "shadowtls", "protocol")
AddProtocol(n) == AddOutbound(n, "protocol", "protocol", "copy")

\* Building or creating the outbound failed, or starting it did and it was
\* removed again (with whatever it had replaced); or, with the outbounds up, the
\* rule could not be built or started.
AddRelayFails(n) ==
    /\ pc[n] \in {"front", "protocol", "copy"}
    /\ Fault
    /\ LET t == Tag(n, IF pc[n] = "front" THEN "shadowtls" ELSE "protocol") IN
       \/ UNCHANGED <<outbounds, scopes, shared>>
       \/ /\ pc[n] # "copy"
          /\ outbounds' = Restrict(outbounds, DOMAIN outbounds \ {t})
          /\ scopes' = [scopes EXCEPT ![n] = @ \ {t}]
          /\ shared' = shared \cup OfAnother(n, t)
    /\ partial' = partial \cup {n}
    /\ Goto(n, "idle")
    /\ todo' = [todo EXCEPT ![n] = {}]
    /\ UNCHANGED <<rules, relayRules, controllerVars, current, raced>>

\* addRouterRule and removeRouterRule copy router.rules under their own relayMu.
CopyRules(n) ==
    /\ pc[n] \in {"copy", "uncopy"}
    /\ current' = [current EXCEPT ![n] = rules]
    /\ Goto(n, IF pc[n] = "copy" THEN "set" ELSE "unset")
    /\ UNCHANGED <<engineVars, managerVars, controllerVars, todo, faults, historyVars>>

\* router.rules is replaced by what node n made of its copy.
SetRules(n, new) ==
    /\ rules' = new
    /\ raced' = raced \cup (rules \ current[n]) \cup (current[n] \ rules)
    /\ current' = [current EXCEPT ![n] = {}]

\* Mutant: a rule's tag is its own, not that of the subscription.
KnownAll(n, u) == relayRules[n]

\* The rules known by other tags than that of subscription u's rule.
KnownBut(n, u) == {r \in relayRules[n] : r.user # u \/ r.via # via[n]}

AddRule(n) ==
    /\ pc[n] = "set"
    /\ LET new == [node |-> n, user |-> At(n), via |-> via[n], setup |-> setups[n]] IN
         /\ SetRules(n, current[n] \cup {new})
         /\ relayRules' = [relayRules EXCEPT ![n] = KnownBut(n, At(n)) \cup {new}]
    /\ Up(n, via[n], todo[n] \ {At(n)})
    /\ UNCHANGED <<outbounds, scopes, via, users, setups, work, faults, shared, partial>>

-----------------------------------------------------------------------------
(***************************************************************************)
(* The teardown: RemoveRelayRules over the list, then RemoveRelayTag over  *)
(* the list; an outbound that does not stop ends the second loop.          *)
(***************************************************************************)
\* Mutant: the outbounds are removed while rules still name them.
OutboundsFirst(n) ==
    /\ pc[n] = "idle" /\ relay[n]
    /\ todo' = [todo EXCEPT ![n] = users[n]]
    /\ Goto(n, IF users[n] = {} THEN "down" ELSE "unprotocol")
    /\ UNCHANGED <<engineVars, managerVars, controllerVars, current, faults, historyVars>>

Teardown(n) ==
    /\ pc[n] = "idle" /\ relay[n]
    /\ todo' = [todo EXCEPT ![n] = users[n]]
    /\ Goto(n, IF users[n] = {} THEN "down" ELSE "uncopy")
    /\ UNCHANGED <<engineVars, managerVars, controllerVars, current, faults, historyVars>>

\* Mutant: only the manager forgets the rule.
ForgetRule(n) ==
    /\ pc[n] = "unset"
    /\ SetRules(n, current[n])
    /\ relayRules' = [relayRules EXCEPT ![n] = KnownBut(n, At(n))]
    /\ IF todo[n] = {At(n)}
         THEN todo' = [todo EXCEPT ![n] = users[n]] /\ Goto(n, "unprotocol")
         ELSE Without(n) /\ Goto(n, "uncopy")
    /\ UNCHANGED <<outbounds, scopes, controllerVars, faults, shared, partial>>

\* A relay that is up has a rule for each of its subscriptions.
RemoveRule(n) ==
    /\ pc[n] = "unset"
    /\ SetRules(n, current[n] \ (relayRules[n] \ KnownBut(n, At(n))))
    /\ relayRules' = [relayRules EXCEPT ![n] = KnownBut(n, At(n))]
    /\ IF todo[n] = {At(n)}
         THEN todo' = [todo EXCEPT ![n] = users[n]] /\ Goto(n, "unprotocol")
         ELSE Without(n) /\ Goto(n, "uncopy")
    /\ UNCHANGED <<outbounds, scopes, controllerVars, faults, shared, partial>>

\* removeOutbound: nothing to do for a tag that is not registered.
Detach(n, t) ==
    /\ outbounds' = Restrict(outbounds, DOMAIN outbounds \ {t})
    /\ scopes' = [scopes EXCEPT ![n] = IF t \in DOMAIN outbounds THEN @ \ {t} ELSE @]

RemoveProtocol(n) ==
    /\ pc[n] = "unprotocol"
    /\ Detach(n, Tag(n, "protocol"))
    /\ Goto(n, "unfront")
    /\ UNCHANGED <<rules, relayRules, controllerVars, todo, current, faults, historyVars>>

RemoveFront(n) ==
    /\ pc[n] = "unfront"
    /\ Detach(n, Tag(n, "shadowtls"))
    /\ Without(n)
    /\ Goto(n, IF todo[n] = {At(n)} THEN "down" ELSE "unprotocol")
    /\ UNCHANGED <<rules, relayRules, controllerVars, current, faults, historyVars>>

\* The scope did not close: it is forgotten, its outbound stays registered.
RemoveOutboundFails(n) ==
    /\ pc[n] \in {"unprotocol", "unfront"}
    /\ LET t == Tag(n, IF pc[n] = "unfront" THEN "shadowtls" ELSE "protocol") IN
         /\ t \in DOMAIN outbounds /\ t \in scopes[n]
         /\ scopes' = [scopes EXCEPT ![n] = @ \ {t}]
    /\ Fault
    /\ todo' = [todo EXCEPT ![n] = {}]
    /\ Goto(n, "down")
    /\ UNCHANGED <<engineVars, relayRules, controllerVars, current, historyVars>>

\* c.Relay = false, c.RelayTag = ""
TeardownDone(n) ==
    /\ pc[n] = "down"
    /\ relay' = [relay EXCEPT ![n] = FALSE]
    /\ via' = [via EXCEPT ![n] = "none"]
    /\ users' = [users EXCEPT ![n] = {}]
    /\ Goto(n, "idle")
    /\ UNCHANGED <<engineVars, managerVars, setups, work, todo, current, faults, historyVars>>

Next ==
    \E n \in Nodes :
        \/ SetupRelay(n) \/ AddFront(n) \/ AddProtocol(n) \/ AddRelayFails(n)
        \/ CopyRules(n) \/ AddRule(n)
        \/ Teardown(n) \/ RemoveRule(n)
        \/ RemoveProtocol(n) \/ RemoveFront(n) \/ RemoveOutboundFails(n) \/ TeardownDone(n)

Spec == Init /\ [][Next]_vars

-----------------------------------------------------------------------------
(***************************************************************************)
(* Properties                                                              *)
(***************************************************************************)

TypeOK ==
    /\ DOMAIN outbounds \subseteq Tags /\ \A t \in DOMAIN outbounds : outbounds[t] \in Nodes
    /\ rules \subseteq Rules
    /\ \A n \in Nodes :
         /\ scopes[n] \subseteq Tags
         /\ relayRules[n] \subseteq {r \in Rules : r.node = n}
         /\ \A r, s \in relayRules[n] : r.user = s.user /\ r.via = s.via => r = s
         /\ todo[n] \subseteq users[n] /\ users[n] \in Lists \cup {{}}
         /\ current[n] \subseteq Rules
         /\ current[n] # {} => pc[n] \in {"set", "unset"}
    /\ relay \in [Nodes -> BOOLEAN] /\ via \in [Nodes -> Transits \cup {"none"}]
    /\ setups \in [Nodes -> 0..MaxSetups] /\ faults \in 0..MaxFaults

\* The outbounds a subscription relayed through t needs.
Needed(t, u) == {<<t, u, "protocol">>} \cup (IF t \in Fronted THEN {<<t, u, "shadowtls">>} ELSE {})

\* At every step "nothing is left naming an outbound that has already gone"
\* (node.go:394): a routing rule finds its outbound, and an outbound the
\* ShadowTLS outbound it dials through, while relays of other nodes come and go and fail.
\* Excepted are only the rules an outdated copy of router.rules brought back,
\* outbounds two nodes share, and nodes whose own AddRelayTag failed.
RulesFindOutbounds ==
    /\ \A r \in rules :
         \/ Needed(r.via, r.user) \subseteq DOMAIN outbounds
         \/ r \in raced \/ r.node \in partial \/ Needed(r.via, r.user) \cap shared # {}
    /\ \A t \in Fronted, u \in Users :
         LET p == <<t, u, "protocol">> IN
         p \in DOMAIN outbounds =>
            \/ Needed(t, u) \subseteq DOMAIN outbounds
            \/ outbounds[p] \in partial \/ Needed(t, u) \cap shared # {}

Wanted == {r \in Rules : /\ relay[r.node] /\ r.user \in users[r.node]
                         /\ r.via = via[r.node] /\ r.setup = setups[r.node]}

\* Between calls router.rules routes exactly the subscriptions of relaying
\* nodes, each by the one rule of the latest set-up: what one node does costs
\* another no rule but those it changed between this one's copy and its write.
\* It is also what the single steps RemoveRelay and SetupRelay of Reconcile.tla
\* claim of the loops here; and no other outbound stays, unless one did not stop.
EngineFollowsRelays ==
    (\A n \in Nodes : pc[n] = "idle") =>
        /\ \A r \in rules : r \in Wanted \/ r \in raced \/ r.node \in partial
        /\ \A r \in Wanted : r \in rules \/ r \in raced
        /\ faults = 0 =>
             \A t \in DOMAIN outbounds :
                t \in shared \/ \E r \in Wanted : t \in Needed(r.via, r.user)
=============================================================================
