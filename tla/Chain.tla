------------------------------- MODULE Chain -------------------------------
(***************************************************************************)
(* The inbounds of one node and their users: AddNode, RemoveNode,          *)
(* startInbounds and removeInbound (node/node.go) with the options of      *)
(* getInboundOptions (node/inbound.go), AddSubscriptions and               *)
(* RemoveSubscriptions (subscription/manager.go) and the ShadowTLS front   *)
(* (core/inbound/protocol/shadowtls.go), as apiMonitor and Close call them.*)
(*                                                                         *)
(* A plain node is one inbound.  A fronted one is the protocol on loopback *)
(* and a ShadowTLS listener on the public port, registered under a tag of  *)
(* its own: both layers are keyed here by the node's tag.  Clients connect *)
(* at any time, so every intermediate state can be seen.                   *)
(*                                                                         *)
(* Controller.Start of a fronted node does not survive addCertTasks (see   *)
(* the README), so a node starts plain and is fronted by a later change.   *)
(***************************************************************************)
EXTENDS Naturals, Functions

CONSTANTS
    Tags,       \* node tags
    Users,      \* subscriptions
    MaxCalls,   \* bound on changes from the panel
    MaxFaults   \* bound on inbounds that fail to build, start, stop or take users

ASSUME BoundAssumption == MaxCalls \in Nat /\ MaxFaults \in Nat
ASSUME TagAssumption == "none" \notin Tags

Layers == {"protocol", "front"}
Resting == {"idle", "closed"}
RemoveSteps == {"remove front", "remove protocol", "close front", "close protocol"}
BuildSteps == {"build", "create front", "start protocol", "start front",
               "undo protocol", "undo front"}
UserSteps == {"add protocol", "add front", "delete protocol", "delete front"}
Configs == [tag : Tags, fronted : BOOLEAN]
\* "users" is the inbound's table, "serves" the set its service has accepted.
Inbounds == [started : BOOLEAN, inner : BOOLEAN, users : SUBSET Users, serves : SUBSET Users]

VARIABLES
    inbounds,   \* the inbound manager: <<tag, layer>> -> inbound
    scopes,     \* m.inboundScopes
    node, old,  \* c.nodeInfo and what it was before a rebuild
    list,       \* the users a call was given
    pc,         \* where the controller is in the call
    calls, faults,
    stuck,      \* history: inbounds a removal failed on
    missed      \* history: users a failed call named, and no whole one since

controllerVars == <<node, old, list, calls>>
vars == <<inbounds, scopes, controllerVars, pc, faults, stuck, missed>>

Chain(c) == {<<c.tag, "protocol">>} \cup (IF c.fronted THEN {<<c.tag, "front">>} ELSE {})

\* What a successful Start leaves.
Init ==
    /\ node \in {c \in Configs : ~c.fronted} /\ old = node
    /\ list \in SUBSET Users
    /\ inbounds = [x \in Chain(node) |-> [started |-> TRUE, inner |-> FALSE, users |-> list,
                                     serves |-> list]]
    /\ scopes = Chain(node)
    /\ pc = "idle"
    /\ calls = 0 /\ faults = 0 /\ stuck = {} /\ missed = {}

Fault == faults < MaxFaults /\ faults' = faults + 1

Protocol(t) == <<t, "protocol">>
Front(t) == <<t, "front">>

-----------------------------------------------------------------------------
(***************************************************************************)
(* RemoveNode, in a rebuild or in Close: the front, then the protocol.     *)
(***************************************************************************)
\* Mutant: the scopes are not forgotten.
SpliceKeepScopes(x) ==
    /\ inbounds' = Restrict(inbounds, DOMAIN inbounds \ {x})
    /\ stuck' = stuck \ {x}
    /\ UNCHANGED scopes

Splice(x) ==
    /\ inbounds' = Restrict(inbounds, DOMAIN inbounds \ {x})
    /\ scopes' = scopes \ {x}
    /\ stuck' = stuck \ {x}

\* stopInboundScopes: a listener that reports an error is closed all the same.
\* The scopes are forgotten, and the inbound is not taken out of the manager.
StopFails(x) ==
    /\ x \in DOMAIN inbounds /\ x \in scopes
    /\ inbounds' = [inbounds EXCEPT ![x].started = FALSE]
    /\ scopes' = scopes \ {x}
    /\ stuck' = stuck \cup {x}
    /\ Fault

Rebuild ==
    /\ pc = "idle" /\ calls < MaxCalls
    /\ calls' = calls + 1
    /\ old' = node /\ node' \in Configs
    /\ list' \in SUBSET Users
    /\ pc' = "remove front"
    /\ UNCHANGED <<inbounds, scopes, faults, stuck, missed>>

Close ==
    /\ pc = "idle"
    /\ old' = node
    /\ pc' = "close front"
    /\ UNCHANGED <<inbounds, scopes, node, list, calls, faults, stuck, missed>>

\* Mutant: the protocol goes first and the front keeps accepting.
RemoveInReverse(label, layer, next) ==
    /\ pc = label
    /\ LET x == <<old.tag, IF layer = "front" THEN "protocol" ELSE "front">> IN
       \/ Splice(x) /\ pc' = next /\ UNCHANGED <<faults, node>>
       \/ /\ StopFails(x)
          /\ node' = old
          /\ pc' = IF label \in {"close front", "close protocol"} THEN "closed" ELSE "idle"
    /\ UNCHANGED <<old, list, calls, missed>>

RemoveInbound(label, layer, next) ==
    /\ pc = label
    /\ LET x == <<old.tag, layer>> IN
       \/ Splice(x) /\ pc' = next /\ UNCHANGED <<faults, node>>
       \/ /\ StopFails(x)
          /\ node' = old
          /\ pc' = IF label \in {"close front", "close protocol"} THEN "closed" ELSE "idle"
    /\ UNCHANGED <<old, list, calls, missed>>

-----------------------------------------------------------------------------
(***************************************************************************)
(* AddNode: register the chain, protocol first, then start it in that      *)
(* order.  On an error all that was registered is removed, in the order of *)
(* its creation and ignoring further errors, and c.nodeInfo is put back.   *)
(***************************************************************************)
GiveUp == pc' = "idle" /\ node' = old

\* getInboundOptions, or the first Create, fails.
BuildFails ==
    /\ pc = "build"
    /\ Fault /\ GiveUp
    /\ UNCHANGED <<inbounds, scopes, old, list, calls, stuck, missed>>

\* A tag that is registered already is replaced (sing-box).
Create(layer) ==
    LET x == <<node.tag, layer>> IN
    /\ inbounds' = [y \in DOMAIN inbounds \cup {x} |->
                      IF y # x THEN inbounds[y]
                      ELSE [started |-> FALSE, users |-> {}, serves |-> {},
                            inner |-> node.fronted /\ layer = "protocol"]]
    /\ stuck' = stuck \ {x}
    /\ UNCHANGED <<scopes, faults, controllerVars>>

CreateProtocol ==
    /\ pc = "build" /\ Create("protocol")
    /\ pc' = IF node.fronted THEN "create front" ELSE "start protocol"
    /\ missed' = {}

CreateFront ==
    /\ pc = "create front" /\ Create("front")
    /\ pc' = "start protocol"
    /\ UNCHANGED missed

\* Mutant: an inbound that cannot be created leaves those before it registered.
CreateFrontNoRollBack ==
    /\ pc = "create front"
    /\ Fault /\ GiveUp
    /\ UNCHANGED <<inbounds, scopes, stuck, old, list, calls, missed>>

CreateFrontFails ==
    /\ pc = "create front"
    /\ Fault
    /\ pc' = "undo protocol"
    /\ UNCHANGED <<inbounds, scopes, stuck, missed, controllerVars>>

Start(layer, next) ==
    LET x == <<node.tag, layer>> IN
    /\ inbounds' = [inbounds EXCEPT ![x].started = TRUE]
    /\ scopes' = scopes \cup {x}
    /\ pc' = next
    /\ UNCHANGED <<faults, stuck, missed, controllerVars>>

StartProtocol ==
    pc = "start protocol" /\ Start("protocol", IF node.fronted THEN "start front" ELSE "add protocol")

StartFront == pc = "start front" /\ Start("front", "add protocol")

\* The scopes of the stages that were run are closed, and stay in inboundScopes.
StartFails ==
    /\ pc \in {"start protocol", "start front"}
    /\ Fault
    /\ scopes' = scopes \cup {<<node.tag, IF pc = "start front" THEN "front" ELSE "protocol">>}
    /\ pc' = "undo protocol"
    /\ UNCHANGED <<inbounds, stuck, missed, controllerVars>>

Undo(label, layer) ==
    /\ pc = label
    /\ LET x == <<node.tag, layer>> IN
       \/ Splice(x) /\ UNCHANGED faults
       \/ StopFails(x)
    /\ IF label = "undo protocol" /\ Front(node.tag) \in DOMAIN inbounds /\ node.fronted
         THEN pc' = "undo front" /\ UNCHANGED node ELSE GiveUp
    /\ UNCHANGED <<old, list, calls, missed>>

-----------------------------------------------------------------------------
(***************************************************************************)
(* AddSubscriptions and RemoveSubscriptions, in a rebuild or in place.     *)
(* Adding goes by the node's configuration, removing by what is registered;*)
(* without the protocol inbound both report an error.  Both go to the      *)
(* protocol first.                                                         *)
(***************************************************************************)
Edit ==
    /\ pc = "idle" /\ calls < MaxCalls
    /\ Protocol(node.tag) \in DOMAIN inbounds
    /\ calls' = calls + 1
    /\ list' \in SUBSET Users \ {{}}
    /\ pc' \in {"add protocol", "delete protocol"}
    /\ UNCHANGED <<inbounds, scopes, node, old, faults, stuck, missed>>

\* The table changes, and the service is given all of it; what the service
\* refuses leaves it as it was (syncService, rebuildService).
SetUsers(x, us) == inbounds' = [inbounds EXCEPT ![x].users = us, ![x].serves = us]
SetTable(x, us) == inbounds' = [inbounds EXCEPT ![x].users = us]

\* The call has done all it does.
Done == pc' = "idle" /\ missed' = missed \ list

\* Mutant: only the protocol learns the users.
AddUsersToProtocol ==
    /\ pc = "add protocol"
    /\ SetUsers(Protocol(node.tag), inbounds[Protocol(node.tag)].users \cup list)
    /\ Done
    /\ UNCHANGED <<scopes, controllerVars, faults, stuck>>

AddUsers ==
    /\ pc = "add protocol"
    /\ SetUsers(Protocol(node.tag), inbounds[Protocol(node.tag)].users \cup list)
    /\ IF node.fronted /\ Front(node.tag) \in DOMAIN inbounds
         THEN pc' = "add front" /\ UNCHANGED missed ELSE Done
    /\ UNCHANGED <<scopes, controllerVars, faults, stuck>>

DelUsers ==
    /\ pc = "delete protocol"
    /\ SetUsers(Protocol(node.tag), inbounds[Protocol(node.tag)].users \ list)
    /\ IF Front(node.tag) \in DOMAIN inbounds
         THEN pc' = "delete front" /\ UNCHANGED missed ELSE Done
    /\ UNCHANGED <<scopes, controllerVars, faults, stuck>>

\* ShadowTLSInbound.AddUsers and DelUsers; with no user left the service is nil
\* and every connection is refused.
FrontUsers ==
    /\ \/ /\ pc = "add front"
          /\ SetUsers(Front(node.tag), inbounds[Front(node.tag)].users \cup list)
       \/ /\ pc = "delete front"
          /\ SetUsers(Front(node.tag), inbounds[Front(node.tag)].users \ list)
    /\ Done
    /\ UNCHANGED <<scopes, controllerVars, faults, stuck>>

\* The layer that the call is at refuses, and the call ends there: after the
\* protocol's refusal the front is not told.
UsersFail ==
    /\ list # {}
    /\ LET x == IF pc \in {"add front", "delete front"} THEN Front(node.tag)
                ELSE Protocol(node.tag)
       IN \/ /\ pc \in {"add protocol", "add front"}
             /\ SetTable(x, inbounds[x].users \cup list)
          \/ /\ pc \in {"delete protocol", "delete front"}
             /\ SetTable(x, inbounds[x].users \ list)
    /\ Fault
    /\ pc' = "idle" /\ missed' = missed \cup list
    /\ UNCHANGED <<scopes, controllerVars, stuck>>

Next ==
    \/ Rebuild \/ Close \/ Edit
    \/ RemoveInbound("remove front", "front", "remove protocol")
    \/ RemoveInbound("remove protocol", "protocol", "build")
    \/ RemoveInbound("close front", "front", "close protocol")
    \/ RemoveInbound("close protocol", "protocol", "closed")
    \/ BuildFails \/ CreateProtocol \/ CreateFront \/ CreateFrontFails
    \/ StartProtocol \/ StartFront \/ StartFails
    \/ Undo("undo protocol", "protocol") \/ Undo("undo front", "front")
    \/ AddUsers \/ DelUsers \/ FrontUsers \/ UsersFail

Spec == Init /\ [][Next]_vars

-----------------------------------------------------------------------------
(***************************************************************************)
(* Properties                                                              *)
(***************************************************************************)

TypeOK ==
    /\ DOMAIN inbounds \subseteq Tags \X Layers
    /\ \A x \in DOMAIN inbounds : inbounds[x] \in Inbounds
    /\ scopes \subseteq DOMAIN inbounds
    /\ \A x \in DOMAIN inbounds : inbounds[x].started => x \in scopes
    /\ stuck \subseteq DOMAIN inbounds /\ missed \subseteq Users
    /\ node \in Configs /\ old \in Configs /\ list \in SUBSET Users
    /\ calls \in 0..MaxCalls /\ faults \in 0..MaxFaults
    /\ pc \in Resting \cup RemoveSteps \cup BuildSteps \cup UserSteps

Started(x) == x \in DOMAIN inbounds /\ inbounds[x].started

\* Does the public port of the tag accept connections?
Accepts(t) == Started(Front(t)) \/ (Started(Protocol(t)) /\ ~inbounds[Protocol(t)].inner)

\* A listening front always has its protocol running behind it: it never "would
\* accept connections and drop every one" (node.go:81).  Between calls a running
\* layer serves the users in its table, and the front those of the protocol
\* ("authenticates twice", manager.go:45), but for users whom a call named that
\* failed at some layer, and no call has since that got through all of them:
\* whoever else comes and goes, they alone may differ.  And no half-built node
\* lingers, neither after a failed rebuild nor after Close: an inbound is left
\* only of a node that is up, or because it would not stop.
ChainIsWhole ==
    /\ \A t \in Tags : Started(Front(t)) => Started(Protocol(t)) /\ inbounds[Protocol(t)].inner
    /\ pc \in Resting =>
         /\ \A x \in DOMAIN inbounds : Started(x) =>
              LET table == inbounds[Protocol(x[1])].users \ missed
              IN inbounds[x].users \ missed = table /\ inbounds[x].serves \ missed = table
         /\ \A x \in DOMAIN inbounds \ stuck :
              x[1] = node.tag /\ (Accepts(node.tag) \/ Front(node.tag) \in stuck)

\* The mapping: what the node is doing, whose port is open, who gets through it.
Doing ==
    CASE pc \in RemoveSteps -> "remove"
      [] pc \in BuildSteps -> "build"
      [] pc \in UserSteps -> "users"
      [] OTHER -> "none"

OpenTag == IF \E t \in Tags : Accepts(t) THEN CHOOSE t \in Tags : Accepts(t) ELSE "none"

Admitted(t) ==
    IF Started(Front(t))
      THEN IF Started(Protocol(t)) THEN inbounds[Front(t)].serves \cap inbounds[Protocol(t)].serves
           ELSE {}
      ELSE IF Accepts(t) THEN inbounds[Protocol(t)].serves ELSE {}

L == INSTANCE Listener WITH
        call <- Doing, open <- OpenTag, admits <- UNION {Admitted(t) : t \in Tags}

\* To its clients a chain is one listener: it opens once it can serve, admits
\* nobody by itself, and no rebuild or removal takes a user from an open port.
ImplementsListener == L!Spec
=============================================================================
