----------------------------- MODULE Chain_proofs -----------------------------
(***************************************************************************)
(* Proofs that the inbounds of a node (node/node.go, AddNode, RemoveNode,  *)
(* startInbounds, removeInbound) form a whole chain between calls and      *)
(* never a front without its protocol, for any tags and users and any      *)
(* number of changes and of inbounds that fail to build, start, stop or    *)
(* take users.                                                             *)
(***************************************************************************)
EXTENDS Chain, TLAPS

(***************************************************************************)
(* The inductive invariant.  ChainIsWhole speaks of the moments between    *)
(* calls; to get there the invariant says for every program counter which  *)
(* inbounds are registered that no removal failed on (Live), which of them *)
(* are started, and how far apart the two layers' users are.               *)
(***************************************************************************)
Live == DOMAIN inbounds \ stuck

Registry ==
    /\ DOMAIN inbounds \subseteq Tags \X Layers
    /\ \A x \in DOMAIN inbounds : inbounds[x] \in Inbounds
    /\ scopes \subseteq DOMAIN inbounds
    /\ \A x \in DOMAIN inbounds : inbounds[x].started => x \in scopes
    /\ stuck \subseteq DOMAIN inbounds
    /\ \A x \in stuck : ~inbounds[x].started

Control ==
    /\ node \in Configs /\ old \in Configs /\ list \in SUBSET Users
    /\ calls \in 0..MaxCalls /\ faults \in 0..MaxFaults
    /\ missed \subseteq Users

Backed == \A t \in Tags : Started(Front(t)) => Started(Protocol(t)) /\ inbounds[Protocol(t)].inner

\* The front's table is the protocol's, but for users a call has failed for.
Agree == \A t \in Tags :
            Started(Front(t)) =>
                inbounds[Front(t)].users \ missed = inbounds[Protocol(t)].users \ missed

\* What runs serves what its table has, but for such users.
Synced == \A x \in DOMAIN inbounds :
            Started(x) => inbounds[x].serves \ missed = inbounds[x].users \ missed

\* What is left of a node that is up, or of a removal that failed.
Settled ==
    /\ Live \subseteq Chain(node)
    /\ Live = {} \/ Accepts(node.tag) \/ Front(node.tag) \in stuck

Between == pc \in {"idle", "closed"} => Settled /\ Agree

RemovingFront == pc \in {"remove front", "close front"} => Live \subseteq Chain(old) /\ Agree

RemovingProtocol ==
    pc \in {"remove protocol", "close protocol"} =>
        Live \subseteq {Protocol(old.tag)} /\ Front(old.tag) \notin DOMAIN inbounds

\* A protocol that is about to be started, or was, with no user yet.
Fresh(x, started) ==
    /\ x \in Live /\ inbounds[x].started = started
    /\ inbounds[x].users = {} /\ inbounds[x].serves = {}

Building ==
    /\ pc = "build" => Live = {}
    /\ pc = "create front" =>
         /\ node.fronted /\ Live = {Protocol(node.tag)}
         /\ Fresh(Protocol(node.tag), FALSE) /\ inbounds[Protocol(node.tag)].inner
    /\ pc = "start protocol" =>
         /\ Live = Chain(node)
         /\ \A x \in Chain(node) : Fresh(x, FALSE)
         /\ inbounds[Protocol(node.tag)].inner = node.fronted
    /\ pc = "start front" =>
         /\ node.fronted /\ Live = Chain(node)
         /\ Fresh(Protocol(node.tag), TRUE) /\ inbounds[Protocol(node.tag)].inner
         /\ Fresh(Front(node.tag), FALSE)

Undoing ==
    /\ pc = "undo protocol" => Live \subseteq Chain(node) /\ ~Accepts(node.tag)
    /\ pc = "undo front" => Live \subseteq {Front(node.tag)} /\ ~Started(Front(node.tag))

Editing ==
    /\ pc \in {"add protocol", "delete protocol"} =>
         Settled /\ Agree /\ Protocol(node.tag) \in DOMAIN inbounds
    /\ pc \in {"add front", "delete front"} =>
         Settled /\ Front(node.tag) \in DOMAIN inbounds
    /\ pc \in {"add front", "delete front"} =>
         /\ inbounds[Protocol(node.tag)].serves = inbounds[Protocol(node.tag)].users
         /\ Started(Front(node.tag)) =>
              inbounds[Front(node.tag)].users \ (missed \cup list)
                = inbounds[Protocol(node.tag)].users \ (missed \cup list)
    /\ pc = "add front" => list \subseteq inbounds[Protocol(node.tag)].users
    /\ pc = "delete front" => list \cap inbounds[Protocol(node.tag)].users = {}

Placed == pc \in Resting \cup RemoveSteps \cup BuildSteps \cup UserSteps

IInv ==
    /\ Registry
    /\ Control
    /\ Backed
    /\ Synced
    /\ Between
    /\ RemovingFront
    /\ RemovingProtocol
    /\ Building
    /\ Undoing
    /\ Editing
-----------------------------------------------------------------------------
(***************************************************************************)
(* What a step of the node manager does to the registry                    *)
(***************************************************************************)
LEMMA LayersDiffer ==
  ASSUME NEW s, NEW t
  PROVE  /\ Front(s) # Protocol(t)
         /\ Front(s) = Front(t) => s = t
         /\ Protocol(s) = Protocol(t) => s = t
BY DEF Front, Protocol

LEMMA StartedIsLive ==
  ASSUME Registry, NEW x, Started(x)
  PROVE  x \in Live
BY DEF Registry, Started, Live

\* Stopping inbounds, and starting empty ones, disturbs no user.
LEMMA SyncedStays ==
  ASSUME Synced, missed' = missed,
         \A y : Started(y)' =>
            \/ /\ Started(y)
               /\ inbounds'[y].users = inbounds[y].users /\ inbounds'[y].serves = inbounds[y].serves
            \/ inbounds'[y].users = {} /\ inbounds'[y].serves = {}
  PROVE  Synced'
<1> SUFFICES ASSUME NEW y, Started(y)'
             PROVE  inbounds'[y].serves \ missed' = inbounds'[y].users \ missed'
  BY DEF Synced
<1>1. Started(y) => inbounds[y].serves \ missed = inbounds[y].users \ missed
  BY DEF Synced, Started
<1> QED
  BY <1>1

\* Splice takes one inbound out and leaves the others as they are.
LEMMA SpliceKeepsRegistry ==
  ASSUME Registry, NEW x \in Tags \X Layers, Splice(x)
  PROVE  /\ Registry'
         /\ Live' = Live \ {x}
         /\ DOMAIN inbounds' = DOMAIN inbounds \ {x}
         /\ \A y : Started(y)' <=> Started(y) /\ y # x
         /\ \A y \in DOMAIN inbounds' : inbounds'[y] = inbounds[y]
         /\ \A y \in stuck : y # x => y \in stuck'
<1>1. inbounds' = [y \in DOMAIN inbounds \ {x} |-> inbounds[y]]
  BY DEF Splice, Restrict
<1>2. stuck' = stuck \ {x} /\ scopes' = scopes \ {x}
  BY DEF Splice
<1> QED
  BY <1>1, <1>2 DEF Registry, Live, Started

\* An inbound that reports an error is stopped, and is not live any more.
LEMMA StopFailsKeepsRegistry ==
  ASSUME Registry, Control, NEW x \in Tags \X Layers, StopFails(x)
  PROVE  /\ Registry'
         /\ Live' = Live \ {x}
         /\ DOMAIN inbounds' = DOMAIN inbounds
         /\ \A y : Started(y)' <=> Started(y) /\ y # x
         /\ \A y \in DOMAIN inbounds : y # x => inbounds'[y] = inbounds[y]
         /\ stuck' = stuck \cup {x}
         /\ faults' \in 0..MaxFaults
<1>1. /\ inbounds' = [inbounds EXCEPT ![x].started = FALSE]
      /\ stuck' = stuck \cup {x} /\ scopes' = scopes \ {x}
      /\ x \in DOMAIN inbounds
  BY DEF StopFails
<1>2. /\ DOMAIN inbounds' = DOMAIN inbounds
      /\ inbounds'[x] = [inbounds[x] EXCEPT !.started = FALSE]
      /\ \A y \in DOMAIN inbounds : y # x => inbounds'[y] = inbounds[y]
  BY <1>1
<1>3. inbounds'[x] \in Inbounds /\ ~inbounds'[x].started
  BY <1>1, <1>2 DEF Registry, Inbounds
<1>4. faults' \in 0..MaxFaults
  BY BoundAssumption DEF StopFails, Fault, Control
<1> QED
  BY <1>1, <1>2, <1>3, <1>4 DEF Registry, Live, Started

\* Create registers an inbound that is not started.
LEMMA CreateKeepsRegistry ==
  ASSUME Registry, Control, NEW layer \in Layers, Create(layer)
  PROVE  LET x == <<node.tag, layer>> IN
         /\ Registry'
         /\ Live' = Live \cup {x}
         /\ DOMAIN inbounds' = DOMAIN inbounds \cup {x}
         /\ \A y \in DOMAIN inbounds : y # x => inbounds'[y] = inbounds[y]
         /\ ~inbounds'[x].started
         /\ inbounds'[x].users = {} /\ inbounds'[x].serves = {}
         /\ inbounds'[x].inner = (node.fronted /\ layer = "protocol")
         /\ \A y : Started(y)' <=> Started(y) /\ y # x
<1> DEFINE x == <<node.tag, layer>>
           new == [started |-> FALSE, users |-> {}, serves |-> {},
                   inner |-> node.fronted /\ layer = "protocol"]
<1>1. /\ inbounds' = [y \in DOMAIN inbounds \cup {x} |-> IF y # x THEN inbounds[y] ELSE new]
      /\ stuck' = stuck \ {x} /\ scopes' = scopes
  BY DEF Create
<1>2. x \in Tags \X Layers /\ new \in Inbounds
  BY DEF Control, Configs, Inbounds
<1>3. ~new.started /\ new.users = {} /\ new.serves = {} /\ new.inner = (node.fronted /\ layer = "protocol")
  OBVIOUS
<1> HIDE DEF x, new
<1>4. /\ DOMAIN inbounds' = DOMAIN inbounds \cup {x}
      /\ inbounds'[x] = new
      /\ \A y \in DOMAIN inbounds : y # x => inbounds'[y] = inbounds[y]
  BY <1>1
<1>5. Registry'
  BY <1>1, <1>2, <1>3, <1>4 DEF Registry
<1>6. Live' = Live \cup {x}
  BY <1>1, <1>4 DEF Live
<1>7. \A y : Started(y)' <=> Started(y) /\ y # x
  BY <1>3, <1>4 DEF Started
<1> QED
  BY <1>3, <1>4, <1>5, <1>6, <1>7 DEF x

\* Start starts an inbound that is registered and live.
LEMMA StartKeepsRegistry ==
  ASSUME Registry, NEW layer, NEW next, Start(layer, next), <<node.tag, layer>> \in Live
  PROVE  LET x == <<node.tag, layer>> IN
         /\ Registry'
         /\ Live' = Live
         /\ DOMAIN inbounds' = DOMAIN inbounds
         /\ \A y \in DOMAIN inbounds : y # x => inbounds'[y] = inbounds[y]
         /\ \A y \in DOMAIN inbounds :
              /\ inbounds'[y].users = inbounds[y].users /\ inbounds'[y].serves = inbounds[y].serves
              /\ inbounds'[y].inner = inbounds[y].inner
         /\ \A y : Started(y)' <=> Started(y) \/ y = x
<1> DEFINE x == <<node.tag, layer>>
<1>1. /\ inbounds' = [inbounds EXCEPT ![x].started = TRUE]
      /\ scopes' = scopes \cup {x} /\ stuck' = stuck
      /\ x \in DOMAIN inbounds /\ x \notin stuck
  BY DEF Start, Live
<1>2. /\ DOMAIN inbounds' = DOMAIN inbounds
      /\ inbounds'[x] = [inbounds[x] EXCEPT !.started = TRUE]
      /\ \A y \in DOMAIN inbounds : y # x => inbounds'[y] = inbounds[y]
  BY <1>1
<1>3. /\ inbounds'[x] \in Inbounds /\ inbounds'[x].started
      /\ inbounds'[x].users = inbounds[x].users /\ inbounds'[x].serves = inbounds[x].serves
      /\ inbounds'[x].inner = inbounds[x].inner
  BY <1>1, <1>2 DEF Registry, Inbounds
<1> HIDE DEF x
<1>4. Registry'
  BY <1>1, <1>2, <1>3 DEF Registry
<1>5. \A y : Started(y)' <=> Started(y) \/ y = x
  BY <1>1, <1>2, <1>3 DEF Started
<1>6. Live' = Live
  BY <1>1, <1>2 DEF Live
<1> QED
  BY <1>2, <1>3, <1>4, <1>5, <1>6 DEF x

\* A user call starts and stops nothing.
LEMMA SetUsersKeepsRegistry ==
  ASSUME Registry, NEW x \in DOMAIN inbounds, NEW us \in SUBSET Users,
         SetUsers(x, us) \/ SetTable(x, us), UNCHANGED <<scopes, stuck>>
  PROVE  /\ Registry'
         /\ Live' = Live
         /\ DOMAIN inbounds' = DOMAIN inbounds
         /\ inbounds'[x].users = us
         /\ SetUsers(x, us) => inbounds'[x].serves = us
         /\ SetTable(x, us) => inbounds'[x].serves = inbounds[x].serves
         /\ \A y \in DOMAIN inbounds : y # x => inbounds'[y] = inbounds[y]
         /\ \A y \in DOMAIN inbounds : inbounds'[y].inner = inbounds[y].inner
         /\ \A y : Started(y)' <=> Started(y)
<1>1. /\ DOMAIN inbounds' = DOMAIN inbounds
      /\ \A y \in DOMAIN inbounds : y # x => inbounds'[y] = inbounds[y]
      /\ \/ inbounds'[x] = [inbounds[x] EXCEPT !.users = us, !.serves = us]
         \/ inbounds'[x] = [inbounds[x] EXCEPT !.users = us]
  BY DEF SetUsers, SetTable
<1>2. inbounds[x] \in Inbounds
  BY DEF Registry
<1>3. /\ inbounds'[x] \in Inbounds /\ inbounds'[x].users = us
      /\ inbounds'[x].started = inbounds[x].started /\ inbounds'[x].inner = inbounds[x].inner
  BY <1>1, <1>2 DEF Inbounds
<1>4. Registry'
  BY <1>1, <1>3 DEF Registry
<1>5. \A y : Started(y)' <=> Started(y)
  BY <1>1, <1>3 DEF Started
<1>6. /\ SetUsers(x, us) => inbounds'[x].serves = us
      /\ SetTable(x, us) => inbounds'[x].serves = inbounds[x].serves
  BY <1>2 DEF SetUsers, SetTable, Inbounds
<1>7. Live' = Live
  BY <1>1 DEF Live
<1> QED
  BY <1>1, <1>3, <1>4, <1>5, <1>6, <1>7
-----------------------------------------------------------------------------
(***************************************************************************)
(* The invariant holds at the start and is kept by every action            *)
(***************************************************************************)
LEMMA TagsOfConfigs ==
  ASSUME NEW c \in Configs
  PROVE  /\ c.tag \in Tags /\ c.fronted \in BOOLEAN
         /\ Front(c.tag) \in Tags \X Layers /\ Protocol(c.tag) \in Tags \X Layers
         /\ Chain(c) = {Protocol(c.tag)} \cup (IF c.fronted THEN {Front(c.tag)} ELSE {})
         /\ <<c.tag, "front">> = Front(c.tag) /\ <<c.tag, "protocol">> = Protocol(c.tag)
BY DEF Configs, Chain, Front, Protocol, Layers

LEMMA InitIInv == Init => IInv
<1> SUFFICES ASSUME Init PROVE IInv
  OBVIOUS
<1>1. /\ node \in Configs /\ ~node.fronted /\ old = node /\ list \in SUBSET Users
      /\ inbounds = [x \in Chain(node) |-> [started |-> TRUE, inner |-> FALSE, users |-> list,
                                          serves |-> list]]
      /\ scopes = Chain(node) /\ stuck = {} /\ missed = {} /\ pc = "idle" /\ calls = 0 /\ faults = 0
  BY DEF Init
<1>2. Chain(node) = {Protocol(node.tag)} /\ Protocol(node.tag) \in Tags \X Layers
  BY <1>1, TagsOfConfigs
<1>3. /\ DOMAIN inbounds = {Protocol(node.tag)}
      /\ inbounds[Protocol(node.tag)] =
           [started |-> TRUE, inner |-> FALSE, users |-> list, serves |-> list]
  BY <1>1, <1>2
<1>4. Registry
  BY <1>1, <1>2, <1>3 DEF Registry, Inbounds
<1>5. Control
  BY <1>1, BoundAssumption DEF Control
<1>6. \A t : ~Started(Front(t))
  BY <1>3, LayersDiffer DEF Started
<1>7. Accepts(node.tag)
  BY <1>3 DEF Accepts, Started
<1>8. Settled /\ Backed /\ Agree /\ Synced
  BY <1>1, <1>2, <1>3, <1>6, <1>7 DEF Settled, Backed, Agree, Synced, Live
<1> QED
  BY <1>1, <1>4, <1>5, <1>8
     DEF IInv, Between, RemovingFront, RemovingProtocol, Building, Undoing, Editing

\* A call begins by going at the front.
LEMMA RebuildKeepsIInv ==
  ASSUME IInv, Rebuild \/ Close
  PROVE  IInv'
<1>1. /\ UNCHANGED <<inbounds, scopes, stuck, faults, missed>>
      /\ old' = node /\ pc' \in {"remove front", "close front"}
      /\ Settled /\ Agree
  BY DEF Rebuild, Close, IInv, Between
<1>2. Control'
  <2>1. CASE Rebuild
    <3>1. calls' \in 0..MaxCalls
      <4>1. calls < MaxCalls /\ calls' = calls + 1 /\ calls \in 0..MaxCalls
        BY <2>1 DEF Rebuild, IInv, Control
      <4> QED
        BY <4>1, BoundAssumption
    <3> QED
      BY <2>1, <3>1 DEF Rebuild, IInv, Control
  <2>2. CASE Close
    BY <2>2 DEF Close, IInv, Control
  <2> QED
    BY <2>1, <2>2
<1>3. Registry' /\ Backed' /\ Agree' /\ Synced' /\ Live' = Live
  BY <1>1 DEF IInv, Registry, Backed, Agree, Synced, Started, Live
<1>4. RemovingFront'
  <2>1. Chain(old') = Chain(node)
    BY <1>1
  <2> QED
    BY <1>1, <1>3, <2>1 DEF RemovingFront, Settled, Chain
<1> QED
  BY <1>1, <1>2, <1>3, <1>4
     DEF IInv, Between, RemovingProtocol, Building, Undoing, Editing

LEMMA RemoveFrontKeepsIInv ==
  ASSUME IInv, NEW label \in {"remove front", "close front"}, NEW next,
         RemoveInbound(label, "front", next),
         next \in {"remove protocol", "close protocol"}
  PROVE  IInv'
<1> DEFINE x == Front(old.tag)
<1>1. /\ pc = label /\ UNCHANGED <<old, list, calls, missed>>
      /\ \/ Splice(x) /\ pc' = next /\ UNCHANGED <<faults, node>>
         \/ StopFails(x) /\ node' = old /\ pc' \in {"closed", "idle"}
  BY DEF RemoveInbound, Front
<1>2. /\ x \in Tags \X Layers /\ old.tag \in Tags
      /\ Chain(old) = {Protocol(old.tag)} \cup (IF old.fronted THEN {x} ELSE {})
  BY TagsOfConfigs DEF IInv, Control
<1>3. Live \subseteq Chain(old) /\ Agree
  BY <1>1 DEF IInv, RemovingFront
<1>4. CASE Splice(x) /\ pc' = next /\ UNCHANGED <<faults, node>>
  <2>1. /\ Registry' /\ Live' = Live \ {x} /\ DOMAIN inbounds' = DOMAIN inbounds \ {x}
        /\ \A y : Started(y)' <=> Started(y) /\ y # x
        /\ \A y \in DOMAIN inbounds' : inbounds'[y] = inbounds[y]
    BY <1>2, <1>4, SpliceKeepsRegistry DEF IInv
  <2>0. Synced'
    BY <1>1, <2>1, SyncedStays DEF IInv, Started
  <2>2. Backed'
    <3> SUFFICES ASSUME NEW t \in Tags, Started(Front(t))'
                 PROVE  Started(Protocol(t))' /\ (inbounds[Protocol(t)].inner)'
      BY DEF Backed
    <3>1. Started(Protocol(t)) /\ inbounds[Protocol(t)].inner
      BY <2>1 DEF IInv, Backed
    <3>2. Protocol(t) \in DOMAIN inbounds'
      BY <2>1, <3>1, LayersDiffer DEF Started
    <3> QED
      BY <2>1, <3>1, <3>2, LayersDiffer
  <2>3. Control'
    BY <1>1, <1>4 DEF IInv, Control
  <2>4. RemovingProtocol'
    BY <1>1, <1>2, <1>3, <2>1 DEF RemovingProtocol, Front, Protocol
  <2> QED
    BY <1>1, <1>4, <2>0, <2>1, <2>2, <2>3, <2>4
       DEF IInv, Between, RemovingFront, Building, Undoing, Editing
<1>5. CASE StopFails(x) /\ node' = old /\ pc' \in {"closed", "idle"}
  <2>1. /\ Registry' /\ Live' = Live \ {x} /\ DOMAIN inbounds' = DOMAIN inbounds
        /\ \A y : Started(y)' <=> Started(y) /\ y # x
        /\ \A y \in DOMAIN inbounds : y # x => inbounds'[y] = inbounds[y]
        /\ stuck' = stuck \cup {x} /\ faults' \in 0..MaxFaults
    BY <1>2, <1>5, StopFailsKeepsRegistry DEF IInv
  <2>2. Backed' /\ Agree'
    BY <1>1, <1>2, <1>3, <2>1, LayersDiffer DEF IInv, Backed, Agree, Started
  <2>0. Synced'
    BY <1>1, <2>1, SyncedStays DEF IInv, Started
  <2>3. Control'
    BY <1>1, <1>5, <2>1 DEF IInv, Control
  <2>4. Settled'
    <3>1. Chain(node') = Chain(old) /\ node'.tag = old.tag
      BY <1>5
    <3> QED
      BY <1>3, <2>1, <3>1 DEF Settled, Chain, Front
  <2> QED
    BY <1>1, <1>5, <2>0, <2>1, <2>2, <2>3, <2>4
       DEF IInv, Between, RemovingFront, RemovingProtocol, Building, Undoing, Editing
<1> QED
  BY <1>1, <1>4, <1>5

LEMMA RemoveProtocolKeepsIInv ==
  ASSUME IInv, NEW label \in {"remove protocol", "close protocol"}, NEW next,
         RemoveInbound(label, "protocol", next), next \in {"build", "closed"}
  PROVE  IInv'
<1> DEFINE x == Protocol(old.tag)
<1>1. /\ pc = label /\ UNCHANGED <<old, list, calls, missed>>
      /\ \/ Splice(x) /\ pc' = next /\ UNCHANGED <<faults, node>>
         \/ StopFails(x) /\ node' = old /\ pc' \in {"closed", "idle"}
  BY DEF RemoveInbound, Protocol
<1>2. x \in Tags \X Layers /\ old.tag \in Tags
  BY TagsOfConfigs DEF IInv, Control
<1>3. Live \subseteq {x} /\ Front(old.tag) \notin DOMAIN inbounds
  BY <1>1 DEF IInv, RemovingProtocol
<1>4. \A t \in Tags : ~Started(Front(t))
  <2> SUFFICES ASSUME NEW t \in Tags, Started(Front(t)) PROVE FALSE
    OBVIOUS
  <2>1. Front(t) \in Live
    BY StartedIsLive DEF IInv
  <2> QED
    BY <1>3, <2>1, LayersDiffer
<1>5. /\ Registry' /\ Live' = {} /\ \A y : Started(y)' => Started(y)
      /\ faults' \in 0..MaxFaults
  BY <1>1, <1>2, <1>3, SpliceKeepsRegistry, StopFailsKeepsRegistry DEF IInv, Control
<1>9. Synced'
  <2>1. \A y : ~Started(y)'
    BY <1>5 DEF Registry, Started, Live
  <2> QED
    BY <2>1 DEF Synced
<1>6. Backed' /\ Agree'
  BY <1>4, <1>5 DEF Backed, Agree
<1>7. Control'
  BY <1>1, <1>5 DEF IInv, Control
<1>8. Settled'
  BY <1>5 DEF Settled
<1> QED
  BY <1>1, <1>5, <1>6, <1>7, <1>8, <1>9
     DEF IInv, Between, RemovingFront, RemovingProtocol, Building, Undoing, Editing
\* While the chain is built nothing is started, so nothing has to be backed.
LEMMA CreateKeepsIInv ==
  ASSUME IInv, CreateProtocol \/ CreateFront
  PROVE  IInv'
<1> DEFINE P == Protocol(node.tag)
           F == Front(node.tag)
<1>1. /\ node.tag \in Tags /\ node.fronted \in BOOLEAN /\ P # F
      /\ Chain(node) = {P} \cup (IF node.fronted THEN {F} ELSE {})
      /\ <<node.tag, "front">> = F /\ <<node.tag, "protocol">> = P
  BY TagsOfConfigs, LayersDiffer DEF IInv, Control
<1>2. UNCHANGED <<node, old, list, calls, faults>>
  BY DEF CreateProtocol, CreateFront, Create, controllerVars
<1>3. Control' /\ P' = P /\ F' = F /\ Chain(node') = Chain(node)
  BY <1>2 DEF IInv, Control, Front, Protocol, CreateProtocol, CreateFront
<1>4. CASE CreateProtocol
  <2>1. pc = "build" /\ pc' = IF node.fronted THEN "create front" ELSE "start protocol"
    BY <1>4 DEF CreateProtocol
  <2>2. Live = {}
    BY <2>1 DEF IInv, Building
  <2>3. /\ Registry' /\ Live' = Live \cup {P}
        /\ ~inbounds'[P].started /\ inbounds'[P].users = {} /\ inbounds'[P].serves = {}
        /\ inbounds'[P].inner = (node.fronted /\ "protocol" = "protocol")
        /\ \A y : Started(y)' <=> Started(y) /\ y # P
    BY <1>1, <1>4, CreateKeepsRegistry DEF IInv, CreateProtocol, Layers
  <2>4. \A y : ~Started(y)
    BY <2>2, StartedIsLive DEF IInv
  <2>5. Backed' /\ Synced'
    BY <2>3, <2>4 DEF Backed, Synced
  <2>6. Fresh(P, FALSE)' /\ inbounds'[P].inner = node.fronted
    BY <1>1, <1>3, <2>2, <2>3 DEF Fresh, Registry, Inbounds, Live
  <2>7. Live' = {P}
    BY <2>2, <2>3
  <2>8. Building'
    BY <1>1, <1>2, <1>3, <2>1, <2>6, <2>7 DEF Building
  <2> QED
    BY <1>3, <2>1, <2>3, <2>5, <2>8
       DEF IInv, Between, RemovingFront, RemovingProtocol, Undoing, Editing
<1>5. CASE CreateFront
  <2>1. pc = "create front" /\ pc' = "start protocol"
    BY <1>5 DEF CreateFront
  <2>2. node.fronted /\ Live = {P} /\ Fresh(P, FALSE) /\ inbounds[P].inner
    BY <2>1 DEF IInv, Building
  <2>3. /\ Registry' /\ Live' = Live \cup {F}
        /\ \A y \in DOMAIN inbounds : y # F => inbounds'[y] = inbounds[y]
        /\ ~inbounds'[F].started /\ inbounds'[F].users = {} /\ inbounds'[F].serves = {}
        /\ \A y : Started(y)' <=> Started(y) /\ y # F
    BY <1>1, <1>5, CreateKeepsRegistry DEF IInv, CreateFront, Layers
  <2>4. \A y : ~Started(y)
    <3>1. ~Started(P)
      BY <2>2 DEF Fresh, Started
    <3> QED
      BY <2>2, <3>1, StartedIsLive DEF IInv
  <2>5. Backed' /\ Synced'
    BY <2>3, <2>4 DEF Backed, Synced
  <2>6. P \in DOMAIN inbounds /\ P \in Live'
    BY <2>2, <2>3 DEF Live
  <2>7. Fresh(P, FALSE)' /\ inbounds'[P].inner = node.fronted
    BY <1>1, <1>3, <2>2, <2>3, <2>6 DEF Fresh
  <2>8. Fresh(F, FALSE)'
    <3>1. inbounds'[F].started = FALSE
      BY <2>3 DEF Registry, Inbounds, Live
    <3> QED
      BY <1>3, <2>3, <3>1 DEF Fresh
  <2>9. Building'
    BY <1>1, <1>2, <1>3, <2>1, <2>2, <2>3, <2>7, <2>8 DEF Building
  <2> QED
    BY <1>3, <2>1, <2>3, <2>5, <2>9
       DEF IInv, Between, RemovingFront, RemovingProtocol, Undoing, Editing
<1> QED
  BY <1>4, <1>5

\* Starting the last inbound of the chain opens it; the front comes after the
\* protocol it hands connections to.
LEMMA StartKeepsIInv ==
  ASSUME IInv, StartProtocol \/ StartFront
  PROVE  IInv'
<1> DEFINE P == Protocol(node.tag)
           F == Front(node.tag)
<1>1. /\ node.tag \in Tags /\ node.fronted \in BOOLEAN /\ P # F
      /\ Chain(node) = {P} \cup (IF node.fronted THEN {F} ELSE {})
      /\ <<node.tag, "front">> = F /\ <<node.tag, "protocol">> = P
  BY TagsOfConfigs, LayersDiffer DEF IInv, Control
<1>2. UNCHANGED <<node, old, list, calls, faults, stuck, missed>>
  BY DEF StartProtocol, StartFront, Start, controllerVars
<1>3. Control' /\ P' = P /\ F' = F /\ Chain(node') = Chain(node)
  BY <1>2 DEF IInv, Control, Front, Protocol
<1>4. CASE StartProtocol
  <2>1. pc = "start protocol" /\ pc' = IF node.fronted THEN "start front" ELSE "add protocol"
    BY <1>4 DEF StartProtocol, Start
  <2>2. /\ Live = Chain(node) /\ inbounds[P].inner = node.fronted
        /\ \A x \in Chain(node) : Fresh(x, FALSE)
    BY <2>1 DEF IInv, Building
  <2>3. P \in Live /\ P \in DOMAIN inbounds
    BY <1>1, <2>2 DEF Live
  <2>4. /\ Registry' /\ Live' = Live /\ DOMAIN inbounds' = DOMAIN inbounds
        /\ \A y \in DOMAIN inbounds : y # P => inbounds'[y] = inbounds[y]
        /\ \A y \in DOMAIN inbounds :
             /\ inbounds'[y].users = inbounds[y].users /\ inbounds'[y].serves = inbounds[y].serves
             /\ inbounds'[y].inner = inbounds[y].inner
        /\ \A y : Started(y)' <=> Started(y) \/ y = P
    BY <1>1, <1>4, <2>3, StartKeepsRegistry DEF IInv, StartProtocol
  <2>5. \A t \in Tags : ~Started(Front(t))'
    <3> SUFFICES ASSUME NEW t \in Tags, Started(Front(t)) PROVE FALSE
      BY <2>4, LayersDiffer
    <3>1. Front(t) \in Chain(node)
      BY <2>2, StartedIsLive DEF IInv
    <3> QED
      BY <2>2, <3>1 DEF Fresh, Started
  <2>6. Backed' /\ Agree' /\ Synced'
    <3>1. \A y : Started(y)' => /\ Started(y) \/ (inbounds[y].users = {} /\ inbounds[y].serves = {})
                                /\ y \in DOMAIN inbounds
      BY <1>1, <2>2, <2>3, <2>4 DEF Fresh, Started
    <3>2. Synced'
      BY <1>2, <2>4, <3>1, SyncedStays DEF IInv
    <3> QED
      BY <2>5, <3>2 DEF Backed, Agree
  <2>7. CASE node.fronted
    <3>1. F \in Live /\ F \in DOMAIN inbounds
      BY <1>1, <2>2, <2>7 DEF Live
    <3>2. Fresh(F, FALSE)' /\ Fresh(P, TRUE)' /\ inbounds'[P].inner
      <4>1. inbounds'[P].started = TRUE
        BY <2>3, <2>4 DEF Started, Registry, Inbounds
      <4>2. Fresh(P, FALSE) /\ Fresh(F, FALSE) /\ inbounds[P].inner
        BY <1>1, <2>2, <2>7
      <4>3. /\ inbounds'[P].users = {} /\ inbounds'[P].serves = {} /\ inbounds'[P].inner
            /\ inbounds'[F] = inbounds[F] /\ F \in Live' /\ P \in Live'
        BY <1>1, <2>3, <2>4, <3>1, <4>2 DEF Fresh
      <4>4. Fresh(F, FALSE)'
        BY <1>3, <4>2, <4>3 DEF Fresh
      <4>5. Fresh(P, TRUE)'
        BY <1>3, <4>1, <4>3 DEF Fresh
      <4> QED
        BY <4>3, <4>4, <4>5
    <3>3. Building'
      BY <1>1, <1>2, <1>3, <2>1, <2>2, <2>4, <2>7, <3>2 DEF Building
    <3> QED
      BY <1>3, <2>1, <2>4, <2>6, <2>7, <3>3
         DEF IInv, Between, RemovingFront, RemovingProtocol, Undoing, Editing
  <2>8. CASE ~node.fronted
    <3>1. Accepts(node.tag)'
      <4>1. Started(P)' /\ ~inbounds'[P].inner
        BY <1>3, <2>2, <2>3, <2>4, <2>8
      <4> QED
        BY <1>2, <1>3, <4>1 DEF Accepts
    <3>2. Settled'
      BY <1>3, <2>2, <2>4, <3>1 DEF Settled
    <3>3. Editing'
      BY <1>3, <2>1, <2>3, <2>4, <2>6, <2>8, <3>2 DEF Editing
    <3> QED
      BY <1>3, <2>1, <2>4, <2>6, <2>8, <3>3
         DEF IInv, Between, RemovingFront, RemovingProtocol, Building, Undoing
  <2> QED
    BY <1>1, <2>7, <2>8
<1>5. CASE StartFront
  <2>1. pc = "start front" /\ pc' = "add protocol"
    BY <1>5 DEF StartFront, Start
  <2>2. /\ node.fronted /\ Live = Chain(node)
        /\ Fresh(P, TRUE) /\ inbounds[P].inner /\ Fresh(F, FALSE)
    BY <2>1 DEF IInv, Building
  <2>3. F \in Live /\ F \in DOMAIN inbounds /\ P \in DOMAIN inbounds
    BY <1>1, <2>2 DEF Live
  <2>4. /\ Registry' /\ Live' = Live /\ DOMAIN inbounds' = DOMAIN inbounds
        /\ \A y \in DOMAIN inbounds :
             /\ inbounds'[y].users = inbounds[y].users /\ inbounds'[y].serves = inbounds[y].serves
             /\ inbounds'[y].inner = inbounds[y].inner
        /\ \A y : Started(y)' <=> Started(y) \/ y = F
    BY <1>1, <1>5, <2>3, StartKeepsRegistry DEF IInv, StartFront
  <2>5. Started(P)' /\ inbounds'[P].inner
        /\ inbounds'[F].users = {} /\ inbounds'[P].users = {}
        /\ inbounds'[F].serves = {}
    <3>1. Started(P)
      BY <2>2 DEF Fresh, Started, Live
    <3> QED
      BY <1>3, <2>2, <2>3, <2>4, <3>1 DEF Fresh
  <2>6. ASSUME NEW t \in Tags, Started(Front(t))' PROVE t = node.tag
    <3>1. Front(t) \in Live
      BY <2>3, <2>4, <2>6, StartedIsLive DEF IInv
    <3> QED
      BY <1>1, <2>2, <3>1, LayersDiffer
  <2>10. Synced'
    <3>1. \A y : Started(y)' => y \in DOMAIN inbounds /\ (Started(y) \/ y = F)
      BY <2>3, <2>4 DEF Started
    <3> QED
      BY <1>2, <2>4, <2>5, <3>1, SyncedStays DEF IInv
  <2>7. Backed' /\ Agree'
    <3> SUFFICES ASSUME NEW t \in Tags, Started(Front(t))'
                 PROVE  /\ Started(Protocol(t))' /\ inbounds'[Protocol(t)].inner
                        /\ inbounds'[Front(t)].users = inbounds'[Protocol(t)].users
      BY DEF Backed, Agree, Front, Protocol
    <3>1. t = node.tag
      BY <2>6
    <3> QED
      BY <1>3, <2>5, <3>1
  <2>8. Settled'
    <3>1. Accepts(node.tag)'
      BY <1>2, <1>3, <2>4 DEF Accepts
    <3> QED
      BY <1>3, <2>2, <2>4, <3>1 DEF Settled
  <2>9. Editing'
    BY <1>3, <2>1, <2>3, <2>4, <2>7, <2>8 DEF Editing
  <2> QED
    BY <1>3, <2>1, <2>4, <2>7, <2>9, <2>10
       DEF IInv, Between, RemovingFront, RemovingProtocol, Building, Undoing
<1> QED
  BY <1>4, <1>5
\* A chain that fails is given up with nothing live, or rolled back from its
\* protocol on while its front is not started.
LEMMA FailKeepsIInv ==
  ASSUME IInv, BuildFails \/ CreateFrontFails \/ StartFails
  PROVE  IInv'
<1> DEFINE P == Protocol(node.tag)
           F == Front(node.tag)
<1>1. /\ node.tag \in Tags /\ node.fronted \in BOOLEAN /\ P # F
      /\ Chain(node) = {P} \cup (IF node.fronted THEN {F} ELSE {})
      /\ <<node.tag, "front">> = F /\ <<node.tag, "protocol">> = P
  BY TagsOfConfigs, LayersDiffer DEF IInv, Control
<1>2. faults' \in 0..MaxFaults /\ UNCHANGED <<inbounds, stuck, old, list, calls, missed>>
  <2>1. faults < MaxFaults /\ faults' = faults + 1 /\ faults \in 0..MaxFaults
    BY DEF BuildFails, CreateFrontFails, StartFails, Fault, IInv, Control
  <2>2. UNCHANGED <<inbounds, stuck, old, list, calls, missed>>
    BY DEF BuildFails, CreateFrontFails, StartFails, controllerVars
  <2> QED
    BY <2>1, <2>2, BoundAssumption
<1>3. Backed' /\ Synced' /\ Live' = Live /\ \A y : Started(y)' <=> Started(y)
  BY <1>2 DEF IInv, Backed, Synced, Live, Started
<1>4. CASE BuildFails
  <2>1. pc = "build" /\ pc' = "idle" /\ node' = old /\ scopes' = scopes
    BY <1>4 DEF BuildFails, GiveUp
  <2>2. Live = {}
    BY <2>1 DEF IInv, Building
  <2>3. Registry' /\ Control'
    BY <1>2, <2>1 DEF IInv, Registry, Control
  <2>4. \A y : ~Started(y)'
    BY <1>3, <2>2, StartedIsLive DEF IInv
  <2>5. Settled' /\ Agree'
    BY <1>3, <2>2, <2>4 DEF Settled, Agree
  <2> QED
    BY <1>3, <2>1, <2>3, <2>5
       DEF IInv, Between, RemovingFront, RemovingProtocol, Building, Undoing, Editing
<1>5. CASE CreateFrontFails \/ StartFails
  <2>1. /\ pc \in {"create front", "start protocol", "start front"}
        /\ pc' = "undo protocol" /\ node' = node
    BY <1>5 DEF CreateFrontFails, StartFails, controllerVars
  <2>2. Live \subseteq Chain(node) /\ ~Accepts(node.tag)
    <3>1. CASE pc = "create front"
      <4>1. Live = {P} /\ Fresh(P, FALSE)
        BY <3>1 DEF IInv, Building
      <4>2. ~Started(P) /\ ~Started(F)
        BY <1>1, <4>1, StartedIsLive DEF IInv, Fresh, Started
      <4> QED
        BY <1>1, <4>1, <4>2 DEF Accepts
    <3>2. CASE pc = "start protocol"
      <4>1. Live = Chain(node) /\ \A x \in Chain(node) : Fresh(x, FALSE)
        BY <3>2 DEF IInv, Building
      <4>2. ~Started(P) /\ ~Started(F)
        BY <4>1, StartedIsLive DEF IInv, Fresh, Started
      <4> QED
        BY <4>1, <4>2 DEF Accepts
    <3>3. CASE pc = "start front"
      <4>1. Live = Chain(node) /\ Fresh(F, FALSE) /\ inbounds[P].inner
        BY <3>3 DEF IInv, Building
      <4> QED
        BY <4>1 DEF Fresh, Started, Accepts
    <3> QED
      BY <2>1, <3>1, <3>2, <3>3
  <2>3. Control'
    BY <1>2, <2>1 DEF IInv, Control
  <2>4. Registry'
    <3>1. CASE CreateFrontFails
      BY <1>2, <3>1 DEF CreateFrontFails, IInv, Registry
    <3>2. CASE StartFails
      <4>1. (pc = "start front" => F \in DOMAIN inbounds) /\ (pc = "start protocol" => P \in DOMAIN inbounds)
        BY <1>1 DEF IInv, Building, Live, Fresh
      <4>2. scopes' \subseteq scopes \cup {F, P} /\ scopes \subseteq scopes' /\ scopes' \subseteq DOMAIN inbounds
        BY <1>1, <3>2, <4>1 DEF StartFails, IInv, Registry
      <4> QED
        BY <1>2, <4>2 DEF IInv, Registry
    <3> QED
      BY <1>5, <3>1, <3>2
  <2>5. Undoing'
    <3>1. Accepts(node.tag)' <=> Accepts(node.tag)
      BY <1>2, <2>1 DEF Accepts, Started, Front, Protocol
    <3>2. Chain(node') = Chain(node)
      BY <2>1
    <3> QED
      BY <1>3, <2>1, <2>2, <3>1, <3>2 DEF Undoing, Chain
  <2> QED
    BY <1>3, <2>1, <2>3, <2>4, <2>5
       DEF IInv, Between, RemovingFront, RemovingProtocol, Building, Editing
<1> QED
  BY <1>4, <1>5

\* The roll-back takes the protocol, then the front; a front is never started
\* while it runs.
LEMMA UndoKeepsIInv ==
  ASSUME IInv,
         Undo("undo protocol", "protocol") \/ Undo("undo front", "front")
  PROVE  IInv'
<1> DEFINE P == Protocol(node.tag)
           F == Front(node.tag)
           x == IF pc = "undo protocol" THEN P ELSE F
           more == pc = "undo protocol" /\ F \in DOMAIN inbounds /\ node.fronted
<1>1. /\ node.tag \in Tags /\ node.fronted \in BOOLEAN /\ P # F
      /\ Chain(node) = {P} \cup (IF node.fronted THEN {F} ELSE {})
      /\ <<node.tag, "front">> = F /\ <<node.tag, "protocol">> = P
      /\ x \in Tags \X Layers
  BY TagsOfConfigs, LayersDiffer DEF IInv, Control
<1>2. /\ pc \in {"undo protocol", "undo front"}
      /\ (Splice(x) /\ UNCHANGED faults) \/ StopFails(x)
      /\ IF more THEN pc' = "undo front" /\ UNCHANGED node ELSE pc' = "idle" /\ node' = old
      /\ UNCHANGED <<old, list, calls, missed>>
  <2>1. CASE Undo("undo protocol", "protocol")
    BY <1>1, <2>1 DEF Undo, GiveUp
  <2>2. CASE Undo("undo front", "front")
    BY <1>1, <2>2 DEF Undo, GiveUp
  <2> QED
    BY <2>1, <2>2
<1>3. /\ Live \subseteq {P, F} /\ ~Started(F)
      /\ pc = "undo protocol" => Live \subseteq Chain(node)
      /\ pc = "undo front" => Live \subseteq {F}
  BY <1>1, <1>2 DEF IInv, Undoing, Accepts
<1>4. \A t \in Tags : ~Started(Front(t))
  <2> SUFFICES ASSUME NEW t \in Tags, Started(Front(t)) PROVE FALSE
    OBVIOUS
  <2>1. Front(t) \in {P, F}
    BY <1>3, StartedIsLive DEF IInv
  <2> QED
    BY <1>3, <2>1, LayersDiffer
<1> HIDE DEF x
<1>5. /\ Registry' /\ Live' = Live \ {x} /\ faults' \in 0..MaxFaults
      /\ \A y : Started(y)' => Started(y) /\ inbounds'[y] = inbounds[y]
  <2>1. CASE Splice(x) /\ UNCHANGED faults
    <3>1. /\ Registry' /\ Live' = Live \ {x}
          /\ \A y : Started(y)' <=> Started(y) /\ y # x
          /\ \A y \in DOMAIN inbounds' : inbounds'[y] = inbounds[y]
      BY <1>1, <2>1, SpliceKeepsRegistry DEF IInv
    <3>2. \A y : Started(y)' => y \in DOMAIN inbounds'
      BY DEF Started
    <3>3. faults' \in 0..MaxFaults
      BY <2>1 DEF IInv, Control
    <3> QED
      BY <3>1, <3>2, <3>3
  <2>2. CASE StopFails(x)
    <3>1. /\ Registry' /\ Live' = Live \ {x} /\ faults' \in 0..MaxFaults
          /\ \A y : Started(y)' <=> Started(y) /\ y # x
          /\ \A y \in DOMAIN inbounds : y # x => inbounds'[y] = inbounds[y]
      BY <1>1, <2>2, StopFailsKeepsRegistry DEF IInv
    <3>2. \A y : Started(y) => y \in DOMAIN inbounds
      BY DEF Started
    <3> QED
      BY <3>1, <3>2
  <2> QED
    BY <1>2, <2>1, <2>2
<1>6. \A t \in Tags : ~Started(Front(t))'
  BY <1>4, <1>5
<1>7. Backed' /\ Agree' /\ Control' /\ Synced'
  <2>1. Synced'
    BY <1>2, <1>5, SyncedStays DEF IInv
  <2> QED
    BY <1>2, <1>5, <1>6, <2>1 DEF Backed, Agree, IInv, Control
<1>8. CASE more
  <2>1. pc' = "undo front" /\ node' = node
    BY <1>2, <1>8
  <2>2. Live' \subseteq {F} /\ F' = F
    BY <1>1, <1>3, <1>5, <1>8, <2>1 DEF x, Front
  <2>3. Undoing'
    BY <1>1, <1>6, <2>1, <2>2 DEF Undoing
  <2> QED
    BY <1>5, <1>7, <2>1, <2>3
       DEF IInv, Between, RemovingFront, RemovingProtocol, Building, Editing
<1>9. CASE ~more
  <2>1. Live' = {}
    <3>1. CASE pc = "undo front"
      BY <1>3, <1>5, <3>1 DEF x
    <3>2. CASE pc = "undo protocol"
      BY <1>1, <1>3, <1>5, <1>9, <3>2 DEF x, Live
    <3> QED
      BY <1>2, <3>1, <3>2
  <2>2. Settled'
    BY <2>1 DEF Settled
  <2> QED
    BY <1>2, <1>5, <1>7, <1>9, <2>2
       DEF IInv, Between, RemovingFront, RemovingProtocol, Building, Undoing, Editing
<1> QED
  BY <1>8, <1>9
\* A change of users from the panel begins.
LEMMA EditKeepsIInv ==
  ASSUME IInv, Edit
  PROVE  IInv'
<1>1. /\ UNCHANGED <<inbounds, node, old, faults, stuck, scopes, missed>>
      /\ pc = "idle" /\ pc' \in {"add protocol", "delete protocol"}
      /\ list' \in SUBSET Users /\ calls < MaxCalls /\ calls' = calls + 1
      /\ Protocol(node.tag) \in DOMAIN inbounds
  BY DEF Edit
<1>2. Settled /\ Agree
  BY <1>1 DEF IInv, Between
<1>3. Front(node.tag)' = Front(node.tag) /\ Protocol(node.tag)' = Protocol(node.tag)
      /\ Chain(node') = Chain(node)
  BY <1>1 DEF Front, Protocol
<1>4. Settled' /\ Agree' /\ Synced' /\ Backed' /\ Registry'
  BY <1>1, <1>2, <1>3
     DEF Settled, Agree, Synced, IInv, Backed, Registry, Live, Accepts, Started
<1>5. calls' \in 0..MaxCalls
  <2>1. calls \in 0..MaxCalls
    BY DEF IInv, Control
  <2>2. calls < MaxCalls /\ calls' = calls + 1
    BY <1>1
  <2> QED
    BY <2>1, <2>2, BoundAssumption
<1>6. Control'
  BY <1>1, <1>5 DEF IInv, Control
<1>7. Editing'
  BY <1>1, <1>3, <1>4 DEF Editing
<1> QED
  BY <1>1, <1>4, <1>6, <1>7
     DEF IInv, Between, RemovingFront, RemovingProtocol, Building, Undoing

\* The inbound a user call is at, and what its table becomes.
Called == IF pc \in {"add protocol", "delete protocol"} THEN Protocol(node.tag) ELSE Front(node.tag)
Edited == IF pc \in {"add protocol", "add front"}
          THEN inbounds[Called].users \cup list ELSE inbounds[Called].users \ list

LEMMA UserStepIs ==
  ASSUME IInv, AddUsers \/ DelUsers \/ FrontUsers \/ UsersFail
  PROVE  /\ pc \in UserSteps /\ pc' \in UserSteps \cup Resting
         /\ UNCHANGED <<node, old, list, calls, scopes, stuck>>
         /\ faults' \in 0..MaxFaults /\ missed' \subseteq Users
         /\ SetUsers(Called, Edited) \/ SetTable(Called, Edited)
         /\ UsersFail \/ SetUsers(Called, Edited)
         /\ Settled /\ Called \in DOMAIN inbounds /\ Edited \in SUBSET Users
<1> USE DEF UserSteps, Resting
<1>1. /\ pc \in UserSteps /\ pc' \in UserSteps \cup Resting
      /\ UNCHANGED <<node, old, list, calls, scopes, stuck>>
  BY DEF AddUsers, DelUsers, FrontUsers, UsersFail, Done, controllerVars
<1>2. UsersFail => SetTable(Called, Edited)
  BY DEF UsersFail, Called, Edited
<1>3. AddUsers \/ DelUsers \/ FrontUsers => SetUsers(Called, Edited)
  BY DEF AddUsers, DelUsers, FrontUsers, Called, Edited
<1>4. Settled /\ Called \in DOMAIN inbounds
  BY <1>1 DEF IInv, Editing, Called
<1>5. Edited \in SUBSET Users
  <2>1. inbounds[Called] \in Inbounds /\ list \subseteq Users
    BY <1>4 DEF IInv, Registry, Control
  <2> QED
    BY <2>1 DEF Edited, Inbounds
<1>6. missed' \subseteq Users
  BY DEF AddUsers, DelUsers, FrontUsers, UsersFail, Done, IInv, Control
<1>7. faults' \in 0..MaxFaults
  <2>1. faults' = faults \/ (faults < MaxFaults /\ faults' = faults + 1)
    BY DEF AddUsers, DelUsers, FrontUsers, UsersFail, Fault
  <2>2. faults \in 0..MaxFaults
    BY DEF IInv, Control
  <2> QED
    BY <2>1, <2>2, BoundAssumption
<1> QED
  BY <1>1, <1>2, <1>3, <1>4, <1>5, <1>6, <1>7

LEMMA UserStepKeeps ==
  ASSUME IInv, AddUsers \/ DelUsers \/ FrontUsers \/ UsersFail
  PROVE  /\ Registry' /\ Control' /\ Backed' /\ Settled'
         /\ Live' = Live /\ DOMAIN inbounds' = DOMAIN inbounds
         /\ inbounds'[Called].users = Edited
         /\ ~UsersFail => inbounds'[Called].serves = Edited
         /\ inbounds'[Called].serves \in {Edited, inbounds[Called].serves}
         /\ \A y \in DOMAIN inbounds : y # Called => inbounds'[y] = inbounds[y]
         /\ \A y : Started(y)' <=> Started(y)
         /\ \A y : Started(y) => \/ y = Protocol(node.tag)
                                 \/ y = Front(node.tag) /\ node.fronted
<1> DEFINE P == Protocol(node.tag)
           F == Front(node.tag)
<1>1. /\ node.tag \in Tags /\ node.fronted \in BOOLEAN /\ P # F
      /\ Chain(node) = {P} \cup (IF node.fronted THEN {F} ELSE {})
  BY TagsOfConfigs, LayersDiffer DEF IInv, Control
<1>2. /\ UNCHANGED <<node, old, list, calls, scopes, stuck>>
      /\ faults' \in 0..MaxFaults /\ missed' \subseteq Users
      /\ Settled
  BY UserStepIs
<1>3. P' = P /\ F' = F /\ Chain(node') = Chain(node)
  BY <1>2 DEF Front, Protocol
<1>4. /\ Registry' /\ Live' = Live /\ DOMAIN inbounds' = DOMAIN inbounds
      /\ inbounds'[Called].users = Edited
      /\ SetUsers(Called, Edited) => inbounds'[Called].serves = Edited
      /\ SetTable(Called, Edited) => inbounds'[Called].serves = inbounds[Called].serves
      /\ \A y \in DOMAIN inbounds : y # Called => inbounds'[y] = inbounds[y]
      /\ \A y \in DOMAIN inbounds : inbounds'[y].inner = inbounds[y].inner
      /\ \A y : Started(y)' <=> Started(y)
  BY UserStepIs, SetUsersKeepsRegistry DEF IInv
<1>5. Control'
  BY <1>2 DEF IInv, Control
<1>6. Backed'
  <2> SUFFICES ASSUME NEW t \in Tags, Started(Front(t))'
               PROVE  Started(Protocol(t))' /\ inbounds'[Protocol(t)].inner
    BY DEF Backed, Protocol
  <2>1. Started(Protocol(t)) /\ inbounds[Protocol(t)].inner
    BY <1>4 DEF IInv, Backed
  <2> QED
    BY <1>4, <2>1 DEF Started
<1>7. Settled'
  <2>1. Accepts(node.tag)' <=> Accepts(node.tag)
    <3>1. Started(P)' <=> Started(P)
      BY <1>3, <1>4
    <3>2. Started(F)' <=> Started(F)
      BY <1>3, <1>4
    <3>3. Started(P) => inbounds'[P].inner = inbounds[P].inner
      BY <1>4 DEF Started
    <3> QED
      BY <1>2, <1>3, <3>1, <3>2, <3>3 DEF Accepts
  <2>2. Front(node.tag)' = Front(node.tag)
    BY <1>3
  <2> QED
    BY <1>2, <1>3, <1>4, <2>1, <2>2 DEF Settled
<1>8. \A y : Started(y) => y = P \/ (y = F /\ node.fronted)
  BY <1>1, <1>2, StartedIsLive DEF Settled, IInv
<1>9. ~UsersFail => SetUsers(Called, Edited)
  BY UserStepIs
<1>10. SetUsers(Called, Edited) \/ SetTable(Called, Edited)
  BY UserStepIs
<1> HIDE DEF P, F
<1> QED
  BY <1>4, <1>5, <1>6, <1>7, <1>8, <1>9, <1>10 DEF P, F

\* Users are added and deleted at both layers, the protocol first, and agree
\* again when the call is over.
LEMMA UsersKeepIInv ==
  ASSUME IInv, AddUsers \/ DelUsers \/ FrontUsers, ~UsersFail
  PROVE  IInv'
<1> DEFINE P == Protocol(node.tag)
           F == Front(node.tag)
<1>1. P # F
  BY LayersDiffer
<1>2. UNCHANGED <<node, list>> /\ P' = P /\ F' = F
  BY UserStepIs DEF Front, Protocol
<1>3. /\ Registry' /\ Control' /\ Backed' /\ Settled'
      /\ DOMAIN inbounds' = DOMAIN inbounds
      /\ inbounds'[Called].users = Edited /\ inbounds'[Called].serves = Edited
      /\ \A y \in DOMAIN inbounds : y # Called => inbounds'[y] = inbounds[y]
      /\ \A y : Started(y)' <=> Started(y)
      /\ \A y : Started(y) => y = P \/ (y = F /\ node.fronted)
  BY UserStepKeeps
<1>4. \A t \in Tags : Started(Front(t)) => t = node.tag /\ node.fronted
  BY <1>3, LayersDiffer
<1>5. CASE AddUsers \/ DelUsers
  <2>1. /\ pc \in {"add protocol", "delete protocol"} /\ Called = P
        /\ pc' \in {"idle", "add front", "delete front"}
        /\ pc' = "add front" => pc = "add protocol"
        /\ pc' = "delete front" => pc = "delete protocol"
        /\ pc' # "idle" => F \in DOMAIN inbounds /\ missed' = missed
        /\ pc' = "idle" => missed' = missed \ list /\ ~(node.fronted /\ F \in DOMAIN inbounds)
    BY <1>5 DEF AddUsers, DelUsers, Done, Called
  <2>2. Agree /\ P \in DOMAIN inbounds
    BY <2>1 DEF IInv, Editing
  <2>3. /\ pc = "add protocol" => list \subseteq Edited
        /\ pc = "delete protocol" => list \cap Edited = {}
        /\ Edited \ list = inbounds[P].users \ list
    BY <2>1 DEF Edited
  <2>4. CASE pc' = "idle"
    <3>1. \A t \in Tags : ~Started(Front(t))'
      BY <1>3, <1>4, <2>1, <2>4 DEF Started
    <3>2. Agree'
      BY <3>1 DEF Agree
    <3>3. ~Started(F) \/ ~node.fronted
      BY <2>1, <2>4 DEF Started
    <3>4. Synced'
      BY <1>3, <2>1, <3>3 DEF Synced
    <3> QED
      BY <1>3, <2>4, <3>2, <3>4
         DEF IInv, Between, RemovingFront, RemovingProtocol, Building, Undoing, Editing
  <2>5. CASE pc' # "idle"
    <3>1. inbounds'[F] = inbounds[F] /\ missed' = missed
      BY <1>1, <1>3, <2>1, <2>5
    <3>2. Synced'
      <4> SUFFICES ASSUME NEW y \in DOMAIN inbounds, Started(y)
                   PROVE  inbounds'[y].serves \ missed' = inbounds'[y].users \ missed'
        BY <1>3 DEF Synced
      <4>1. inbounds[y].serves \ missed = inbounds[y].users \ missed
        BY DEF IInv, Synced
      <4> QED
        BY <1>3, <2>1, <3>1, <4>1
    <3>3. Started(F) => inbounds[F].users \ missed = inbounds[P].users \ missed
      BY <1>4, <2>2, TagsOfConfigs DEF Agree, IInv, Control
    <3>4. Started(F) => inbounds'[F].users \ (missed' \cup list') = inbounds'[P].users \ (missed' \cup list')
      BY <1>2, <1>3, <2>1, <2>3, <3>1, <3>3
    <3>5. Editing'
      <4>1. /\ inbounds'[P].serves = inbounds'[P].users
            /\ pc' = "add front" => list' \subseteq inbounds'[P].users
            /\ pc' = "delete front" => list' \cap inbounds'[P].users = {}
        BY <1>2, <1>3, <2>1, <2>3
      <4>2. Front(node.tag)' = F /\ Protocol(node.tag)' = P /\ (Started(F)' <=> Started(F))
        BY <1>2, <1>3
      <4> QED
        BY <1>3, <2>1, <2>5, <3>4, <4>1, <4>2 DEF Editing
    <3> QED
      BY <1>3, <2>1, <2>5, <3>2, <3>5
         DEF IInv, Between, RemovingFront, RemovingProtocol, Building, Undoing
  <2> QED
    BY <2>4, <2>5
<1>6. CASE FrontUsers
  <2>1. /\ pc \in {"add front", "delete front"} /\ Called = F
        /\ pc' = "idle" /\ missed' = missed \ list
    BY <1>6 DEF FrontUsers, Done, Called
  <2>2. /\ inbounds[P].serves = inbounds[P].users
        /\ Started(F) => inbounds[F].users \ (missed \cup list) = inbounds[P].users \ (missed \cup list)
        /\ pc = "add front" => list \subseteq inbounds[P].users
        /\ pc = "delete front" => list \cap inbounds[P].users = {}
    BY <2>1 DEF IInv, Editing
  <2>3. Started(P) => inbounds'[P] = inbounds[P]
    BY <1>1, <1>3, <2>1 DEF Started
  <2>4. Synced'
    <3> SUFFICES ASSUME NEW y, Started(y)'
                 PROVE  inbounds'[y].serves \ missed' = inbounds'[y].users \ missed'
      BY DEF Synced
    <3>1. Started(y) /\ (y = P \/ y = F)
      BY <1>3
    <3>2. CASE y = F
      BY <1>3, <2>1, <3>2
    <3>3. CASE y = P
      BY <2>2, <2>3, <3>1, <3>3
    <3> QED
      BY <3>1, <3>2, <3>3
  <2>5. Started(F) => Started(P)
    BY <1>4, TagsOfConfigs DEF IInv, Backed, Control
  <2>6. Started(F) => Edited \ missed' = inbounds[P].users \ missed'
    <3>1. /\ pc = "add front" => Edited = inbounds[F].users \cup list
          /\ pc = "delete front" => Edited = inbounds[F].users \ list
      BY <2>1 DEF Edited
    <3> QED
      BY <2>1, <2>2, <3>1
  <2>7. Agree'
    <3> SUFFICES ASSUME NEW t \in Tags, Started(Front(t))'
                 PROVE  inbounds'[Front(t)].users \ missed' = inbounds'[Protocol(t)].users \ missed'
      BY DEF Agree, Front, Protocol
    <3>1. t = node.tag /\ Started(F)
      BY <1>3, <1>4
    <3> QED
      BY <1>3, <2>1, <2>3, <2>5, <2>6, <3>1
  <2> QED
    BY <1>3, <2>1, <2>4, <2>7
       DEF IInv, Between, RemovingFront, RemovingProtocol, Building, Undoing, Editing
<1> QED
  BY <1>5, <1>6

\* Where a layer refuses, the layers differ in nothing but the users named.
LEMMA UsersFailKeepsIInv ==
  ASSUME IInv, UsersFail
  PROVE  IInv'
<1> DEFINE P == Protocol(node.tag)
           F == Front(node.tag)
<1>1. P # F
  BY LayersDiffer
<1>2. /\ pc \in {"add protocol", "delete protocol", "add front", "delete front"}
      /\ pc' = "idle" /\ missed' = missed \cup list /\ SetTable(Called, Edited)
      /\ Called \in {P, F}
  BY DEF UsersFail, Called, Edited
<1>3. /\ Registry' /\ Control' /\ Backed' /\ Settled'
      /\ DOMAIN inbounds' = DOMAIN inbounds
      /\ inbounds'[Called].users = Edited
      /\ \A y \in DOMAIN inbounds : y # Called => inbounds'[y] = inbounds[y]
      /\ \A y : Started(y)' <=> Started(y)
      /\ \A y : Started(y) => y = P \/ (y = F /\ node.fronted)
  BY UserStepKeeps
<1>4. inbounds'[Called].serves = inbounds[Called].serves
  BY <1>2, UserStepIs, SetUsersKeepsRegistry DEF IInv
<1>5. Edited \ list = inbounds[Called].users \ list
  BY <1>2 DEF Edited
<1>6. \A y \in DOMAIN inbounds : /\ inbounds'[y].users \ list = inbounds[y].users \ list
                                 /\ inbounds'[y].serves = inbounds[y].serves
  BY <1>3, <1>4, <1>5
<1>7. Synced'
  <2> SUFFICES ASSUME NEW y \in DOMAIN inbounds, Started(y)
               PROVE  inbounds'[y].serves \ missed' = inbounds'[y].users \ missed'
    BY <1>3 DEF Synced
  <2>1. inbounds[y].serves \ missed = inbounds[y].users \ missed
    BY DEF IInv, Synced
  <2> QED
    BY <1>2, <1>6, <2>1
<1>8. \A t \in Tags : Started(Front(t)) => t = node.tag
  BY <1>3, LayersDiffer
<1>9. Started(F) => /\ F \in DOMAIN inbounds /\ P \in DOMAIN inbounds
                    /\ inbounds[F].users \ (missed \cup list) = inbounds[P].users \ (missed \cup list)
  <2> SUFFICES ASSUME Started(F)
               PROVE  /\ F \in DOMAIN inbounds /\ P \in DOMAIN inbounds
                      /\ inbounds[F].users \ (missed \cup list) = inbounds[P].users \ (missed \cup list)
    OBVIOUS
  <2>1. node.tag \in Tags
    BY TagsOfConfigs DEF IInv, Control
  <2>2. F \in DOMAIN inbounds /\ P \in DOMAIN inbounds
    BY <2>1 DEF IInv, Backed, Started
  <2>3. CASE pc \in {"add protocol", "delete protocol"}
    <3>1. inbounds[F].users \ missed = inbounds[P].users \ missed
      BY <2>1, <2>3 DEF IInv, Editing, Agree
    <3> QED
      BY <2>2, <3>1
  <2>4. CASE pc \in {"add front", "delete front"}
    BY <2>2, <2>4 DEF IInv, Editing
  <2> QED
    BY <1>2, <2>3, <2>4
<1>10. Agree'
  <2> SUFFICES ASSUME NEW t \in Tags, Started(Front(t))'
               PROVE  inbounds'[Front(t)].users \ missed' = inbounds'[Protocol(t)].users \ missed'
    BY DEF Agree, Front, Protocol
  <2>1. t = node.tag /\ Started(F)
    BY <1>3, <1>8
  <2>2. /\ inbounds'[F].users \ list = inbounds[F].users \ list
        /\ inbounds'[P].users \ list = inbounds[P].users \ list
    BY <1>6, <1>9, <2>1
  <2>3. inbounds'[F].users \ (missed \cup list) = inbounds'[P].users \ (missed \cup list)
    BY <1>9, <2>1, <2>2
  <2> QED
    BY <1>2, <2>1, <2>3
<1> QED
  BY <1>2, <1>3, <1>7, <1>10
     DEF IInv, Between, RemovingFront, RemovingProtocol, Building, Undoing, Editing

LEMMA StutterKeepsIInv ==
  ASSUME IInv, UNCHANGED vars
  PROVE  IInv'
<1>1. UNCHANGED <<inbounds, scopes, node, old, list, calls, pc, faults, stuck, missed>>
  BY DEF vars, controllerVars
<1>2. Live' = Live
  BY <1>1 DEF Live
<1>3. Registry' /\ Control' /\ Backed' /\ Synced' /\ (Agree' <=> Agree) /\ (Settled' <=> Settled)
  BY <1>1, <1>2
     DEF IInv, Registry, Control, Backed, Synced, Agree, Settled, Started, Accepts
<1>4. Between' /\ RemovingFront' /\ RemovingProtocol'
  BY <1>1, <1>2, <1>3
     DEF IInv, Between, RemovingFront, RemovingProtocol, Chain, Front, Protocol
<1>5. Building'
  BY <1>1, <1>2 DEF IInv, Building, Fresh, Chain, Front, Protocol
<1>6. Undoing'
  BY <1>1, <1>2 DEF IInv, Undoing, Accepts, Started, Chain, Front, Protocol
<1>7. Editing'
  BY <1>1, <1>3 DEF IInv, Editing, Started, Front, Protocol
<1> QED
  BY <1>3, <1>4, <1>5, <1>6, <1>7 DEF IInv

\* The program counter keeps to its labels: every action names the next one.
LEMMA PlacedAlways == Spec => []Placed
<1> USE DEF Placed, Resting, RemoveSteps, BuildSteps, UserSteps
<1>1. Init => Placed
  BY DEF Init
<1>2. Placed /\ [Next]_vars => Placed'
  BY DEF Next, vars, Rebuild, Close, Edit, RemoveInbound, BuildFails, GiveUp, CreateProtocol,
         CreateFront, CreateFrontFails, StartProtocol, StartFront, Start, StartFails, Undo,
         AddUsers, DelUsers, FrontUsers, UsersFail, Done, controllerVars
<1> QED
  BY <1>1, <1>2, PTL DEF Spec

LEMMA NextKeepsIInv == IInv /\ [Next]_vars => IInv'
<1> SUFFICES ASSUME IInv, [Next]_vars PROVE IInv'
  OBVIOUS
<1>1. CASE Rebuild \/ Close
  BY <1>1, RebuildKeepsIInv
<1>2. CASE RemoveInbound("remove front", "front", "remove protocol")
  BY <1>2, RemoveFrontKeepsIInv
<1>3. CASE RemoveInbound("remove protocol", "protocol", "build")
  BY <1>3, RemoveProtocolKeepsIInv
<1>4. CASE RemoveInbound("close front", "front", "close protocol")
  BY <1>4, RemoveFrontKeepsIInv
<1>5. CASE RemoveInbound("close protocol", "protocol", "closed")
  BY <1>5, RemoveProtocolKeepsIInv
<1>6. CASE CreateProtocol \/ CreateFront
  BY <1>6, CreateKeepsIInv
<1>7. CASE StartProtocol \/ StartFront
  BY <1>7, StartKeepsIInv
<1>8. CASE BuildFails \/ CreateFrontFails \/ StartFails
  BY <1>8, FailKeepsIInv
<1>9. CASE Undo("undo protocol", "protocol") \/ Undo("undo front", "front")
  BY <1>9, UndoKeepsIInv
<1>10. CASE Edit \/ AddUsers \/ DelUsers \/ FrontUsers \/ UsersFail
  BY <1>10, EditKeepsIInv, UsersKeepIInv, UsersFailKeepsIInv
<1>11. CASE UNCHANGED vars
  BY <1>11, StutterKeepsIInv
<1> QED
  BY <1>1, <1>2, <1>3, <1>4, <1>5, <1>6, <1>7, <1>8, <1>9, <1>10, <1>11 DEF Next

LEMMA Inductive == Spec => []IInv
BY InitIInv, NextKeepsIInv, PTL DEF Spec

-----------------------------------------------------------------------------
(***************************************************************************)
(* What callers and clients may rely on                                    *)
(***************************************************************************)
\* The inbound manager, the scopes and the controller keep to their types, and
\* what is started has its scopes on record.
THEOREM TypeCorrect == Spec => []TypeOK
<1>1. IInv /\ Placed => TypeOK
  BY DEF IInv, Registry, Control, Placed, TypeOK
<1> QED
  BY <1>1, Inductive, PlacedAlways, PTL

\* A listening front has its protocol behind it at every moment of AddNode and
\* RemoveNode, whichever step fails; between calls the layers serve the same
\* users, the ones in their tables, but for those a failed call named
\* (manager.go:42-44, 181-183, 193-195), and nothing half-built is left but
\* what would not stop.
THEOREM ChainStaysWhole == Spec => []ChainIsWhole
<1>1. IInv => ChainIsWhole
  <2> SUFFICES ASSUME IInv PROVE ChainIsWhole
    OBVIOUS
  <2>1. ASSUME pc \in {"idle", "closed"}, NEW x \in DOMAIN inbounds \ stuck
        PROVE  x[1] = node.tag /\ (Accepts(node.tag) \/ Front(node.tag) \in stuck)
    <3>1. Settled /\ x \in Live
      BY <2>1 DEF IInv, Between, Live
    <3>2. x \in {<<node.tag, "protocol">>, <<node.tag, "front">>}
      BY <3>1 DEF Settled, Chain
    <3> QED
      BY <3>1, <3>2 DEF Settled
  <2>2. ASSUME pc \in {"idle", "closed"}, NEW x \in DOMAIN inbounds, Started(x)
        PROVE  /\ inbounds[x].users \ missed = inbounds[Protocol(x[1])].users \ missed
               /\ inbounds[x].serves \ missed = inbounds[Protocol(x[1])].users \ missed
    <3>1. PICK t \in Tags : x = Protocol(t) \/ x = Front(t)
      BY DEF IInv, Registry, Layers, Protocol, Front
    <3>2. x[1] = t
      BY <3>1 DEF Protocol, Front
    <3>3. Agree /\ Synced
      BY <2>2 DEF IInv, Between
    <3> QED
      BY <2>2, <3>1, <3>2, <3>3 DEF Agree, Synced
  <2>3. Backed
    BY DEF IInv
  <2> QED
    BY <2>1, <2>2, <2>3 DEF ChainIsWhole, Backed, Resting
<1> QED
  BY <1>1, Inductive, PTL
-----------------------------------------------------------------------------
(***************************************************************************)
(* The chain implements Listener.  At most one tag accepts, so a step is   *)
(* one of three: nobody accepts afterwards, the same tag accepts the same  *)
(* users, or the tag of the node opens or changes its users.               *)
(***************************************************************************)
Admits == UNION {Admitted(t) : t \in Tags}

Quiet == \A t \in Tags : ~Accepts(t)

LEMMA QuietMaps == Quiet => OpenTag = "none" /\ Admits = {}
<1> SUFFICES ASSUME Quiet PROVE OpenTag = "none" /\ Admits = {}
  OBVIOUS
<1>1. \A t \in Tags : Admitted(t) = {}
  BY DEF Quiet, Admitted, Accepts
<1> QED
  BY <1>1 DEF Quiet, OpenTag, Admits

LEMMA AcceptingIsLive ==
  ASSUME IInv, NEW t \in Tags, Accepts(t)
  PROVE  Front(t) \in Live \/ Protocol(t) \in Live
BY StartedIsLive DEF IInv, Accepts

LEMMA OneTagAccepts ==
  ASSUME IInv, Placed, NEW s \in Tags, NEW t \in Tags, Accepts(s), Accepts(t)
  PROVE  s = t
<1>1. PICK c \in Configs : Live \subseteq {Protocol(c.tag), Front(c.tag)}
  <2>1. node \in Configs /\ old \in Configs
    BY DEF IInv, Control
  <2>2. CASE pc \in Resting \cup UserSteps
    BY <2>1, <2>2 DEF IInv, Between, Editing, Settled, Resting, UserSteps, Chain, Front, Protocol
  <2>3. CASE pc \in RemoveSteps
    BY <2>1, <2>3 DEF IInv, RemovingFront, RemovingProtocol, RemoveSteps, Chain, Front, Protocol
  <2>4. CASE pc \in BuildSteps
    BY <2>1, <2>4 DEF IInv, Building, Undoing, BuildSteps, Chain, Front, Protocol
  <2> QED
    BY <2>2, <2>3, <2>4 DEF Placed
<1> QED
  BY <1>1, AcceptingIsLive, LayersDiffer

LEMMA OpenMaps ==
  IInv /\ Placed => \A t \in Tags : Accepts(t) => OpenTag = t /\ Admits = Admitted(t)
<1> SUFFICES ASSUME IInv, Placed, NEW t \in Tags, Accepts(t)
             PROVE  OpenTag = t /\ Admits = Admitted(t)
  OBVIOUS
<1>1. \A s \in Tags : Accepts(s) <=> s = t
  BY OneTagAccepts
<1>2. \A s \in Tags : s # t => Admitted(s) = {}
  BY <1>1 DEF Admitted, Accepts
<1>3. OpenTag = t
  BY <1>1 DEF OpenTag
<1>4. Admits = Admitted(t)
  BY <1>2 DEF Admits
<1> QED
  BY <1>3, <1>4

\* A step that leaves every tag as it was is invisible.
LEMMA SameMaps ==
  ASSUME IInv, Placed, IInv', Placed',
         \A t \in Tags : (Accepts(t)' <=> Accepts(t)) /\ Admitted(t)' = Admitted(t)
  PROVE  OpenTag' = OpenTag /\ Admits' = Admits
<1>1. (Quiet => OpenTag = "none" /\ Admits = {})'
  BY QuietMaps, PTL
<1>2. (IInv /\ Placed => \A t \in Tags : Accepts(t) => OpenTag = t /\ Admits = Admitted(t))'
  BY OpenMaps, PTL
<1>3. CASE Quiet
  <2>1. Quiet'
    BY <1>3 DEF Quiet
  <2> QED
    BY <1>1, <1>3, <2>1, QuietMaps
<1>4. ASSUME NEW t \in Tags, Accepts(t) PROVE OpenTag' = OpenTag /\ Admits' = Admits
  <2>1. OpenTag = t /\ Admits = Admitted(t)
    BY <1>4, OpenMaps
  <2>2. OpenTag' = t /\ Admits' = Admitted(t)'
    BY <1>2, <1>4
  <2> QED
    BY <2>1, <2>2
<1> QED
  BY <1>3, <1>4 DEF Quiet

LEMMA DoingMaps ==
  Placed => /\ Doing = "remove" <=> pc \in RemoveSteps
            /\ Doing = "build" <=> pc \in BuildSteps
            /\ Doing = "users" <=> pc \in UserSteps
            /\ Doing = "none" <=> pc \in Resting
            /\ Doing \in {"none", "remove", "build", "users"}
BY DEF Placed, Doing, Resting, RemoveSteps, BuildSteps, UserSteps

\* Nothing accepts while the chain is removed behind its front, built or undone.
LEMMA BuildingIsQuiet == IInv /\ pc \in BuildSteps => Quiet
<1> SUFFICES ASSUME IInv, pc \in BuildSteps, NEW t \in Tags, Accepts(t) PROVE FALSE
  BY DEF Quiet
<1>1. Front(t) \in Live \/ Protocol(t) \in Live
  BY AcceptingIsLive
<1>2. CASE pc = "build"
  BY <1>1, <1>2 DEF IInv, Building
<1>3. ASSUME pc # "build" PROVE t = node.tag
  <2>1. Live \subseteq {Protocol(node.tag), Front(node.tag)}
    BY <1>3 DEF IInv, Building, Undoing, BuildSteps, Chain, Front, Protocol
  <2> QED
    BY <1>1, <2>1, LayersDiffer
<1>4. CASE pc = "create front"
  <2>1. Live = {Protocol(node.tag)} /\ Fresh(Protocol(node.tag), FALSE)
    BY <1>4 DEF IInv, Building
  <2> QED
    BY <1>3, <1>4, <2>1, StartedIsLive, LayersDiffer DEF IInv, Fresh, Started, Accepts
<1>5. CASE pc = "start protocol"
  <2>1. Live = Chain(node) /\ \A x \in Chain(node) : Fresh(x, FALSE)
    BY <1>5 DEF IInv, Building
  <2> QED
    BY <2>1, StartedIsLive DEF IInv, Fresh, Started, Accepts
<1>6. CASE pc = "start front"
  <2>1. Fresh(Front(node.tag), FALSE) /\ inbounds[Protocol(node.tag)].inner
    BY <1>6 DEF IInv, Building
  <2> QED
    BY <1>3, <1>6, <2>1 DEF Fresh, Started, Accepts
<1>7. CASE pc = "undo protocol"
  BY <1>3, <1>7 DEF IInv, Undoing
<1>8. CASE pc = "undo front"
  <2>1. Live \subseteq {Front(node.tag)} /\ ~Started(Front(node.tag))
    BY <1>8 DEF IInv, Undoing
  <2> QED
    BY <1>3, <1>8, <2>1, StartedIsLive, LayersDiffer DEF IInv, Accepts
<1> QED
  BY <1>2, <1>4, <1>5, <1>6, <1>7, <1>8 DEF BuildSteps
LEMMA EmptyIsQuiet == IInv /\ Live = {} => Quiet
BY AcceptingIsLive DEF Quiet

\* What is only stopped or taken out opens no port.
LEMMA FewerStayQuiet ==
  ASSUME Quiet, \A y : Started(y)' => Started(y) /\ inbounds'[y] = inbounds[y]
  PROVE  Quiet'
<1> SUFFICES ASSUME NEW t \in Tags, Accepts(t)' PROVE FALSE
  BY DEF Quiet
<1>1. Accepts(t)
  BY DEF Accepts, Front, Protocol
<1> QED
  BY <1>1 DEF Quiet

\* Two states of Chain side by side, with the mapping in both.
Pair == IInv /\ Placed /\ IInv' /\ Placed'

Simulated == [L!Next]_(L!vars)

LEMMA ProceedMaps ==
  ASSUME Pair, OpenTag' = OpenTag, Admits' = Admits
  PROVE  Simulated
<1>1. Doing' \in {"none", "remove", "build", "users"}
  <2>1. (Placed => Doing \in {"none", "remove", "build", "users"})'
    BY DoingMaps, PTL
  <2> QED
    BY <2>1 DEF Pair
<1> QED
  BY <1>1 DEF Simulated, L!Next, L!Proceed, Admits

LEMMA QuietProceeds ==
  ASSUME Pair, Quiet, Quiet'
  PROVE  Simulated
<1>1. (Quiet => OpenTag = "none" /\ Admits = {})'
  BY QuietMaps, PTL
<1> QED
  BY <1>1, QuietMaps, ProceedMaps

LEMMA SameProceeds ==
  ASSUME Pair, UNCHANGED inbounds
  PROVE  Simulated
<1>1. \A t \in Tags : (Accepts(t)' <=> Accepts(t)) /\ Admitted(t)' = Admitted(t)
  BY DEF Accepts, Admitted, Started, Front, Protocol
<1> QED
  BY <1>1, SameMaps, ProceedMaps DEF Pair

LEMMA ShutMaps ==
  ASSUME Pair, pc \in RemoveSteps, Quiet', pc' \notin UserSteps
  PROVE  Simulated
<1>1. (Quiet => OpenTag = "none" /\ Admits = {})'
  BY QuietMaps, PTL
<1>2. Doing = "remove"
  BY DoingMaps DEF Pair
<1>3. Doing' \in {"remove", "build", "none"}
  <2>1. (Placed => /\ Doing = "users" <=> pc \in UserSteps
                   /\ Doing \in {"none", "remove", "build", "users"})'
    BY DoingMaps, PTL
  <2> QED
    BY <2>1 DEF Pair
<1> QED
  BY <1>1, <1>2, <1>3 DEF Simulated, L!Next, L!Shut, Admits

LEMMA OpenMapsAfter ==
  (IInv /\ Placed => \A t \in Tags : Accepts(t) => OpenTag = t /\ Admits = Admitted(t))'
BY OpenMaps, PTL

LEMMA OpenStepMaps ==
  ASSUME Pair, pc \in BuildSteps, pc' \in UserSteps,
         NEW u \in Tags, Accepts(u)', Admitted(u)' = {}
  PROVE  Simulated
<1>1. OpenTag = "none"
  BY BuildingIsQuiet, QuietMaps DEF Pair
<1>2. OpenTag' = u /\ Admits' = {}
  BY OpenMapsAfter DEF Pair
<1>3. Doing = "build" /\ Doing' = "users"
  <2>1. (Placed => (Doing = "users" <=> pc \in UserSteps))'
    BY DoingMaps, PTL
  <2> QED
    BY <2>1, DoingMaps DEF Pair
<1> QED
  BY <1>1, <1>2, <1>3 DEF Simulated, L!Next, L!Open, Admits

LEMMA ChangeMaps ==
  ASSUME Pair, pc \in UserSteps, pc' \in UserSteps \cup Resting,
         NEW u \in Tags, Accepts(u), Accepts(u)', Admitted(u)' \in SUBSET Users
  PROVE  Simulated
<1>1. OpenTag = u
  BY OpenMaps DEF Pair
<1>2. OpenTag' = u /\ Admits' \in SUBSET Users
  BY OpenMapsAfter DEF Pair
<1>3. Doing = "users" /\ Doing' \in {"users", "none"}
  <2>1. (Placed => /\ Doing = "users" <=> pc \in UserSteps
                   /\ Doing = "none" <=> pc \in Resting)'
    BY DoingMaps, PTL
  <2> QED
    BY <2>1, DoingMaps DEF Pair
<1> QED
  BY <1>1, <1>2, <1>3, TagAssumption DEF Simulated, L!Next, L!Change, Admits

\* Taking out the front shuts the port if the front was open, and is not seen
\* if it was not.
LEMMA RemoveFrontRefines ==
  ASSUME Pair, NEW label \in {"remove front", "close front"}, NEW next,
         RemoveInbound(label, "front", next),
         next \in {"remove protocol", "close protocol"}
  PROVE  Simulated
<1> DEFINE x == Front(old.tag)
<1>1. /\ pc = label
      /\ (Splice(x) /\ pc' = next) \/ (StopFails(x) /\ pc' \in {"closed", "idle"})
  BY DEF RemoveInbound, Front
<1>2. x \in Tags \X Layers /\ old.tag \in Tags
  BY TagsOfConfigs DEF Pair, IInv, Control
<1>3. /\ \A y : Started(y)' <=> Started(y) /\ y # x
      /\ \A y : Started(y)' => inbounds'[y] = inbounds[y]
  <2>1. CASE Splice(x)
    BY <1>2, <2>1, SpliceKeepsRegistry DEF Pair, IInv, Started
  <2>2. CASE StopFails(x)
    <3>1. /\ \A y : Started(y)' <=> Started(y) /\ y # x
          /\ \A y \in DOMAIN inbounds : y # x => inbounds'[y] = inbounds[y]
      BY <1>2, <2>2, StopFailsKeepsRegistry DEF Pair, IInv
    <3>2. \A y : Started(y) => y \in DOMAIN inbounds
      BY DEF Started
    <3> QED
      BY <3>1, <3>2
  <2> QED
    BY <1>1, <2>1, <2>2
<1>4. CASE Started(x)
  <2>1. \A t \in Tags : Accepts(t) => t = old.tag
    BY <1>2, <1>4, OneTagAccepts DEF Pair, Accepts
  <2>2. inbounds[Protocol(old.tag)].inner
    BY <1>2, <1>4 DEF Pair, IInv, Backed
  <2>3. Quiet'
    <3> SUFFICES ASSUME NEW t \in Tags, Accepts(t)' PROVE FALSE
      BY DEF Quiet
    <3>1. CASE Started(Front(t))'
      BY <1>3, <2>1, <3>1 DEF Accepts
    <3>2. CASE Started(Protocol(t))' /\ ~inbounds'[Protocol(t)].inner
      <4>1. Started(Protocol(t)) /\ ~inbounds[Protocol(t)].inner
        BY <1>3, <3>2
      <4> QED
        BY <2>1, <2>2, <4>1 DEF Accepts
    <3> QED
      BY <3>1, <3>2 DEF Accepts, Front, Protocol
  <2> QED
    BY <1>1, <2>3, ShutMaps DEF RemoveSteps, UserSteps
<1>5. CASE ~Started(x)
  <2>1. \A y : Started(y)' <=> Started(y)
    BY <1>3, <1>5
  <2>2. \A t \in Tags : (Accepts(t)' <=> Accepts(t)) /\ Admitted(t)' = Admitted(t)
    <3> SUFFICES ASSUME NEW t \in Tags
                 PROVE  (Accepts(t)' <=> Accepts(t)) /\ Admitted(t)' = Admitted(t)
      OBVIOUS
    <3>1. /\ Started(Front(t))' <=> Started(Front(t))
          /\ Started(Protocol(t))' <=> Started(Protocol(t))
          /\ Started(Front(t)) => inbounds'[Front(t)] = inbounds[Front(t)]
          /\ Started(Protocol(t)) => inbounds'[Protocol(t)] = inbounds[Protocol(t)]
      BY <1>3, <2>1
    <3>2. Front(t)' = Front(t) /\ Protocol(t)' = Protocol(t)
      BY DEF Front, Protocol
    <3>3. Accepts(t)' <=> Accepts(t)
      BY <3>1, <3>2 DEF Accepts
    <3> QED
      BY <3>1, <3>2, <3>3 DEF Admitted, Accepts
  <2> QED
    BY <2>2, SameMaps, ProceedMaps DEF Pair
<1> QED
  BY <1>4, <1>5

\* Behind the front nothing is left to accept once the protocol goes.
LEMMA RemoveProtocolRefines ==
  ASSUME Pair, NEW label \in {"remove protocol", "close protocol"}, NEW next,
         RemoveInbound(label, "protocol", next), next \in {"build", "closed"}
  PROVE  Simulated
<1> DEFINE x == Protocol(old.tag)
<1>1. /\ pc = label
      /\ (Splice(x) /\ pc' = next) \/ (StopFails(x) /\ pc' \in {"closed", "idle"})
  BY DEF RemoveInbound, Protocol
<1>2. x \in Tags \X Layers
  BY TagsOfConfigs DEF Pair, IInv, Control
<1>3. Live \subseteq {x}
  BY <1>1 DEF Pair, IInv, RemovingProtocol
<1> HIDE DEF x
<1>4. Live' = {}
  <2>1. Registry /\ Control
    BY DEF Pair, IInv
  <2>2. Live' = Live \ {x}
    BY <1>1, <1>2, <2>1, SpliceKeepsRegistry, StopFailsKeepsRegistry
  <2> QED
    BY <1>3, <2>2
<1>5. Quiet'
  <2>1. (IInv /\ Live = {} => Quiet)'
    BY EmptyIsQuiet, PTL
  <2> QED
    BY <1>4, <2>1 DEF Pair
<1> QED
  BY <1>1, <1>5, ShutMaps DEF RemoveSteps, UserSteps

\* Building, failing and rolling back is not seen, but for the step that opens
\* the port with nobody admitted.
LEMMA BuildRefines ==
  ASSUME Pair, pc \in BuildSteps, pc' \in BuildSteps
  PROVE  Simulated
<1>1. (IInv /\ pc \in BuildSteps => Quiet)'
  BY BuildingIsQuiet, PTL
<1> QED
  BY <1>1, BuildingIsQuiet, QuietProceeds DEF Pair

LEMMA UndoRefines ==
  ASSUME Pair, Undo("undo protocol", "protocol") \/ Undo("undo front", "front")
  PROVE  Simulated
<1> DEFINE x == IF pc = "undo protocol" THEN Protocol(node.tag) ELSE Front(node.tag)
<1>1. pc \in {"undo protocol", "undo front"} /\ (Splice(x) \/ StopFails(x))
  BY DEF Undo, Front, Protocol
<1>2. x \in Tags \X Layers
  BY TagsOfConfigs DEF Pair, IInv, Control
<1> HIDE DEF x
<1>3. \A y : Started(y)' => Started(y) /\ inbounds'[y] = inbounds[y]
  <2>1. CASE Splice(x)
    BY <1>2, <2>1, SpliceKeepsRegistry DEF Pair, IInv, Started
  <2>2. CASE StopFails(x)
    <3>1. /\ \A y : Started(y)' <=> Started(y) /\ y # x
          /\ \A y \in DOMAIN inbounds : y # x => inbounds'[y] = inbounds[y]
      BY <1>2, <2>2, StopFailsKeepsRegistry DEF Pair, IInv
    <3>2. \A y : Started(y) => y \in DOMAIN inbounds
      BY DEF Started
    <3> QED
      BY <3>1, <3>2
  <2> QED
    BY <1>1, <2>1, <2>2
<1>4. Quiet
  BY <1>1, BuildingIsQuiet DEF Pair, BuildSteps
<1> QED
  BY <1>3, <1>4, FewerStayQuiet, QuietProceeds

LEMMA StartRefines ==
  ASSUME Pair, StartProtocol \/ StartFront
  PROVE  Simulated
<1> DEFINE P == Protocol(node.tag)
           F == Front(node.tag)
<1>1. /\ node.tag \in Tags /\ node.fronted \in BOOLEAN /\ P # F
      /\ Chain(node) = {P} \cup (IF node.fronted THEN {F} ELSE {})
      /\ <<node.tag, "front">> = F /\ <<node.tag, "protocol">> = P
  BY TagsOfConfigs, LayersDiffer DEF Pair, IInv, Control
<1>2. node' = node
  BY DEF StartProtocol, StartFront, Start, controllerVars
<1>3. P' = P /\ F' = F
  BY <1>2 DEF Front, Protocol
<1>4. CASE StartProtocol /\ node.fronted
  BY <1>4, BuildRefines DEF StartProtocol, Start, BuildSteps
<1>5. CASE StartProtocol /\ ~node.fronted
  <2>1. pc = "start protocol" /\ pc' = "add protocol"
    BY <1>5 DEF StartProtocol, Start
  <2>2. Live = {P} /\ Fresh(P, FALSE) /\ ~inbounds[P].inner
    BY <1>1, <1>5, <2>1 DEF Pair, IInv, Building
  <2>3. P \in Live /\ P \in DOMAIN inbounds
    BY <2>2 DEF Live
  <2>4. /\ \A y \in DOMAIN inbounds :
             /\ inbounds'[y].users = inbounds[y].users /\ inbounds'[y].serves = inbounds[y].serves
             /\ inbounds'[y].inner = inbounds[y].inner
        /\ \A y : Started(y)' <=> Started(y) \/ y = P
    BY <1>1, <1>5, <2>3, StartKeepsRegistry DEF Pair, IInv, StartProtocol
  <2>5. Started(P)' /\ ~Started(F)' /\ ~inbounds'[P].inner /\ inbounds'[P].serves = {}
    BY <1>1, <1>3, <2>2, <2>3, <2>4, StartedIsLive DEF Pair, IInv, Fresh
  <2>6. Accepts(node.tag)' /\ Admitted(node.tag)' = {}
    BY <1>2, <1>3, <2>5 DEF Accepts, Admitted
  <2> QED
    BY <1>1, <1>2, <2>1, <2>6, OpenStepMaps DEF BuildSteps, UserSteps
<1>6. CASE StartFront
  <2>1. pc = "start front" /\ pc' = "add protocol"
    BY <1>6 DEF StartFront, Start
  <2>2. F \in Live /\ F \in DOMAIN inbounds /\ Fresh(F, FALSE)
    BY <2>1 DEF Pair, IInv, Building, Fresh, Live
  <2>3. /\ \A y \in DOMAIN inbounds : inbounds'[y].serves = inbounds[y].serves
        /\ \A y : Started(y)' <=> Started(y) \/ y = F
    BY <1>1, <1>6, <2>2, StartKeepsRegistry DEF Pair, IInv, StartFront
  <2>4. Started(F)' /\ inbounds'[F].serves = {}
    BY <1>3, <2>2, <2>3 DEF Fresh
  <2>5. Accepts(node.tag)' /\ Admitted(node.tag)' = {}
    BY <1>2, <1>3, <2>4 DEF Accepts, Admitted
  <2> QED
    BY <1>1, <1>2, <2>1, <2>5, OpenStepMaps DEF BuildSteps, UserSteps
<1> QED
  BY <1>4, <1>5, <1>6

LEMMA EditRefines ==
  ASSUME Pair, AddUsers \/ DelUsers \/ FrontUsers \/ UsersFail
  PROVE  Simulated
<1>1. pc \in UserSteps /\ pc' \in UserSteps \cup Resting
  BY UserStepIs DEF Pair
<1>4. /\ Registry' /\ \A y : Started(y)' <=> Started(y)
      /\ \A y \in DOMAIN inbounds : inbounds'[y].inner = inbounds[y].inner
  BY UserStepIs, SetUsersKeepsRegistry DEF Pair, IInv
<1>5. \A t \in Tags : Accepts(t)' <=> Accepts(t)
  <2> SUFFICES ASSUME NEW t \in Tags PROVE Accepts(t)' <=> Accepts(t)
    OBVIOUS
  <2>1. /\ Started(Front(t))' <=> Started(Front(t))
        /\ Started(Protocol(t))' <=> Started(Protocol(t))
        /\ Started(Protocol(t)) => inbounds'[Protocol(t)].inner = inbounds[Protocol(t)].inner
    BY <1>4 DEF Started
  <2>2. Front(t)' = Front(t) /\ Protocol(t)' = Protocol(t)
    BY DEF Front, Protocol
  <2> QED
    BY <2>1, <2>2 DEF Accepts
<1>6. CASE Quiet
  <2>1. Quiet'
    BY <1>5, <1>6 DEF Quiet
  <2> QED
    BY <1>6, <2>1, QuietProceeds
<1>7. ASSUME NEW u \in Tags, Accepts(u) PROVE Simulated
  <2>1. Accepts(u)'
    BY <1>5, <1>7
  <2>2. Admitted(u)' \in SUBSET Users
    <3>1. \A y : Started(y)' => inbounds'[y].serves \in SUBSET Users
      BY <1>4 DEF Registry, Inbounds, Started
    <3> QED
      BY <2>1, <3>1 DEF Admitted, Accepts, Front, Protocol
  <2> QED
    BY <1>1, <1>7, <2>1, <2>2, ChangeMaps
<1> QED
  BY <1>6, <1>7 DEF Quiet

LEMMA NextRefines ==
  ASSUME Pair, [Next]_vars
  PROVE  Simulated
<1>1. CASE Rebuild \/ Close \/ Edit \/ BuildFails
  BY <1>1, SameProceeds DEF Rebuild, Close, Edit, BuildFails
<1>2. CASE RemoveInbound("remove front", "front", "remove protocol")
  BY <1>2, RemoveFrontRefines
<1>3. CASE RemoveInbound("remove protocol", "protocol", "build")
  BY <1>3, RemoveProtocolRefines
<1>4. CASE RemoveInbound("close front", "front", "close protocol")
  BY <1>4, RemoveFrontRefines
<1>5. CASE RemoveInbound("close protocol", "protocol", "closed")
  BY <1>5, RemoveProtocolRefines
<1>6. CASE CreateProtocol \/ CreateFront \/ CreateFrontFails \/ StartFails
  BY <1>6, BuildRefines
     DEF CreateProtocol, CreateFront, CreateFrontFails, StartFails, BuildSteps
<1>7. CASE StartProtocol \/ StartFront
  BY <1>7, StartRefines
<1>8. CASE Undo("undo protocol", "protocol") \/ Undo("undo front", "front")
  BY <1>8, UndoRefines
<1>9. CASE AddUsers \/ DelUsers \/ FrontUsers \/ UsersFail
  BY <1>9, EditRefines
<1>10. CASE UNCHANGED vars
  BY <1>10, SameProceeds DEF vars
<1> QED
  BY <1>1, <1>2, <1>3, <1>4, <1>5, <1>6, <1>7, <1>8, <1>9, <1>10 DEF Next

LEMMA InitRefines ==
  ASSUME Init, IInv, Placed
  PROVE  L!Init
<1>1. /\ node \in Configs /\ pc = "idle" /\ list \in SUBSET Users /\ ~node.fronted
      /\ inbounds = [x \in Chain(node) |-> [started |-> TRUE, inner |-> FALSE, users |-> list,
                                          serves |-> list]]
  BY DEF Init
<1>2. Chain(node) = {Protocol(node.tag)} /\ node.tag \in Tags
  BY <1>1, TagsOfConfigs
<1>3. Started(Protocol(node.tag)) /\ ~Started(Front(node.tag))
      /\ ~inbounds[Protocol(node.tag)].inner /\ inbounds[Protocol(node.tag)].serves = list
  BY <1>1, <1>2, LayersDiffer DEF Started
<1>4. Accepts(node.tag) /\ Admitted(node.tag) = list
  BY <1>3 DEF Accepts, Admitted
<1>5. OpenTag = node.tag /\ Admits = list
  BY <1>2, <1>4, OpenMaps
<1>6. Doing = "none"
  BY <1>1, DoingMaps DEF Resting
<1> QED
  BY <1>1, <1>2, <1>5, <1>6, TagAssumption DEF L!Init, Admits

\* To its clients the chain is one listener (Listener.tla): the public port
\* opens only when a complete chain is built and with nobody admitted, only the
\* user calls change who is admitted, and only a removal shuts it, whichever
\* step of AddNode or RemoveNode fails.
THEOREM ChainImplementsListener == Spec => ImplementsListener
<1>1. Init => L!Init
  <2>1. Init => Placed
    BY DEF Init, Placed, Resting
  <2> QED
    BY <2>1, InitIInv, InitRefines
<1>2. Pair /\ [Next]_vars => [L!Next]_(L!vars)
  BY NextRefines DEF Simulated
<1>3. Spec => [](IInv /\ Placed)
  BY Inductive, PlacedAlways, PTL
<1>4. IInv /\ Placed /\ IInv' /\ Placed' /\ [Next]_vars => [L!Next]_(L!vars)
  BY <1>2 DEF Pair
<1> QED
  BY <1>1, <1>3, <1>4, PTL DEF Spec, ImplementsListener, L!Spec
===============================================================================
