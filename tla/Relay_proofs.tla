---------------------------- MODULE Relay_proofs ----------------------------
(***************************************************************************)
(* What holds of the relays of Relay.tla for any nodes, subscriptions and  *)
(* transit nodes, however long they come and go: the type invariant, that  *)
(* a rule finds its outbounds, and that between calls the engine follows   *)
(* the controllers.                                                        *)
(*                                                                         *)
(* Neither property is inductive: the rules and outbounds in the engine    *)
(* belong to nodes half-way through a loop.  RInv says for every place of  *)
(* setupRelay and of the teardown for which subscriptions a node has its   *)
(* rule (RuleUsers) and its outbounds (Holds), and relates those to what   *)
(* the engine has, up to what another node's copy or tag undid.            *)
(***************************************************************************)
EXTENDS Relay, FiniteSetTheorems, TLAPS

SettingUp == {"front", "protocol", "copy", "set"}
TearingDown == {"uncopy", "unset", "unprotocol", "unfront"}

\* What the loop of a node takes next, as a function of what is left.
Pick(S) == CHOOSE u \in S : TRUE

\* The subscriptions of node n that have a rule.
RuleUsers(n) ==
    IF pc[n] \in SettingUp THEN users[n] \ todo[n]
    ELSE IF pc[n] \in {"uncopy", "unset"} THEN todo[n]
    ELSE IF pc[n] = "idle" /\ relay[n] THEN users[n] ELSE {}

\* The subscriptions that have all their outbounds.
HeldUsers(n) ==
    IF pc[n] \in {"front", "protocol"} THEN users[n] \ todo[n]
    ELSE IF pc[n] \in {"copy", "set"} THEN (users[n] \ todo[n]) \cup {Pick(todo[n])}
    ELSE IF pc[n] \in {"uncopy", "unset"} \/ (pc[n] = "idle" /\ relay[n]) THEN users[n]
    ELSE IF pc[n] = "unprotocol" THEN todo[n]
    ELSE IF pc[n] = "unfront" THEN todo[n] \ {Pick(todo[n])} ELSE {}

\* Between the two outbounds of one subscription only the outer one is there.
HalfHeld(n, u) ==
    pc[n] \in {"protocol", "unfront"} /\ via[n] \in Fronted /\ u = Pick(todo[n])

\* Node n has an outbound of this layer for subscription u.
Holds(n, u, layer) ==
    \/ u \in HeldUsers(n) /\ (layer = "shadowtls" => via[n] \in Fronted)
    \/ HalfHeld(n, u) /\ layer = "shadowtls"

Rule(n, u) == [node |-> n, user |-> u, via |-> via[n], setup |-> setups[n]]

Known == DOMAIN outbounds

-----------------------------------------------------------------------------
\* The inductive invariant, part by part

\* The types of the functions, and the history's.
Typed ==
    /\ TypeOK
    /\ outbounds = [x \in Known |-> outbounds[x]]
    /\ scopes \in [Nodes -> SUBSET Tags] /\ relayRules \in [Nodes -> SUBSET Rules]
    /\ pc \in [Nodes -> {"idle", "down"} \cup SettingUp \cup TearingDown]
    /\ todo \in [Nodes -> SUBSET Users] /\ users \in [Nodes -> SUBSET Users]
    /\ current \in [Nodes -> SUBSET Rules]
    /\ raced \subseteq Rules /\ shared \subseteq Tags /\ partial \subseteq Nodes

\* Where a node is tells whether its relay is up, and what is left to do.
Stages ==
    \A n \in Nodes :
        /\ pc[n] \in {"idle", "down"} <=> todo[n] = {}
        /\ pc[n] # "idle" \/ relay[n] => via[n] \in Transits /\ setups[n] >= 1
        /\ pc[n] \in SettingUp => ~relay[n]
        /\ pc[n] \in TearingDown \cup {"down"} => relay[n]
        /\ pc[n] = "front" => via[n] \in Fronted

\* An outbound a node holds is registered as its own, or another node has
\* used the tag.
Owned ==
    \A n \in Nodes, u \in Users, layer \in Layers :
        Holds(n, u, layer) =>
            \/ <<via[n], u, layer>> \in shared
            \/ <<via[n], u, layer>> \in Known /\ outbounds[<<via[n], u, layer>>] = n

\* As long as nothing failed, no other outbound is registered.
NoLeftovers ==
    faults = 0 => \A t \in Transits, u \in Users, layer \in Layers :
        <<t, u, layer>> \in Known =>
            \/ <<t, u, layer>> \in shared
            \/ \A n \in Nodes :
                  outbounds[<<t, u, layer>>] = n => t = via[n] /\ Holds(n, u, layer)

\* A rule of the engine is the one of its node's latest set-up.
RulesLive ==
    \A r \in rules : r \in raced \/ r.node \in partial
        \/ (r.user \in RuleUsers(r.node) /\ r = Rule(r.node, r.user))

\* The rule of a subscription is known to the manager and in the engine,
\* unless an outdated copy lost it.
RulesKept ==
    \A n \in Nodes : \A u \in RuleUsers(n) :
        Rule(n, u) \in relayRules[n] /\ (Rule(n, u) \in rules \/ Rule(n, u) \in raced)

\* The two outbounds of a subscription behind ShadowTLS are of one node.
Fronts ==
    \A t \in Fronted, u \in Users :
        <<t, u, "protocol">> \in Known =>
            \/ /\ <<t, u, "shadowtls">> \in Known
               /\ outbounds[<<t, u, "shadowtls">>] = outbounds[<<t, u, "protocol">>]
            \/ outbounds[<<t, u, "protocol">>] \in partial
            \/ <<t, u, "protocol">> \in shared \/ <<t, u, "shadowtls">> \in shared

\* The inner outbound is gone before the outer one goes.
Unfronting ==
    \A n \in Nodes : pc[n] = "unfront" /\ via[n] \in Fronted =>
        \/ <<via[n], Pick(todo[n]), "protocol">> \notin Known
        \/ <<via[n], Pick(todo[n]), "protocol">> \in shared
        \/ <<via[n], Pick(todo[n]), "shadowtls">> \in shared

RInv ==
    /\ Typed /\ Stages
    /\ Owned /\ NoLeftovers /\ Fronts /\ Unfronting
    /\ RulesLive /\ RulesKept

-----------------------------------------------------------------------------
\* Frames: what a step does not touch

\* The loop of node n is at a subscription of it.
LEMMA PickIsLeft ==
    ASSUME NEW S, S # {}
    PROVE  Pick(S) \in S
BY DEF Pick

LEMMA AtIsPick ==
    ASSUME NEW n \in Nodes
    PROVE  At(n) = Pick(todo[n])
BY DEF At, Pick

\* A node another node's step leaves alone.
Still(o) ==
    /\ pc'[o] = pc[o] /\ todo'[o] = todo[o] /\ users'[o] = users[o]
    /\ via'[o] = via[o] /\ relay'[o] = relay[o] /\ setups'[o] = setups[o]

\* A step after which node o has the rules it had.
SameRules(o) ==
    /\ RuleUsers(o)' = RuleUsers(o)
    /\ RuleUsers(o) # {} => via'[o] = via[o] /\ setups'[o] = setups[o]

\* A step after which node o has the outbounds it had.
SameHeld(o) ==
    /\ \A u \in Users, layer \in Layers : Holds(o, u, layer)' = Holds(o, u, layer)
    /\ \A u \in Users, layer \in Layers : Holds(o, u, layer) => via'[o] = via[o]

LEMMA StillFrame ==
    ASSUME NEW o \in Nodes, Still(o)
    PROVE  SameRules(o) /\ SameHeld(o)
<1>1. SameRules(o)
    BY DEF Still, SameRules, RuleUsers
<1>2. HeldUsers(o)' = HeldUsers(o)
    BY DEF Still, HeldUsers
<1>3. \A u \in Users : HalfHeld(o, u)' = HalfHeld(o, u)
    BY DEF Still, HalfHeld
<1>4. SameHeld(o)
    BY <1>2, <1>3 DEF Still, SameHeld, Holds
<1> QED BY <1>1, <1>4

RulesUntouched == UNCHANGED <<rules, raced, relayRules>> /\ partial \subseteq partial'

LEMMA RulesFrame ==
    ASSUME Typed, RulesLive, RulesKept, RulesUntouched, Typed',
           \A o \in Nodes : SameRules(o) \/ (o \in partial' /\ RuleUsers(o)' = {})
    PROVE  RulesLive' /\ RulesKept'
<1> USE DEF RulesUntouched
<1>1. RulesLive'
    <2>1. SUFFICES ASSUME NEW r \in rules, r \notin raced, r.node \notin partial'
                   PROVE  r.user \in RuleUsers(r.node)' /\ r = Rule(r.node, r.user)'
        BY DEF RulesLive
    <2>2. r.node \in Nodes
        BY DEF Typed, TypeOK, Rules
    <2>3. r.user \in RuleUsers(r.node) /\ r = Rule(r.node, r.user)
        BY <2>1 DEF RulesLive
    <2>4. SameRules(r.node)
        BY <2>1, <2>2
    <2> QED BY <2>3, <2>4 DEF SameRules, Rule
<1>2. RulesKept'
    <2>1. SUFFICES ASSUME NEW n \in Nodes, NEW u \in RuleUsers(n)'
                   PROVE  /\ Rule(n, u)' \in relayRules[n]
                          /\ Rule(n, u)' \in rules \/ Rule(n, u)' \in raced
        BY DEF RulesKept
    <2>2. SameRules(n)
        BY <2>1
    <2>3. u \in RuleUsers(n) /\ Rule(n, u)' = Rule(n, u)
        BY <2>1, <2>2 DEF SameRules, Rule
    <2> QED BY <2>3 DEF RulesKept
<1> QED BY <1>1, <1>2

OutboundsUntouched == UNCHANGED <<outbounds, shared, partial, faults>>

LEMMA OutboundsFrame ==
    ASSUME Typed, Owned, NoLeftovers, Fronts, OutboundsUntouched,
           \A o \in Nodes : SameHeld(o)
    PROVE  Owned' /\ NoLeftovers' /\ Fronts'
<1> USE DEF OutboundsUntouched
<1>1. Owned'
    BY DEF Owned, SameHeld, Known
<1>2. NoLeftovers'
    <2>1. SUFFICES ASSUME faults = 0, NEW t \in Transits, NEW u \in Users, NEW layer \in Layers,
                          <<t, u, layer>> \in Known, <<t, u, layer>> \notin shared,
                          NEW o \in Nodes, outbounds[<<t, u, layer>>] = o
                   PROVE  t = via'[o] /\ Holds(o, u, layer)'
        BY DEF NoLeftovers, Known
    <2>2. t = via[o] /\ Holds(o, u, layer)
        BY <2>1 DEF NoLeftovers
    <2> QED BY <2>2 DEF SameHeld
<1>3. Fronts'
    BY DEF Fronts, Known
<1> QED BY <1>1, <1>2, <1>3


LEMMA SetupRelayKeeps ==
    ASSUME RInv, NEW n \in Nodes, SetupRelay(n)
    PROVE  RInv'
<1> USE DEF RInv
<1>0. At(n) = Pick(todo[n]) /\ (todo[n] # {} => Pick(todo[n]) \in todo[n])
    BY AtIsPick, PickIsLeft
<1>1. UNCHANGED <<outbounds, rules, scopes, relayRules, current, faults, raced, shared, partial>>
    BY DEF SetupRelay, engineVars, managerVars, controllerVars, historyVars
<1>2. \A o \in Nodes \ {n} : Still(o)
    BY <1>1 DEF Typed, TypeOK, Still, Goto, Up, Without, SetupRelay
<1>3. \A o \in Nodes \ {n} : SameRules(o) /\ SameHeld(o)
    BY <1>2, StillFrame
<1>4. Typed'
    BY <1>0, <1>1, BoundAssumption, ListAssumption DEF Typed, TypeOK, Stages, Known, Goto, Up, Without, Fault, SettingUp, TearingDown, SetupRelay
<1>5. Stages'
    BY <1>0, <1>1 DEF Typed, TypeOK, Stages, Goto, Up, Without, SettingUp, TearingDown, SetupRelay
<1>6. RulesLive' /\ RulesKept'
    <2>1. SameRules(n)
        BY <1>0, <1>1 DEF Typed, TypeOK, Stages, SameRules, RuleUsers, Goto, Up, SettingUp, TearingDown, SetupRelay
    <2>2. RulesUntouched
        BY <1>1 DEF RulesUntouched
    <2> QED BY <1>3, <1>4, <2>1, <2>2, RulesFrame
<1>7. Owned' /\ NoLeftovers' /\ Fronts'
    <2>1. HeldUsers(n)' = HeldUsers(n)
        BY <1>0, <1>1, <1>4 DEF Typed, TypeOK, Stages, HeldUsers, Goto, Up, Without, SettingUp, TearingDown, SetupRelay
    <2>2. \A u \in Users : ~HalfHeld(n, u) /\ ~HalfHeld(n, u)'
        BY <1>1 DEF Typed, TypeOK, Stages, HalfHeld, Goto, Up, SettingUp, TearingDown, SetupRelay
    <2>3. HeldUsers(n) # {} => via'[n] = via[n]
        BY <1>1 DEF Typed, TypeOK, Stages, HeldUsers, SettingUp, TearingDown, SetupRelay
    <2>4. SameHeld(n)
        BY <2>1, <2>2, <2>3 DEF SameHeld, Holds
    <2>5. OutboundsUntouched
        BY <1>1 DEF OutboundsUntouched
    <2> QED BY <1>3, <2>4, <2>5, OutboundsFrame
<1>8. Unfronting'
    <2>1. pc'[n] # "unfront"
        BY <1>1 DEF Typed, TypeOK, Goto, Up, SetupRelay
    <2> QED BY <1>1, <1>2, <2>1 DEF Unfronting, Still, Known
<1> QED BY <1>4, <1>5, <1>6, <1>7, <1>8

LEMMA CopyRulesKeeps ==
    ASSUME RInv, NEW n \in Nodes, CopyRules(n)
    PROVE  RInv'
<1> USE DEF RInv
<1>0. At(n) = Pick(todo[n]) /\ (todo[n] # {} => Pick(todo[n]) \in todo[n])
    BY AtIsPick, PickIsLeft
<1>1. UNCHANGED <<outbounds, rules, scopes, relayRules, relay, via, users, todo, setups, work, faults, raced, shared, partial>>
    BY DEF CopyRules, engineVars, managerVars, controllerVars, historyVars
<1>2. \A o \in Nodes \ {n} : Still(o)
    BY <1>1 DEF Typed, TypeOK, Still, Goto, Up, Without, CopyRules
<1>3. \A o \in Nodes \ {n} : SameRules(o) /\ SameHeld(o)
    BY <1>2, StillFrame
<1>4. Typed'
    BY <1>0, <1>1, BoundAssumption, ListAssumption DEF Typed, TypeOK, Stages, Known, Goto, Up, Without, Fault, SettingUp, TearingDown, CopyRules
<1>5. Stages'
    BY <1>0, <1>1 DEF Typed, TypeOK, Stages, Goto, Up, Without, SettingUp, TearingDown, CopyRules
<1>6. RulesLive' /\ RulesKept'
    <2>1. SameRules(n)
        BY <1>0, <1>1 DEF Typed, TypeOK, Stages, SameRules, RuleUsers, Goto, Up, SettingUp, TearingDown, CopyRules
    <2>2. RulesUntouched
        BY <1>1 DEF RulesUntouched
    <2> QED BY <1>3, <1>4, <2>1, <2>2, RulesFrame
<1>7. Owned' /\ NoLeftovers' /\ Fronts'
    <2>1. HeldUsers(n)' = HeldUsers(n)
        BY <1>0, <1>1, <1>4 DEF Typed, TypeOK, Stages, HeldUsers, Goto, Up, Without, SettingUp, TearingDown, CopyRules
    <2>2. \A u \in Users : ~HalfHeld(n, u) /\ ~HalfHeld(n, u)'
        BY <1>1 DEF Typed, TypeOK, Stages, HalfHeld, Goto, Up, SettingUp, TearingDown, CopyRules
    <2>3. HeldUsers(n) # {} => via'[n] = via[n]
        BY <1>1 DEF Typed, TypeOK, Stages, HeldUsers, SettingUp, TearingDown, CopyRules
    <2>4. SameHeld(n)
        BY <2>1, <2>2, <2>3 DEF SameHeld, Holds
    <2>5. OutboundsUntouched
        BY <1>1 DEF OutboundsUntouched
    <2> QED BY <1>3, <2>4, <2>5, OutboundsFrame
<1>8. Unfronting'
    <2>1. pc'[n] # "unfront"
        BY <1>1 DEF Typed, TypeOK, Goto, Up, CopyRules
    <2> QED BY <1>1, <1>2, <2>1 DEF Unfronting, Still, Known
<1> QED BY <1>4, <1>5, <1>6, <1>7, <1>8

LEMMA TeardownKeeps ==
    ASSUME RInv, NEW n \in Nodes, Teardown(n)
    PROVE  RInv'
<1> USE DEF RInv
<1>0. At(n) = Pick(todo[n]) /\ (todo[n] # {} => Pick(todo[n]) \in todo[n])
    BY AtIsPick, PickIsLeft
<1>1. UNCHANGED <<outbounds, rules, scopes, relayRules, relay, via, users, current, setups, work, faults, raced, shared, partial>>
    BY DEF Teardown, engineVars, managerVars, controllerVars, historyVars
<1>2. \A o \in Nodes \ {n} : Still(o)
    BY <1>1 DEF Typed, TypeOK, Still, Goto, Up, Without, Teardown
<1>3. \A o \in Nodes \ {n} : SameRules(o) /\ SameHeld(o)
    BY <1>2, StillFrame
<1>4. Typed'
    BY <1>0, <1>1, BoundAssumption, ListAssumption DEF Typed, TypeOK, Stages, Known, Goto, Up, Without, Fault, SettingUp, TearingDown, Teardown
<1>5. Stages'
    BY <1>0, <1>1 DEF Typed, TypeOK, Stages, Goto, Up, Without, SettingUp, TearingDown, Teardown
<1>6. RulesLive' /\ RulesKept'
    <2>1. SameRules(n)
        BY <1>0, <1>1 DEF Typed, TypeOK, Stages, SameRules, RuleUsers, Goto, Up, SettingUp, TearingDown, Teardown
    <2>2. RulesUntouched
        BY <1>1 DEF RulesUntouched
    <2> QED BY <1>3, <1>4, <2>1, <2>2, RulesFrame
<1>7. Owned' /\ NoLeftovers' /\ Fronts'
    <2>1. HeldUsers(n)' = HeldUsers(n)
        BY <1>0, <1>1, <1>4 DEF Typed, TypeOK, Stages, HeldUsers, Goto, Up, Without, SettingUp, TearingDown, Teardown
    <2>2. \A u \in Users : ~HalfHeld(n, u) /\ ~HalfHeld(n, u)'
        BY <1>1 DEF Typed, TypeOK, Stages, HalfHeld, Goto, Up, SettingUp, TearingDown, Teardown
    <2>3. HeldUsers(n) # {} => via'[n] = via[n]
        BY <1>1 DEF Typed, TypeOK, Stages, HeldUsers, SettingUp, TearingDown, Teardown
    <2>4. SameHeld(n)
        BY <2>1, <2>2, <2>3 DEF SameHeld, Holds
    <2>5. OutboundsUntouched
        BY <1>1 DEF OutboundsUntouched
    <2> QED BY <1>3, <2>4, <2>5, OutboundsFrame
<1>8. Unfronting'
    <2>1. pc'[n] # "unfront"
        BY <1>1 DEF Typed, TypeOK, Goto, Up, Teardown
    <2> QED BY <1>1, <1>2, <2>1 DEF Unfronting, Still, Known
<1> QED BY <1>4, <1>5, <1>6, <1>7, <1>8

LEMMA TeardownDoneKeeps ==
    ASSUME RInv, NEW n \in Nodes, TeardownDone(n)
    PROVE  RInv'
<1> USE DEF RInv
<1>0. At(n) = Pick(todo[n]) /\ (todo[n] # {} => Pick(todo[n]) \in todo[n])
    BY AtIsPick, PickIsLeft
<1>1. UNCHANGED <<outbounds, rules, scopes, relayRules, todo, current, setups, work, faults, raced, shared, partial>>
    BY DEF TeardownDone, engineVars, managerVars, controllerVars, historyVars
<1>2. \A o \in Nodes \ {n} : Still(o)
    BY <1>1 DEF Typed, TypeOK, Still, Goto, Up, Without, TeardownDone
<1>3. \A o \in Nodes \ {n} : SameRules(o) /\ SameHeld(o)
    BY <1>2, StillFrame
<1>4. Typed'
    BY <1>0, <1>1, BoundAssumption, ListAssumption DEF Typed, TypeOK, Stages, Known, Goto, Up, Without, Fault, SettingUp, TearingDown, TeardownDone
<1>5. Stages'
    BY <1>0, <1>1 DEF Typed, TypeOK, Stages, Goto, Up, Without, SettingUp, TearingDown, TeardownDone
<1>6. RulesLive' /\ RulesKept'
    <2>1. SameRules(n)
        BY <1>0, <1>1 DEF Typed, TypeOK, Stages, SameRules, RuleUsers, Goto, Up, SettingUp, TearingDown, TeardownDone
    <2>2. RulesUntouched
        BY <1>1 DEF RulesUntouched
    <2> QED BY <1>3, <1>4, <2>1, <2>2, RulesFrame
<1>7. Owned' /\ NoLeftovers' /\ Fronts'
    <2>1. HeldUsers(n)' = HeldUsers(n)
        BY <1>0, <1>1, <1>4 DEF Typed, TypeOK, Stages, HeldUsers, Goto, Up, Without, SettingUp, TearingDown, TeardownDone
    <2>2. \A u \in Users : ~HalfHeld(n, u) /\ ~HalfHeld(n, u)'
        BY <1>1 DEF Typed, TypeOK, Stages, HalfHeld, Goto, Up, SettingUp, TearingDown, TeardownDone
    <2>3. HeldUsers(n) # {} => via'[n] = via[n]
        BY <1>1 DEF Typed, TypeOK, Stages, HeldUsers, SettingUp, TearingDown, TeardownDone
    <2>4. SameHeld(n)
        BY <2>1, <2>2, <2>3 DEF SameHeld, Holds
    <2>5. OutboundsUntouched
        BY <1>1 DEF OutboundsUntouched
    <2> QED BY <1>3, <2>4, <2>5, OutboundsFrame
<1>8. Unfronting'
    <2>1. pc'[n] # "unfront"
        BY <1>1 DEF Typed, TypeOK, Goto, Up, TeardownDone
    <2> QED BY <1>1, <1>2, <2>1 DEF Unfronting, Still, Known
<1> QED BY <1>4, <1>5, <1>6, <1>7, <1>8

\* AddRule moves the subscription at hand from what is left to what is done.
LEMMA AddRuleMoves ==
    ASSUME RInv, NEW n \in Nodes, AddRule(n)
    PROVE  /\ pc[n] = "set" /\ ~relay[n] /\ todo[n] \subseteq users[n] /\ Pick(todo[n]) \in todo[n]
           /\ todo'[n] = todo[n] \ {Pick(todo[n])}
           /\ \/ todo[n] = {Pick(todo[n])} /\ pc'[n] = "idle" /\ relay'[n]
              \/ todo'[n] # {} /\ via[n] \in Fronted /\ pc'[n] = "front" /\ ~relay'[n]
              \/ todo'[n] # {} /\ via[n] \notin Fronted /\ pc'[n] = "protocol" /\ ~relay'[n]
<1>1. pc[n] = "set" /\ ~relay[n] /\ todo[n] \subseteq users[n] /\ todo[n] # {}
    BY DEF RInv, Typed, TypeOK, Stages, SettingUp, AddRule
<1>2. At(n) = Pick(todo[n]) /\ Pick(todo[n]) \in todo[n]
    BY <1>1, AtIsPick, PickIsLeft
<1>3. todo'[n] = todo[n] \ {Pick(todo[n])}
    BY <1>2 DEF RInv, Typed, AddRule, Up
<1>4. relay'[n] = (todo'[n] = {})
    BY <1>2, <1>3 DEF RInv, Typed, TypeOK, AddRule, Up
<1>5. pc'[n] = IF todo'[n] = {} THEN "idle" ELSE IF via[n] \in Fronted THEN "front" ELSE "protocol"
    BY <1>2, <1>3 DEF RInv, Typed, AddRule, Up, Goto
<1>6. todo'[n] = {} => todo[n] = {Pick(todo[n])}
    BY <1>2, <1>3
<1> QED BY <1>1, <1>2, <1>3, <1>4, <1>5, <1>6

LEMMA AddRuleKeeps ==
    ASSUME RInv, NEW n \in Nodes, AddRule(n)
    PROVE  RInv'
<1> USE DEF RInv
<1>0. At(n) = Pick(todo[n]) /\ (todo[n] # {} => Pick(todo[n]) \in todo[n])
    BY AtIsPick, PickIsLeft
<1>1. UNCHANGED <<outbounds, scopes, via, users, setups, work, faults, shared, partial>>
    BY DEF AddRule, engineVars, managerVars, controllerVars, historyVars, SetRules, KnownBut
<1>2. \A o \in Nodes \ {n} : Still(o)
    BY <1>1 DEF Typed, TypeOK, Still, Goto, Up, Without, AddRule, SetRules, KnownBut
<1>3. \A o \in Nodes \ {n} : SameRules(o) /\ SameHeld(o)
    BY <1>2, StillFrame
<1>4. Typed'
    <2> DEFINE new == Rule(n, Pick(todo[n]))
    <2>1. new \in Rules /\ new.node = n /\ new.user = Pick(todo[n]) /\ new.via = via[n]
        <3>1. via[n] \in Transits /\ setups[n] \in 1..MaxSetups /\ Pick(todo[n]) \in Users
            BY AddRuleMoves, BoundAssumption DEF Typed, TypeOK, Stages
        <3> QED BY <3>1 DEF Rule, Rules
    <2>2. /\ rules' = current[n] \cup {new}
          /\ raced' = raced \cup (rules \ current[n]) \cup (current[n] \ rules)
          /\ current' = [current EXCEPT ![n] = {}]
          /\ relayRules' = [relayRules EXCEPT ![n] = {r \in @ : r.user # Pick(todo[n]) \/ r.via # via[n]} \cup {new}]
        BY <1>0 DEF AddRule, SetRules, KnownBut, Rule
    <2>3. todo' = [todo EXCEPT ![n] = @ \ {Pick(todo[n])}]
        BY <1>0 DEF AddRule, Up
    <2>4. /\ relay' \in [Nodes -> BOOLEAN]
          /\ pc' \in [Nodes -> {"idle", "down"} \cup SettingUp \cup TearingDown]
        BY DEF Typed, TypeOK, AddRule, Up, Goto, SettingUp
    <2> HIDE DEF new
    <2>5. rules' \subseteq Rules /\ raced' \subseteq Rules
        BY <2>1, <2>2 DEF Typed, TypeOK
    <2>6. current' \in [Nodes -> SUBSET Rules] /\ todo' \in [Nodes -> SUBSET Users]
          /\ relayRules' \in [Nodes -> SUBSET Rules]
        BY <2>1, <2>2, <2>3 DEF Typed
    <2>7. ASSUME NEW o \in Nodes
          PROVE  /\ todo'[o] \subseteq users[o]
                 /\ current'[o] # {} => pc'[o] \in {"set", "unset"}
                 /\ relayRules'[o] \subseteq {r \in Rules : r.node = o}
                 /\ \A r, s \in relayRules'[o] : r.user = s.user /\ r.via = s.via => r = s
        <3>1. CASE o = n
            BY <2>1, <2>2, <2>3, <3>1 DEF Typed, TypeOK
        <3>2. CASE o # n
            BY <1>2, <2>2, <2>3, <3>2 DEF Typed, TypeOK, Still
        <3> QED BY <3>1, <3>2
    <2> QED BY <1>1, <2>4, <2>5, <2>6, <2>7 DEF Typed, TypeOK, Known
<1>5. Stages'
    <2>1. SUFFICES ASSUME NEW o \in Nodes PROVE Stages!(o)'
        BY DEF Stages
    <2>2. CASE o = n
        BY <1>1, <2>2, AddRuleMoves DEF Stages, SettingUp, TearingDown
    <2>3. CASE o # n
        BY <1>2, <2>3 DEF Stages, Still
    <2> QED BY <2>2, <2>3
<1>6. RulesLive' /\ RulesKept'
    <2> DEFINE new == Rule(n, Pick(todo[n]))
               c == current[n]
    <2>1. /\ rules' = c \cup {new}
          /\ raced' = raced \cup (rules \ c) \cup (c \ rules)
          /\ relayRules' = [relayRules EXCEPT ![n] = {r \in @ : r.user # Pick(todo[n]) \/ r.via # via[n]} \cup {new}]
        BY <1>0 DEF AddRule, SetRules, KnownBut, Rule
    <2>2. /\ RuleUsers(n)' = RuleUsers(n) \cup {Pick(todo[n])}
          /\ Pick(todo[n]) \notin RuleUsers(n)
        BY <1>0, <1>1, AddRuleMoves DEF RuleUsers, SettingUp
    <2>3. \A u \in Users : Rule(n, u)' = Rule(n, u)
        BY <1>1 DEF Rule
    <2>4. \A o \in Nodes \ {n} : RuleUsers(o)' = RuleUsers(o) /\ \A u \in Users : Rule(o, u)' = Rule(o, u)
        BY <1>1, <1>3 DEF SameRules, Rule
    <2>5. \A o \in Nodes : RuleUsers(o) \subseteq Users /\ RuleUsers(o)' \subseteq Users
        BY <1>4 DEF RuleUsers, Typed
    <2>6. Pick(todo[n]) \in Users
        BY <2>2, <2>5
    <2> HIDE DEF c
    <2>7. RulesLive'
        <3>1. SUFFICES ASSUME NEW r \in rules', r \notin raced', r.node \notin partial
                       PROVE  r.user \in RuleUsers(r.node)' /\ r = Rule(r.node, r.user)'
            BY <1>1 DEF RulesLive
        <3>2. CASE r = new
            BY <2>2, <2>3, <2>6, <3>2 DEF Rule
        <3>3. CASE r # new
            <4>1. r \in rules /\ r \notin raced
                BY <2>1, <3>1, <3>3
            <4>2. r.user \in RuleUsers(r.node) /\ r = Rule(r.node, r.user) /\ r.node \in Nodes
                BY <3>1, <4>1 DEF RulesLive, Typed, TypeOK, Rules
            <4> QED BY <2>2, <2>3, <2>4, <2>5, <4>2
        <3> QED BY <3>2, <3>3
    <2>8. RulesKept'
        <3>1. SUFFICES ASSUME NEW o \in Nodes, NEW u \in RuleUsers(o)'
                       PROVE  /\ Rule(o, u)' \in relayRules'[o]
                              /\ Rule(o, u)' \in rules' \/ Rule(o, u)' \in raced'
            BY DEF RulesKept
        <3>2. u \in Users /\ Rule(o, u)' = Rule(o, u)
            BY <2>3, <2>4, <2>5, <3>1
        <3>3. CASE o = n /\ u = Pick(todo[n])
            BY <2>1, <3>2, <3>3 DEF Typed
        <3>4. CASE o # n \/ u # Pick(todo[n])
            <4>1. u \in RuleUsers(o)
                BY <2>2, <2>4, <3>1, <3>4
            <4>2. Rule(o, u) \in relayRules[o] /\ (Rule(o, u) \in rules \/ Rule(o, u) \in raced)
                BY <4>1 DEF RulesKept
            <4>3. Rule(o, u) \in relayRules'[o]
                BY <2>1, <3>4, <4>2 DEF Typed, Rule
            <4> QED BY <2>1, <3>2, <4>2, <4>3
        <3> QED BY <3>3, <3>4
    <2> QED BY <2>7, <2>8
<1>7. Owned' /\ NoLeftovers' /\ Fronts'
    <2>1. HeldUsers(n)' = HeldUsers(n)
        BY <1>1, AddRuleMoves DEF HeldUsers
    <2>2. \A u \in Users : ~HalfHeld(n, u) /\ ~HalfHeld(n, u)'
        BY <1>1 DEF Typed, TypeOK, Stages, HalfHeld, Goto, Up, SettingUp, TearingDown, AddRule, SetRules, KnownBut
    <2>3. HeldUsers(n) # {} => via'[n] = via[n]
        BY <1>1 DEF Typed, TypeOK, Stages, HeldUsers, SettingUp, TearingDown, AddRule, SetRules, KnownBut
    <2>4. SameHeld(n)
        BY <2>1, <2>2, <2>3 DEF SameHeld, Holds
    <2>5. OutboundsUntouched
        BY <1>1 DEF OutboundsUntouched
    <2> QED BY <1>3, <2>4, <2>5, OutboundsFrame
<1>8. Unfronting'
    <2>1. pc'[n] # "unfront"
        BY <1>1 DEF Typed, TypeOK, Goto, Up, AddRule, SetRules, KnownBut
    <2> QED BY <1>1, <1>2, <2>1 DEF Unfronting, Still, Known
<1> QED BY <1>4, <1>5, <1>6, <1>7, <1>8

LEMMA RemoveRuleKeeps ==
    ASSUME RInv, NEW n \in Nodes, RemoveRule(n)
    PROVE  RInv'
<1> USE DEF RInv
<1>0. At(n) = Pick(todo[n]) /\ (todo[n] # {} => Pick(todo[n]) \in todo[n])
    BY AtIsPick, PickIsLeft
<1>1. UNCHANGED <<outbounds, scopes, relay, via, users, setups, work, faults, shared, partial>>
    BY DEF RemoveRule, engineVars, managerVars, controllerVars, historyVars, SetRules, KnownBut
<1>2. \A o \in Nodes \ {n} : Still(o)
    BY <1>1 DEF Typed, TypeOK, Still, Goto, Up, Without, RemoveRule, SetRules, KnownBut
<1>3. \A o \in Nodes \ {n} : SameRules(o) /\ SameHeld(o)
    BY <1>2, StillFrame
<1>4. Typed'
    BY <1>0, <1>1, BoundAssumption, ListAssumption DEF Typed, TypeOK, Stages, Known, Goto, Up, Without, Fault, SettingUp, TearingDown, RemoveRule, SetRules, KnownBut
<1>5. Stages'
    BY <1>0, <1>1 DEF Typed, TypeOK, Stages, Goto, Up, Without, SettingUp, TearingDown, RemoveRule, SetRules, KnownBut
<1>6. RulesLive' /\ RulesKept'
    <2> DEFINE at == Pick(todo[n])
               c == current[n]
               gone == {r \in relayRules[n] : r.user = at /\ r.via = via[n]}
    <2>1. /\ rules' = c \ gone
          /\ raced' = raced \cup (rules \ c) \cup (c \ rules)
          /\ relayRules' = [relayRules EXCEPT ![n] = @ \ gone]
        <3>1. KnownBut(n, at) = relayRules[n] \ gone /\ relayRules[n] \ KnownBut(n, at) = gone
            BY DEF KnownBut
        <3> QED BY <1>0, <3>1 DEF RemoveRule, SetRules
    <2>2. RuleUsers(n)' = RuleUsers(n) \ {at}
        BY <1>0, <1>1, <1>4 DEF Typed, TypeOK, Stages, RuleUsers, Goto, Without, SettingUp, TearingDown, RemoveRule
    <2>3. \A o \in Nodes : \A u \in Users : Rule(o, u)' = Rule(o, u)
        BY <1>1 DEF Rule
    <2>4. \A o \in Nodes \ {n} : RuleUsers(o)' = RuleUsers(o)
        BY <1>3 DEF SameRules
    <2>5. \A o \in Nodes : RuleUsers(o) \subseteq Users /\ RuleUsers(o)' \subseteq Users
        BY <1>4 DEF RuleUsers, Typed
    <2>6. \A o \in Nodes \ {n} : \A u \in Users : Rule(o, u) \notin gone
        BY DEF Typed, TypeOK, Rule
    <2>7. \A u \in Users \ {at} : Rule(n, u) \notin gone
        BY DEF Rule
    <2>8. at \in RuleUsers(n) => Rule(n, at) \in gone
        BY DEF RulesKept, Rule
    <2> HIDE DEF c, gone, at
    <2>9. RulesLive'
        <3>1. SUFFICES ASSUME NEW r \in rules', r \notin raced', r.node \notin partial
                       PROVE  r.user \in RuleUsers(r.node)' /\ r = Rule(r.node, r.user)'
            BY <1>1 DEF RulesLive
        <3>2. r \in rules /\ r \notin raced /\ r \notin gone
            BY <2>1, <3>1
        <3>3. r.user \in RuleUsers(r.node) /\ r = Rule(r.node, r.user) /\ r.node \in Nodes
            BY <3>1, <3>2 DEF RulesLive, Typed, TypeOK, Rules
        <3>4. r.node = n => r.user # at
            BY <2>8, <3>2, <3>3
        <3> QED BY <2>2, <2>3, <2>4, <2>5, <3>3, <3>4
    <2>10. RulesKept'
        <3>1. SUFFICES ASSUME NEW o \in Nodes, NEW u \in RuleUsers(o)'
                       PROVE  /\ Rule(o, u)' \in relayRules'[o]
                              /\ Rule(o, u)' \in rules' \/ Rule(o, u)' \in raced'
            BY DEF RulesKept
        <3>2. u \in Users /\ Rule(o, u)' = Rule(o, u)
            BY <2>3, <2>5, <3>1
        <3>3. u \in RuleUsers(o) /\ Rule(o, u) \notin gone
            BY <2>2, <2>4, <2>6, <2>7, <3>1, <3>2
        <3>4. Rule(o, u) \in relayRules[o] /\ (Rule(o, u) \in rules \/ Rule(o, u) \in raced)
            BY <3>3 DEF RulesKept
        <3> QED BY <2>1, <3>2, <3>3, <3>4 DEF Typed
    <2> QED BY <2>9, <2>10
<1>7. Owned' /\ NoLeftovers' /\ Fronts'
    <2>1. HeldUsers(n)' = HeldUsers(n)
        BY <1>0, <1>1, <1>4 DEF Typed, TypeOK, Stages, HeldUsers, Goto, Up, Without, SettingUp, TearingDown, RemoveRule, SetRules, KnownBut
    <2>2. \A u \in Users : ~HalfHeld(n, u) /\ ~HalfHeld(n, u)'
        BY <1>1 DEF Typed, TypeOK, Stages, HalfHeld, Goto, Up, SettingUp, TearingDown, RemoveRule, SetRules, KnownBut
    <2>3. HeldUsers(n) # {} => via'[n] = via[n]
        BY <1>1 DEF Typed, TypeOK, Stages, HeldUsers, SettingUp, TearingDown, RemoveRule, SetRules, KnownBut
    <2>4. SameHeld(n)
        BY <2>1, <2>2, <2>3 DEF SameHeld, Holds
    <2>5. OutboundsUntouched
        BY <1>1 DEF OutboundsUntouched
    <2> QED BY <1>3, <2>4, <2>5, OutboundsFrame
<1>8. Unfronting'
    <2>1. pc'[n] # "unfront"
        BY <1>1 DEF Typed, TypeOK, Goto, Up, RemoveRule, SetRules, KnownBut
    <2> QED BY <1>1, <1>2, <2>1 DEF Unfronting, Still, Known
<1> QED BY <1>4, <1>5, <1>6, <1>7, <1>8

\* A node has the outbounds whose rules it has.
LEMMA RuleUsersHeld ==
    ASSUME NEW n \in Nodes, Typed, Stages
    PROVE  RuleUsers(n) \subseteq HeldUsers(n) /\ HeldUsers(n) \subseteq users[n]
<1>1. todo[n] \subseteq users[n] /\ (todo[n] # {} => Pick(todo[n]) \in todo[n])
    BY PickIsLeft DEF Typed, TypeOK
<1> QED BY <1>1 DEF Stages, RuleUsers, HeldUsers, SettingUp, TearingDown

LEMMA AddFrontKeeps ==
    ASSUME RInv, NEW n \in Nodes, AddFront(n)
    PROVE  RInv'
<1> USE DEF RInv
<1>0. At(n) = Pick(todo[n]) /\ (todo[n] # {} => Pick(todo[n]) \in todo[n])
    BY AtIsPick, PickIsLeft
<1>1. UNCHANGED <<rules, relayRules, relay, via, users, todo, current, setups, work, faults, raced, partial>>
    BY DEF AddFront, engineVars, managerVars, controllerVars, historyVars, AddOutbound
<1> DEFINE at == Pick(todo[n])
           t == Tag(n, "shadowtls")
<1>a. t \in Tags /\ t = <<via[n], at, "shadowtls">> /\ via[n] \in Transits /\ at \in Users
    BY <1>0 DEF Typed, TypeOK, Stages, Tags, Layers, Tag, AddFront, AddOutbound
<1>b. /\ Known' = Known \cup {t} /\ outbounds'[t] = n
      /\ \A x \in Known : x # t => outbounds'[x] = outbounds[x]
      /\ outbounds' = [x \in Known' |-> outbounds'[x]]
    <2>1. outbounds' = Put(outbounds, t, n)
        BY DEF AddFront, AddOutbound
    <2> HIDE DEF t
    <2>2. /\ DOMAIN outbounds' = DOMAIN outbounds \cup {t} /\ outbounds'[t] = n
          /\ \A x \in DOMAIN outbounds : x # t => outbounds'[x] = outbounds[x]
          /\ outbounds' = [x \in DOMAIN outbounds' |-> outbounds'[x]]
        BY <2>1 DEF Put
    <2> QED BY <2>2 DEF Known
<1>c. /\ shared \subseteq shared' /\ shared' \subseteq shared \cup {t}
      /\ t \in Known /\ outbounds[t] # n => t \in shared'
    BY DEF AddFront, AddOutbound, OfAnother, Known
<1>d. /\ pc[n] = "front" /\ pc' = [pc EXCEPT ![n] = "protocol"]
      /\ scopes' = [scopes EXCEPT ![n] = @ \cup {t}]
    BY DEF AddFront, AddOutbound, Goto
<1> HIDE DEF t
<1>2. \A o \in Nodes \ {n} : Still(o)
    BY <1>1, <1>d DEF Typed, TypeOK, Still
<1>3. \A o \in Nodes \ {n} : SameRules(o) /\ SameHeld(o)
    BY <1>2, StillFrame
<1>4. Typed'
    <2>1. \A x \in Known' : x \in Tags /\ outbounds'[x] \in Nodes
        BY <1>a, <1>b DEF Typed, TypeOK, Known
    <2>2. scopes' \in [Nodes -> SUBSET Tags]
        BY <1>a, <1>d DEF Typed
    <2>3. \A o \in Nodes : current[o] # {} => pc'[o] \in {"set", "unset"}
        BY <1>d DEF Typed, TypeOK
    <2> QED BY <1>1, <1>a, <1>b, <1>c, <1>d, <2>1, <2>2, <2>3 DEF Typed, TypeOK, Known, SettingUp
<1>5. Stages'
    BY <1>1, <1>d DEF Typed, Stages, SettingUp, TearingDown
<1>6. RulesLive' /\ RulesKept'
    <2>1. SameRules(n)
        BY <1>1, <1>d DEF Typed, SameRules, RuleUsers, SettingUp
    <2>2. RulesUntouched
        BY <1>1 DEF RulesUntouched
    <2> QED BY <1>3, <1>4, <2>1, <2>2, RulesFrame
<1>e. \A u \in Users, layer \in Layers :
        Holds(n, u, layer)' <=> (Holds(n, u, layer) \/ (u = at /\ layer = "shadowtls"))
    <2>1. HeldUsers(n)' = HeldUsers(n)
        BY <1>1, <1>d DEF Typed, HeldUsers
    <2>2. \A u \in Users : /\ HalfHeld(n, u) = (FALSE)
                          /\ HalfHeld(n, u)' = (u = at /\ via[n] \in Fronted)
        BY <1>1, <1>d DEF Typed, Stages, HalfHeld
    <2>3. via[n] \in Fronted
        BY <1>d DEF Stages
    <2> QED BY <1>1, <1>a, <2>1, <2>2, <2>3 DEF Holds, Layers
<1>f. Owned'
    <2>1. SUFFICES ASSUME NEW o \in Nodes, NEW u \in Users, NEW layer \in Layers, Holds(o, u, layer)',
                          <<via[o], u, layer>> \notin shared'
                   PROVE  <<via[o], u, layer>> \in Known' /\ outbounds'[<<via[o], u, layer>>] = o
        BY <1>1 DEF Owned
    <2>2. CASE o = n /\ u = at /\ layer = "shadowtls"
        BY <1>a, <1>b, <2>2
    <2>3. CASE ~(o = n /\ u = at /\ layer = "shadowtls")
        <3>1. Holds(o, u, layer)
            BY <1>3, <1>e, <2>1, <2>3 DEF SameHeld
        <3>2. <<via[o], u, layer>> \in Known /\ outbounds[<<via[o], u, layer>>] = o
            BY <1>c, <2>1, <3>1 DEF Owned
        <3> QED BY <1>a, <1>b, <1>c, <2>1, <3>2
    <2> QED BY <2>2, <2>3
<1>g. NoLeftovers'
    <2>1. SUFFICES ASSUME faults' = 0, NEW v \in Transits, NEW u \in Users, NEW layer \in Layers,
                          <<v, u, layer>> \in Known', <<v, u, layer>> \notin shared',
                          NEW o \in Nodes, outbounds'[<<v, u, layer>>] = o
                   PROVE  v = via'[o] /\ Holds(o, u, layer)'
        BY DEF NoLeftovers
    <2>2. CASE <<v, u, layer>> = t
        BY <1>1, <1>a, <1>b, <1>e, <2>1, <2>2
    <2>3. CASE <<v, u, layer>> # t
        <3>1. <<v, u, layer>> \in Known /\ outbounds[<<v, u, layer>>] = o /\ <<v, u, layer>> \notin shared
            BY <1>b, <1>c, <2>1, <2>3
        <3>2. v = via[o] /\ Holds(o, u, layer)
            BY <1>1, <2>1, <3>1 DEF NoLeftovers
        <3> QED BY <1>1, <1>3, <1>e, <3>2 DEF SameHeld
    <2> QED BY <2>2, <2>3
<1>h. Fronts'
    <2>1. SUFFICES ASSUME NEW v \in Fronted, NEW u \in Users, <<v, u, "protocol">> \in Known',
                          outbounds'[<<v, u, "protocol">>] \notin partial,
                          <<v, u, "protocol">> \notin shared', <<v, u, "shadowtls">> \notin shared'
                   PROVE  /\ <<v, u, "shadowtls">> \in Known'
                          /\ outbounds'[<<v, u, "shadowtls">>] = outbounds'[<<v, u, "protocol">>]
        BY <1>1 DEF Fronts
    <2> DEFINE p == <<v, u, "protocol">>
               f == <<v, u, "shadowtls">>
    <2>2. p # f /\ v \in Transits
        BY FrontedAssumption
    <2>3. CASE f = t
        <3>1. p \in Known /\ outbounds'[p] = outbounds[p]
            BY <1>a, <1>b, <2>1, <2>3
        <3>2. f \in Known /\ outbounds[f] = outbounds[p]
            BY <1>c, <2>1, <3>1 DEF Fronts
        <3> QED BY <1>b, <1>c, <2>1, <2>3, <3>1, <3>2
    <2>4. CASE f # t
        <3>1. p \in Known /\ outbounds'[p] = outbounds[p]
            BY <1>a, <1>b, <2>1, <2>4
        <3>2. f \in Known /\ outbounds[f] = outbounds[p]
            BY <1>c, <2>1, <3>1 DEF Fronts
        <3> QED BY <1>b, <2>4, <3>1, <3>2
    <2> QED BY <2>3, <2>4
<1>7. Owned' /\ NoLeftovers' /\ Fronts'
    BY <1>f, <1>g, <1>h
<1>8. Unfronting'
    <2>1. SUFFICES ASSUME NEW o \in Nodes, pc'[o] = "unfront", via[o] \in Fronted
                   PROVE  \/ <<via[o], Pick(todo[o]), "protocol">> \notin Known'
                          \/ <<via[o], Pick(todo[o]), "protocol">> \in shared'
                          \/ <<via[o], Pick(todo[o]), "shadowtls">> \in shared'
        BY <1>1 DEF Unfronting
    <2>2. o # n /\ pc[o] = "unfront"
        BY <1>d, <2>1 DEF Typed
    <2>3. <<via[o], Pick(todo[o]), "protocol">> # t
        BY <1>a
    <2> QED BY <1>b, <1>c, <2>1, <2>2, <2>3 DEF Unfronting
<1> QED BY <1>4, <1>5, <1>6, <1>7, <1>8

LEMMA AddProtocolKeeps ==
    ASSUME RInv, NEW n \in Nodes, AddProtocol(n)
    PROVE  RInv'
<1> USE DEF RInv
<1>0. At(n) = Pick(todo[n]) /\ (todo[n] # {} => Pick(todo[n]) \in todo[n])
    BY AtIsPick, PickIsLeft
<1>1. UNCHANGED <<rules, relayRules, relay, via, users, todo, current, setups, work, faults, raced, partial>>
    BY DEF AddProtocol, engineVars, managerVars, controllerVars, historyVars, AddOutbound
<1> DEFINE at == Pick(todo[n])
           t == Tag(n, "protocol")
<1>a. t \in Tags /\ t = <<via[n], at, "protocol">> /\ via[n] \in Transits /\ at \in Users
    BY <1>0 DEF Typed, TypeOK, Stages, Tags, Layers, Tag, AddProtocol, AddOutbound
<1>b. /\ Known' = Known \cup {t} /\ outbounds'[t] = n
      /\ \A x \in Known : x # t => outbounds'[x] = outbounds[x]
      /\ outbounds' = [x \in Known' |-> outbounds'[x]]
    <2>1. outbounds' = Put(outbounds, t, n)
        BY DEF AddProtocol, AddOutbound
    <2> HIDE DEF t
    <2>2. /\ DOMAIN outbounds' = DOMAIN outbounds \cup {t} /\ outbounds'[t] = n
          /\ \A x \in DOMAIN outbounds : x # t => outbounds'[x] = outbounds[x]
          /\ outbounds' = [x \in DOMAIN outbounds' |-> outbounds'[x]]
        BY <2>1 DEF Put
    <2> QED BY <2>2 DEF Known
<1>c. /\ shared \subseteq shared' /\ shared' \subseteq shared \cup {t}
      /\ t \in Known /\ outbounds[t] # n => t \in shared'
    BY DEF AddProtocol, AddOutbound, OfAnother, Known
<1>d. /\ pc[n] = "protocol" /\ pc' = [pc EXCEPT ![n] = "copy"]
      /\ scopes' = [scopes EXCEPT ![n] = @ \cup {t}]
    BY DEF AddProtocol, AddOutbound, Goto
<1> HIDE DEF t
<1>2. \A o \in Nodes \ {n} : Still(o)
    BY <1>1, <1>d DEF Typed, TypeOK, Still
<1>3. \A o \in Nodes \ {n} : SameRules(o) /\ SameHeld(o)
    BY <1>2, StillFrame
<1>4. Typed'
    <2>1. \A x \in Known' : x \in Tags /\ outbounds'[x] \in Nodes
        BY <1>a, <1>b DEF Typed, TypeOK, Known
    <2>2. scopes' \in [Nodes -> SUBSET Tags]
        BY <1>a, <1>d DEF Typed
    <2>3. \A o \in Nodes : current[o] # {} => pc'[o] \in {"set", "unset"}
        BY <1>d DEF Typed, TypeOK
    <2> QED BY <1>1, <1>a, <1>b, <1>c, <1>d, <2>1, <2>2, <2>3 DEF Typed, TypeOK, Known, SettingUp
<1>5. Stages'
    BY <1>1, <1>d DEF Typed, Stages, SettingUp, TearingDown
<1>6. RulesLive' /\ RulesKept'
    <2>1. SameRules(n)
        BY <1>1, <1>d DEF Typed, SameRules, RuleUsers, SettingUp
    <2>2. RulesUntouched
        BY <1>1 DEF RulesUntouched
    <2> QED BY <1>3, <1>4, <2>1, <2>2, RulesFrame
<1>e. \A u \in Users, layer \in Layers :
        Holds(n, u, layer)' <=> (Holds(n, u, layer) \/ (u = at /\ layer = "protocol"))
    <2>1. HeldUsers(n)' = HeldUsers(n) \cup {at}
        BY <1>1, <1>d DEF Typed, HeldUsers
    <2>2. \A u \in Users : /\ HalfHeld(n, u) = (u = at /\ via[n] \in Fronted)
                          /\ HalfHeld(n, u)' = (FALSE)
        BY <1>1, <1>d DEF Typed, Stages, HalfHeld
    <2>3. TRUE
        BY <1>d DEF Stages
    <2> QED BY <1>1, <1>a, <2>1, <2>2, <2>3 DEF Holds, Layers
<1>f. Owned'
    <2>1. SUFFICES ASSUME NEW o \in Nodes, NEW u \in Users, NEW layer \in Layers, Holds(o, u, layer)',
                          <<via[o], u, layer>> \notin shared'
                   PROVE  <<via[o], u, layer>> \in Known' /\ outbounds'[<<via[o], u, layer>>] = o
        BY <1>1 DEF Owned
    <2>2. CASE o = n /\ u = at /\ layer = "protocol"
        BY <1>a, <1>b, <2>2
    <2>3. CASE ~(o = n /\ u = at /\ layer = "protocol")
        <3>1. Holds(o, u, layer)
            BY <1>3, <1>e, <2>1, <2>3 DEF SameHeld
        <3>2. <<via[o], u, layer>> \in Known /\ outbounds[<<via[o], u, layer>>] = o
            BY <1>c, <2>1, <3>1 DEF Owned
        <3> QED BY <1>a, <1>b, <1>c, <2>1, <3>2
    <2> QED BY <2>2, <2>3
<1>g. NoLeftovers'
    <2>1. SUFFICES ASSUME faults' = 0, NEW v \in Transits, NEW u \in Users, NEW layer \in Layers,
                          <<v, u, layer>> \in Known', <<v, u, layer>> \notin shared',
                          NEW o \in Nodes, outbounds'[<<v, u, layer>>] = o
                   PROVE  v = via'[o] /\ Holds(o, u, layer)'
        BY DEF NoLeftovers
    <2>2. CASE <<v, u, layer>> = t
        BY <1>1, <1>a, <1>b, <1>e, <2>1, <2>2
    <2>3. CASE <<v, u, layer>> # t
        <3>1. <<v, u, layer>> \in Known /\ outbounds[<<v, u, layer>>] = o /\ <<v, u, layer>> \notin shared
            BY <1>b, <1>c, <2>1, <2>3
        <3>2. v = via[o] /\ Holds(o, u, layer)
            BY <1>1, <2>1, <3>1 DEF NoLeftovers
        <3> QED BY <1>1, <1>3, <1>e, <3>2 DEF SameHeld
    <2> QED BY <2>2, <2>3
<1>h. Fronts'
    <2>1. SUFFICES ASSUME NEW v \in Fronted, NEW u \in Users, <<v, u, "protocol">> \in Known',
                          outbounds'[<<v, u, "protocol">>] \notin partial,
                          <<v, u, "protocol">> \notin shared', <<v, u, "shadowtls">> \notin shared'
                   PROVE  /\ <<v, u, "shadowtls">> \in Known'
                          /\ outbounds'[<<v, u, "shadowtls">>] = outbounds'[<<v, u, "protocol">>]
        BY <1>1 DEF Fronts
    <2> DEFINE p == <<v, u, "protocol">>
               f == <<v, u, "shadowtls">>
    <2>2. p # f /\ v \in Transits
        BY FrontedAssumption
    <2>3. CASE p = t
        <3>1. v = via[n] /\ u = at
            BY <1>a, <2>3
        <3>2. Holds(n, u, "shadowtls")
            BY <1>d, <2>1, <3>1 DEF Holds, HalfHeld
        <3>3. f \in Known /\ outbounds[f] = n
            BY <1>c, <2>1, <3>1, <3>2 DEF Owned, Layers
        <3> QED BY <1>b, <2>2, <2>3, <3>3
    <2>4. CASE p # t
        <3>1. p \in Known /\ outbounds'[p] = outbounds[p]
            BY <1>b, <2>1, <2>4
        <3>2. f \in Known /\ outbounds[f] = outbounds[p]
            BY <1>c, <2>1, <3>1 DEF Fronts
        <3>3. f # t
            BY <1>a
        <3> QED BY <1>b, <3>1, <3>2, <3>3
    <2> QED BY <2>3, <2>4
<1>7. Owned' /\ NoLeftovers' /\ Fronts'
    BY <1>f, <1>g, <1>h
<1>8. Unfronting'
    <2>1. SUFFICES ASSUME NEW o \in Nodes, pc'[o] = "unfront", via[o] \in Fronted
                   PROVE  \/ <<via[o], Pick(todo[o]), "protocol">> \notin Known'
                          \/ <<via[o], Pick(todo[o]), "protocol">> \in shared'
                          \/ <<via[o], Pick(todo[o]), "shadowtls">> \in shared'
        BY <1>1 DEF Unfronting
    <2>2. o # n /\ pc[o] = "unfront"
        BY <1>d, <2>1 DEF Typed
    <2>3. CASE <<via[o], Pick(todo[o]), "protocol">> = t
        <3>1. via[o] = via[n] /\ Pick(todo[o]) = at
            BY <1>a, <2>3
        <3>2. Holds(n, at, "shadowtls") /\ Holds(o, at, "shadowtls")
            BY <1>d, <2>1, <2>2, <3>1 DEF Holds, HalfHeld
        <3>3. <<via[n], at, "shadowtls">> \in shared
            BY <1>a, <2>2, <3>1, <3>2 DEF Owned, Layers
        <3> QED BY <1>c, <3>1, <3>3
    <2>4. CASE <<via[o], Pick(todo[o]), "protocol">> # t
        BY <1>b, <1>c, <2>1, <2>2, <2>4 DEF Unfronting
    <2> QED BY <2>3, <2>4
<1> QED BY <1>4, <1>5, <1>6, <1>7, <1>8

\* A failing step of node n: it holds nothing afterwards, and the outbound
\* it removed, if any, was its own or is shared.
GivesUp(n) ==
    /\ faults' # 0 /\ via' = via /\ partial \subseteq partial'
    /\ \A u \in Users, layer \in Layers : ~Holds(n, u, layer)'
    /\ \/ UNCHANGED <<outbounds, shared>>
       \/ \E t \in Tags :
            /\ outbounds' = Restrict(outbounds, DOMAIN outbounds \ {t})
            /\ shared' = shared \cup OfAnother(n, t)
            /\ n \in partial'

LEMMA GivingUp ==
    ASSUME RInv, NEW n \in Nodes, GivesUp(n),
           \A o \in Nodes \ {n} : SameHeld(o)
    PROVE  Owned' /\ NoLeftovers' /\ Fronts' /\ shared \subseteq shared' /\ Known' \subseteq Known
<1> USE DEF RInv
<1>1. NoLeftovers'
    BY DEF NoLeftovers, GivesUp
<1>2. CASE UNCHANGED <<outbounds, shared>>
    <2>1. Owned'
        BY <1>2 DEF Owned, Known, GivesUp, SameHeld
    <2>2. Fronts'
        BY <1>2 DEF Fronts, Known, GivesUp
    <2> QED BY <1>1, <1>2, <2>1, <2>2 DEF Known
<1>3. ASSUME NEW t \in Tags,
             outbounds' = Restrict(outbounds, DOMAIN outbounds \ {t}),
             shared' = shared \cup OfAnother(n, t),
             n \in partial'
      PROVE  Owned' /\ Fronts' /\ shared \subseteq shared' /\ Known' \subseteq Known
    <2>1. Known' = Known \ {t} /\ \A x \in Known' : outbounds'[x] = outbounds[x]
        BY <1>3 DEF Known, Restrict
    <2>2. shared \subseteq shared' /\ (t \in Known /\ outbounds[t] # n => t \in shared')
        BY <1>3 DEF OfAnother, Known
    <2>3. Owned'
        <3>1. SUFFICES ASSUME NEW o \in Nodes, NEW u \in Users, NEW layer \in Layers,
                              Holds(o, u, layer)', <<via'[o], u, layer>> \notin shared'
                       PROVE  <<via'[o], u, layer>> \in Known' /\ outbounds'[<<via'[o], u, layer>>] = o
            BY DEF Owned
        <3>2. o # n /\ via' = via /\ Holds(o, u, layer)
            BY <3>1 DEF GivesUp, SameHeld
        <3>3. <<via[o], u, layer>> \in Known /\ outbounds[<<via[o], u, layer>>] = o
            BY <2>2, <3>1, <3>2 DEF Owned
        <3> QED BY <2>1, <2>2, <3>1, <3>2, <3>3
    <2>4. Fronts'
        <3>1. SUFFICES ASSUME NEW v \in Fronted, NEW u \in Users, <<v, u, "protocol">> \in Known',
                              outbounds'[<<v, u, "protocol">>] \notin partial',
                              <<v, u, "protocol">> \notin shared', <<v, u, "shadowtls">> \notin shared'
                       PROVE  /\ <<v, u, "shadowtls">> \in Known'
                              /\ outbounds'[<<v, u, "shadowtls">>] = outbounds'[<<v, u, "protocol">>]
            BY DEF Fronts
        <3> DEFINE p == <<v, u, "protocol">>
                   f == <<v, u, "shadowtls">>
        <3>2. p \in Known /\ outbounds'[p] = outbounds[p] /\ outbounds[p] \notin partial'
            BY <2>1, <3>1
        <3>3. f \in Known /\ outbounds[f] = outbounds[p] /\ outbounds[f] # n
            BY <1>3, <2>2, <3>1, <3>2 DEF Fronts, GivesUp
        <3>4. f # t
            BY <2>2, <3>1, <3>3
        <3> QED BY <2>1, <3>2, <3>3, <3>4
    <2> QED BY <2>1, <2>2, <2>3, <2>4
<1> QED BY <1>1, <1>2, <1>3 DEF GivesUp

LEMMA RemoveOutboundFailsKeeps ==
    ASSUME RInv, NEW n \in Nodes, RemoveOutboundFails(n)
    PROVE  RInv'
<1> USE DEF RInv
<1>0. At(n) = Pick(todo[n]) /\ (todo[n] # {} => Pick(todo[n]) \in todo[n])
    BY AtIsPick, PickIsLeft
<1>1. UNCHANGED <<outbounds, rules, relayRules, relay, via, users, current, setups, work, raced, shared, partial>>
    BY DEF RemoveOutboundFails, engineVars, managerVars, controllerVars, historyVars
<1>2. \A o \in Nodes \ {n} : Still(o)
    BY <1>1 DEF Typed, TypeOK, Still, Goto, Up, Without, RemoveOutboundFails
<1>3. \A o \in Nodes \ {n} : SameRules(o) /\ SameHeld(o)
    BY <1>2, StillFrame
<1>4. Typed'
    BY <1>0, <1>1, BoundAssumption, ListAssumption DEF Typed, TypeOK, Stages, Known, Goto, Up, Without, Fault, SettingUp, TearingDown, RemoveOutboundFails
<1>5. Stages'
    BY <1>0, <1>1 DEF Typed, TypeOK, Stages, Goto, Up, Without, SettingUp, TearingDown, RemoveOutboundFails
<1>6. RulesLive' /\ RulesKept'
    <2>1. SameRules(n)
        BY <1>0, <1>1 DEF Typed, TypeOK, Stages, SameRules, RuleUsers, Goto, Up, SettingUp, TearingDown, RemoveOutboundFails
    <2>2. RulesUntouched
        BY <1>1 DEF RulesUntouched
    <2> QED BY <1>3, <1>4, <2>1, <2>2, RulesFrame
<1>7. Owned' /\ NoLeftovers' /\ Fronts' /\ shared \subseteq shared' /\ Known' \subseteq Known
    <2>1. faults' # 0 /\ partial \subseteq partial'
        BY <1>1 DEF Typed, TypeOK, Fault, RemoveOutboundFails
    <2>2. HeldUsers(n)' = {}
        BY <1>0, <1>1, <1>4 DEF Typed, TypeOK, Stages, HeldUsers, Goto, SettingUp, TearingDown, RemoveOutboundFails
    <2>3. \A u \in Users, layer \in Layers : ~Holds(n, u, layer)'
        BY <1>1, <2>2 DEF Typed, HalfHeld, Holds, Goto, RemoveOutboundFails
    <2>4. GivesUp(n)
        BY <1>1, <2>1, <2>3 DEF GivesUp
    <2> QED BY <1>3, <2>4, GivingUp
<1>8. Unfronting'
    <2>1. pc'[n] # "unfront"
        BY <1>1 DEF Typed, TypeOK, Goto, RemoveOutboundFails
    <2> QED BY <1>1, <1>2, <1>7, <2>1 DEF Unfronting, Still
<1> QED BY <1>4, <1>5, <1>6, <1>7, <1>8

LEMMA AddRelayFailsKeeps ==
    ASSUME RInv, NEW n \in Nodes, AddRelayFails(n)
    PROVE  RInv'
<1> USE DEF RInv
<1>0. At(n) = Pick(todo[n]) /\ (todo[n] # {} => Pick(todo[n]) \in todo[n])
    BY AtIsPick, PickIsLeft
<1>1. UNCHANGED <<rules, relayRules, relay, via, users, current, setups, work, raced>>
    BY DEF AddRelayFails, engineVars, managerVars, controllerVars, historyVars
<1>2. \A o \in Nodes \ {n} : Still(o)
    BY <1>1 DEF Typed, TypeOK, Still, Goto, Up, Without, AddRelayFails
<1>3. \A o \in Nodes \ {n} : SameRules(o) /\ SameHeld(o)
    BY <1>2, StillFrame
<1>4. Typed'
    <2>1. Known' \subseteq Known /\ (\A x \in Known' : outbounds'[x] = outbounds[x])
          /\ outbounds' = [x \in Known' |-> outbounds'[x]]
        BY DEF AddRelayFails, Restrict, Known, Typed
    <2>2. shared' \subseteq Tags
        BY DEF AddRelayFails, OfAnother, Typed, TypeOK
    <2>3. scopes' \in [Nodes -> SUBSET Tags] /\ faults' \in 0..MaxFaults
        BY BoundAssumption DEF AddRelayFails, Typed, TypeOK, Fault
    <2>4. /\ todo' = [todo EXCEPT ![n] = {}] /\ pc' = [pc EXCEPT ![n] = "idle"]
          /\ partial' = partial \cup {n} /\ pc[n] \in {"front", "protocol", "copy"}
        BY DEF AddRelayFails, Goto
    <2> QED BY <1>1, <2>1, <2>2, <2>3, <2>4 DEF Typed, TypeOK, Known
<1>5. Stages'
    BY <1>1, <1>4 DEF Typed, TypeOK, Stages, Goto, SettingUp, TearingDown, AddRelayFails
<1>6. RulesLive' /\ RulesKept'
    <2>1. n \in partial' /\ RuleUsers(n)' = {}
        BY <1>1 DEF Typed, Stages, RuleUsers, Goto, SettingUp, AddRelayFails
    <2>2. RulesUntouched
        BY <1>1 DEF RulesUntouched, AddRelayFails
    <2> QED BY <1>3, <1>4, <2>1, <2>2, RulesFrame
<1>7. Owned' /\ NoLeftovers' /\ Fronts' /\ shared \subseteq shared' /\ Known' \subseteq Known
    <2>1. faults' # 0 /\ partial \subseteq partial'
        BY DEF Typed, TypeOK, Fault, AddRelayFails
    <2>2. HeldUsers(n)' = {}
        BY <1>0, <1>1, <1>4 DEF Typed, TypeOK, Stages, HeldUsers, Goto, SettingUp, TearingDown, AddRelayFails
    <2>3. \A u \in Users, layer \in Layers : ~Holds(n, u, layer)'
        BY <1>1, <2>2 DEF Typed, HalfHeld, Holds, Goto, AddRelayFails
    <2>4. \A layer \in Layers : Tag(n, layer) \in Tags
        BY <1>0 DEF Typed, TypeOK, Stages, Tags, Tag, AddRelayFails
    <2>5. GivesUp(n)
        BY <1>1, <2>1, <2>3, <2>4 DEF GivesUp, Layers, AddRelayFails
    <2> QED BY <1>3, <2>5, GivingUp
<1>8. Unfronting'
    <2>1. pc'[n] # "unfront"
        BY <1>1 DEF Typed, TypeOK, Goto, AddRelayFails
    <2> QED BY <1>1, <1>2, <1>7, <2>1 DEF Unfronting, Still
<1> QED BY <1>4, <1>5, <1>6, <1>7, <1>8

LEMMA RemoveProtocolKeeps ==
    ASSUME RInv, NEW n \in Nodes, RemoveProtocol(n)
    PROVE  RInv'
<1> USE DEF RInv
<1>0. At(n) = Pick(todo[n]) /\ (todo[n] # {} => Pick(todo[n]) \in todo[n])
    BY AtIsPick, PickIsLeft
<1>1. UNCHANGED <<rules, relayRules, relay, via, users, todo, current, setups, work, faults, raced, shared, partial>>
    BY DEF RemoveProtocol, engineVars, managerVars, controllerVars, historyVars, Detach
<1> DEFINE at == Pick(todo[n])
           t == Tag(n, "protocol")
<1>a. t \in Tags /\ t = <<via[n], at, "protocol">> /\ via[n] \in Transits /\ at \in Users /\ at \in todo[n]
    BY <1>0 DEF Typed, TypeOK, Stages, Tags, Layers, Tag, TearingDown, RemoveProtocol
<1>b. /\ Known' = Known \ {t} /\ \A x \in Known' : outbounds'[x] = outbounds[x]
      /\ outbounds' = [x \in Known' |-> outbounds'[x]]
    BY DEF RemoveProtocol, Detach, Restrict, Known
<1>c. pc[n] = "unprotocol" /\ scopes' \in [Nodes -> SUBSET Tags]
    BY DEF RemoveProtocol, Detach, Typed
<1>d. pc' = [pc EXCEPT ![n] = "unfront"] /\ todo' = todo
    BY <1>0 DEF RemoveProtocol, Goto, Without
<1> HIDE DEF t
<1>2. \A o \in Nodes \ {n} : Still(o)
    BY <1>1, <1>d DEF Typed, TypeOK, Still
<1>3. \A o \in Nodes \ {n} : SameRules(o) /\ SameHeld(o)
    BY <1>2, StillFrame
<1>4. Typed'
    BY <1>1, <1>b, <1>c, <1>d DEF Typed, TypeOK, Known, TearingDown
<1>5. Stages'
    BY <1>1, <1>c, <1>d, <1>a DEF Typed, Stages, SettingUp, TearingDown
<1>6. RulesLive' /\ RulesKept'
    <2>1. SameRules(n)
        BY <1>1, <1>c, <1>d DEF Typed, SameRules, RuleUsers, SettingUp
    <2>2. RulesUntouched
        BY <1>1 DEF RulesUntouched
    <2> QED BY <1>3, <1>4, <2>1, <2>2, RulesFrame
<1>e. \A u \in Users, layer \in Layers :
        Holds(n, u, layer)' <=> (Holds(n, u, layer) /\ ~(u = at /\ layer = "protocol"))
    <2>1. HeldUsers(n) = todo[n] /\ HeldUsers(n)' = todo[n] \ {at}
        BY <1>1, <1>c, <1>d DEF Typed, HeldUsers
    <2>2. \A u \in Users : ~HalfHeld(n, u) /\ HalfHeld(n, u)' = (u = at /\ via[n] \in Fronted)
        BY <1>1, <1>c, <1>d DEF Typed, HalfHeld
    <2> QED BY <1>1, <1>a, <2>1, <2>2 DEF Holds, Layers
<1>f. t \in shared \/ (t \in Known /\ outbounds[t] = n)
    <2>1. Holds(n, at, "protocol")
        BY <1>a, <1>c DEF Holds, HeldUsers
    <2> QED BY <1>a, <2>1 DEF Owned, Layers
<1>g. Owned'
    <2>1. SUFFICES ASSUME NEW o \in Nodes, NEW u \in Users, NEW layer \in Layers, Holds(o, u, layer)',
                          <<via[o], u, layer>> \notin shared
                   PROVE  <<via[o], u, layer>> \in Known' /\ outbounds'[<<via[o], u, layer>>] = o
        BY <1>1 DEF Owned
    <2>2. Holds(o, u, layer)
        BY <1>3, <1>e, <2>1 DEF SameHeld
    <2>3. <<via[o], u, layer>> \in Known /\ outbounds[<<via[o], u, layer>>] = o
        BY <2>1, <2>2 DEF Owned
    <2>4. <<via[o], u, layer>> # t
        BY <1>a, <1>e, <1>f, <2>1, <2>3
    <2> QED BY <1>b, <2>3, <2>4
<1>h. NoLeftovers'
    <2>1. SUFFICES ASSUME faults' = 0, NEW v \in Transits, NEW u \in Users, NEW layer \in Layers,
                          <<v, u, layer>> \in Known', <<v, u, layer>> \notin shared',
                          NEW o \in Nodes, outbounds'[<<v, u, layer>>] = o
                   PROVE  v = via'[o] /\ Holds(o, u, layer)'
        BY DEF NoLeftovers
    <2>2. <<v, u, layer>> \in Known /\ outbounds[<<v, u, layer>>] = o /\ <<v, u, layer>> # t
        BY <1>b, <2>1
    <2>3. v = via[o] /\ Holds(o, u, layer)
        BY <1>1, <2>1, <2>2 DEF NoLeftovers
    <2> QED BY <1>1, <1>3, <1>a, <1>e, <2>2, <2>3 DEF SameHeld
<1>i. Fronts'
    <2>1. SUFFICES ASSUME NEW v \in Fronted, NEW u \in Users, <<v, u, "protocol">> \in Known',
                          outbounds'[<<v, u, "protocol">>] \notin partial,
                          <<v, u, "protocol">> \notin shared, <<v, u, "shadowtls">> \notin shared
                   PROVE  /\ <<v, u, "shadowtls">> \in Known'
                          /\ outbounds'[<<v, u, "shadowtls">>] = outbounds'[<<v, u, "protocol">>]
        BY <1>1 DEF Fronts
    <2> DEFINE p == <<v, u, "protocol">>
               f == <<v, u, "shadowtls">>
    <2>2. p \in Known /\ outbounds'[p] = outbounds[p] /\ f \in Known /\ outbounds[f] = outbounds[p]
        BY <1>b, <2>1 DEF Fronts
    <2>3. f # t
        BY <1>1, <1>a, <1>b, <1>c, <2>1, <2>2 DEF Unfronting
    <2> QED BY <1>b, <2>2, <2>3
<1>7. Owned' /\ NoLeftovers' /\ Fronts'
    BY <1>g, <1>h, <1>i
<1>8. Unfronting'
    <2>1. SUFFICES ASSUME NEW o \in Nodes, pc'[o] = "unfront", via[o] \in Fronted
                   PROVE  \/ <<via[o], Pick(todo'[o]), "protocol">> \notin Known'
                          \/ <<via[o], Pick(todo'[o]), "protocol">> \in shared
                          \/ <<via[o], Pick(todo'[o]), "shadowtls">> \in shared
        BY <1>1 DEF Unfronting
    <2>2. CASE o = n
        BY <1>1, <1>a, <1>b, <1>d, <2>1, <2>2 DEF Typed
    <2>3. CASE o # n
        BY <1>2, <1>b, <2>1, <2>3 DEF Unfronting, Still
    <2> QED BY <2>2, <2>3
<1> QED BY <1>4, <1>5, <1>6, <1>7, <1>8

LEMMA RemoveFrontKeeps ==
    ASSUME RInv, NEW n \in Nodes, RemoveFront(n)
    PROVE  RInv'
<1> USE DEF RInv
<1>0. At(n) = Pick(todo[n]) /\ (todo[n] # {} => Pick(todo[n]) \in todo[n])
    BY AtIsPick, PickIsLeft
<1>1. UNCHANGED <<rules, relayRules, relay, via, users, current, setups, work, faults, raced, shared, partial>>
    BY DEF RemoveFront, engineVars, managerVars, controllerVars, historyVars, Detach
<1> DEFINE at == Pick(todo[n])
           t == Tag(n, "shadowtls")
<1>a. t \in Tags /\ t = <<via[n], at, "shadowtls">> /\ via[n] \in Transits /\ at \in Users /\ at \in todo[n]
    BY <1>0 DEF Typed, TypeOK, Stages, Tags, Layers, Tag, TearingDown, RemoveFront
<1>b. /\ Known' = Known \ {t} /\ \A x \in Known' : outbounds'[x] = outbounds[x]
      /\ outbounds' = [x \in Known' |-> outbounds'[x]]
    BY DEF RemoveFront, Detach, Restrict, Known
<1>c. pc[n] = "unfront" /\ scopes' \in [Nodes -> SUBSET Tags]
    BY DEF RemoveFront, Detach, Typed
<1>d. /\ todo' = [todo EXCEPT ![n] = @ \ {at}]
      /\ pc' = [pc EXCEPT ![n] = IF todo[n] = {at} THEN "down" ELSE "unprotocol"]
    BY <1>0 DEF RemoveFront, Goto, Without
<1> HIDE DEF t
<1>2. \A o \in Nodes \ {n} : Still(o)
    BY <1>1, <1>d DEF Typed, TypeOK, Still
<1>3. \A o \in Nodes \ {n} : SameRules(o) /\ SameHeld(o)
    BY <1>2, StillFrame
<1>4. Typed'
    BY <1>1, <1>b, <1>c, <1>d DEF Typed, TypeOK, Known, TearingDown
<1>5. Stages'
    BY <1>1, <1>c, <1>d, <1>a DEF Typed, Stages, SettingUp, TearingDown
<1>6. RulesLive' /\ RulesKept'
    <2>1. SameRules(n)
        BY <1>1, <1>c, <1>d DEF Typed, SameRules, RuleUsers, SettingUp
    <2>2. RulesUntouched
        BY <1>1 DEF RulesUntouched
    <2> QED BY <1>3, <1>4, <2>1, <2>2, RulesFrame
<1>e. \A u \in Users, layer \in Layers :
        Holds(n, u, layer)' <=> (Holds(n, u, layer) /\ ~(u = at /\ layer = "shadowtls"))
    <2>1. HeldUsers(n) = todo[n] \ {at} /\ HeldUsers(n)' = todo[n] \ {at}
        BY <1>1, <1>c, <1>d DEF Typed, HeldUsers
    <2>2. \A u \in Users : ~HalfHeld(n, u)' /\ HalfHeld(n, u) = (u = at /\ via[n] \in Fronted)
        BY <1>1, <1>c, <1>d DEF Typed, HalfHeld
    <2> QED BY <1>1, <1>a, <2>1, <2>2 DEF Holds, Layers
<1>f. via[n] \in Fronted => t \in shared \/ (t \in Known /\ outbounds[t] = n)
    <2>1. via[n] \in Fronted => Holds(n, at, "shadowtls")
        BY <1>a, <1>c DEF Holds, HalfHeld
    <2> QED BY <1>a, <2>1 DEF Owned, Layers
<1>g. Owned'
    <2>1. SUFFICES ASSUME NEW o \in Nodes, NEW u \in Users, NEW layer \in Layers, Holds(o, u, layer)',
                          <<via[o], u, layer>> \notin shared
                   PROVE  <<via[o], u, layer>> \in Known' /\ outbounds'[<<via[o], u, layer>>] = o
        BY <1>1 DEF Owned
    <2>2. Holds(o, u, layer)
        BY <1>3, <1>e, <2>1 DEF SameHeld
    <2>3. <<via[o], u, layer>> \in Known /\ outbounds[<<via[o], u, layer>>] = o
        BY <2>1, <2>2 DEF Owned
    <2>4. <<via[o], u, layer>> # t
        <3>1. layer = "shadowtls" => via[o] \in Fronted
            BY <2>2 DEF Holds, HalfHeld
        <3> QED BY <1>a, <1>e, <1>f, <2>1, <2>3, <3>1
    <2> QED BY <1>b, <2>3, <2>4
<1>h. NoLeftovers'
    <2>1. SUFFICES ASSUME faults' = 0, NEW v \in Transits, NEW u \in Users, NEW layer \in Layers,
                          <<v, u, layer>> \in Known', <<v, u, layer>> \notin shared',
                          NEW o \in Nodes, outbounds'[<<v, u, layer>>] = o
                   PROVE  v = via'[o] /\ Holds(o, u, layer)'
        BY DEF NoLeftovers
    <2>2. <<v, u, layer>> \in Known /\ outbounds[<<v, u, layer>>] = o /\ <<v, u, layer>> # t
        BY <1>b, <2>1
    <2>3. v = via[o] /\ Holds(o, u, layer)
        BY <1>1, <2>1, <2>2 DEF NoLeftovers
    <2> QED BY <1>1, <1>3, <1>a, <1>e, <2>2, <2>3 DEF SameHeld
<1>i. Fronts'
    <2>1. SUFFICES ASSUME NEW v \in Fronted, NEW u \in Users, <<v, u, "protocol">> \in Known',
                          outbounds'[<<v, u, "protocol">>] \notin partial,
                          <<v, u, "protocol">> \notin shared, <<v, u, "shadowtls">> \notin shared
                   PROVE  /\ <<v, u, "shadowtls">> \in Known'
                          /\ outbounds'[<<v, u, "shadowtls">>] = outbounds'[<<v, u, "protocol">>]
        BY <1>1 DEF Fronts
    <2> DEFINE p == <<v, u, "protocol">>
               f == <<v, u, "shadowtls">>
    <2>2. p \in Known /\ outbounds'[p] = outbounds[p] /\ f \in Known /\ outbounds[f] = outbounds[p]
        BY <1>b, <2>1 DEF Fronts
    <2>3. f # t
        BY <1>1, <1>a, <1>b, <1>c, <2>1, <2>2 DEF Unfronting
    <2> QED BY <1>b, <2>2, <2>3
<1>7. Owned' /\ NoLeftovers' /\ Fronts'
    BY <1>g, <1>h, <1>i
<1>8. Unfronting'
    <2>1. SUFFICES ASSUME NEW o \in Nodes, pc'[o] = "unfront", via[o] \in Fronted
                   PROVE  \/ <<via[o], Pick(todo'[o]), "protocol">> \notin Known'
                          \/ <<via[o], Pick(todo'[o]), "protocol">> \in shared
                          \/ <<via[o], Pick(todo'[o]), "shadowtls">> \in shared
        BY <1>1 DEF Unfronting
    <2>2. CASE o = n
        BY <1>1, <1>a, <1>b, <1>d, <2>1, <2>2 DEF Typed
    <2>3. CASE o # n
        BY <1>2, <1>b, <2>1, <2>3 DEF Unfronting, Still
    <2> QED BY <2>2, <2>3
<1> QED BY <1>4, <1>5, <1>6, <1>7, <1>8

-----------------------------------------------------------------------------
\* The theorems

LEMMA InitKeeps == Init => RInv
<1> SUFFICES ASSUME Init PROVE RInv
    OBVIOUS
<1>1. Typed
    BY BoundAssumption DEF Init, Typed, TypeOK, Known
<1>2. Stages
    BY DEF Init, Stages, SettingUp, TearingDown
<1>3. \A n \in Nodes : RuleUsers(n) = {} /\ HeldUsers(n) = {}
    BY DEF Init, RuleUsers, HeldUsers, SettingUp
<1>4. \A n \in Nodes, u \in Users : ~HalfHeld(n, u)
    BY DEF Init, HalfHeld
<1>5. Known = {} /\ rules = {} /\ \A n \in Nodes : pc[n] # "unfront"
    BY DEF Init, Known
<1>6. Owned /\ NoLeftovers /\ Fronts /\ Unfronting
    BY <1>3, <1>4, <1>5 DEF Owned, NoLeftovers, Fronts, Unfronting, Holds
<1>7. RulesLive /\ RulesKept
    BY <1>3, <1>5 DEF RulesLive, RulesKept
<1> QED BY <1>1, <1>2, <1>6, <1>7 DEF RInv

LEMMA NextKeeps == RInv /\ [Next]_vars => RInv'
<1> SUFFICES ASSUME RInv, [Next]_vars PROVE RInv'
    OBVIOUS
<1>1. ASSUME NEW n \in Nodes,
             \/ SetupRelay(n) \/ AddFront(n) \/ AddProtocol(n) \/ AddRelayFails(n)
             \/ CopyRules(n) \/ AddRule(n)
      PROVE  RInv'
    BY <1>1, SetupRelayKeeps, AddFrontKeeps, AddProtocolKeeps, AddRelayFailsKeeps,
       CopyRulesKeeps, AddRuleKeeps
<1>2. ASSUME NEW n \in Nodes,
             \/ Teardown(n) \/ RemoveRule(n)
             \/ RemoveProtocol(n) \/ RemoveFront(n) \/ RemoveOutboundFails(n) \/ TeardownDone(n)
      PROVE  RInv'
    BY <1>2, TeardownKeeps, RemoveRuleKeeps, RemoveProtocolKeeps, RemoveFrontKeeps,
       RemoveOutboundFailsKeeps, TeardownDoneKeeps
<1>3. CASE UNCHANGED vars
    <2> USE <1>3 DEF vars, engineVars, managerVars, controllerVars, historyVars
    <2>1. \A n \in Nodes : Still(n)
        BY DEF Still
    <2>2. \A n \in Nodes : SameRules(n) /\ SameHeld(n)
        BY <2>1, StillFrame
    <2>3. Typed' /\ Stages'
        BY DEF RInv, Typed, TypeOK, Known, Stages
    <2>4. RulesLive' /\ RulesKept'
        BY <2>2, <2>3, RulesFrame DEF RInv, RulesUntouched
    <2>5. Owned' /\ NoLeftovers' /\ Fronts'
        BY <2>2, OutboundsFrame DEF RInv, OutboundsUntouched
    <2>6. Unfronting'
        BY DEF RInv, Unfronting, Known
    <2> QED BY <2>3, <2>4, <2>5, <2>6 DEF RInv
<1> QED BY <1>1, <1>2, <1>3 DEF Next

\* What the nodes have and what the engine has keep step, for any nodes.
THEOREM RelayInductive == Spec => []RInv
BY InitKeeps, NextKeeps, PTL DEF Spec

\* The types of the relays' state.
THEOREM RelayTypeCorrect == Spec => []TypeOK
<1>1. RInv => TypeOK
    BY DEF RInv, Typed
<1> QED BY <1>1, RelayInductive, PTL

LEMMA NeededOutbounds ==
    ASSUME NEW t \in Transits, NEW u \in Users, NEW x \in Needed(t, u)
    PROVE  \E layer \in Layers : x = <<t, u, layer>> /\ (layer = "shadowtls" => t \in Fronted)
BY DEF Needed, Layers

\* "Nothing is left naming an outbound that has already gone": at every step
\* a rule finds its outbounds, unless an outdated copy brought it back, its
\* node failed half-way, or another node used the tag.
THEOREM RulesKeepTheirOutbounds == Spec => []RulesFindOutbounds
<1>1. RInv => RulesFindOutbounds
    <2> SUFFICES ASSUME RInv PROVE RulesFindOutbounds
        OBVIOUS
    <2> USE DEF RInv
    <2>1. ASSUME NEW r \in rules, r \notin raced, r.node \notin partial,
                 Needed(r.via, r.user) \cap shared = {}
          PROVE  Needed(r.via, r.user) \subseteq DOMAIN outbounds
        <3>1. r.node \in Nodes /\ r.user \in Users /\ r.via \in Transits
            BY DEF Typed, TypeOK, Rules
        <3>2. r.user \in RuleUsers(r.node) /\ r.via = via[r.node]
            BY <2>1 DEF RulesLive, Rule
        <3>3. r.user \in HeldUsers(r.node)
            BY <3>1, <3>2, RuleUsersHeld
        <3>4. SUFFICES ASSUME NEW x \in Needed(r.via, r.user)
                       PROVE  x \in DOMAIN outbounds
            OBVIOUS
        <3>5. PICK layer \in Layers : x = <<r.via, r.user, layer>> /\ (layer = "shadowtls" => r.via \in Fronted)
            BY <3>1, NeededOutbounds
        <3>6. Holds(r.node, r.user, layer)
            BY <3>2, <3>3, <3>5 DEF Holds
        <3>7. x \notin shared
            BY <2>1
        <3> QED BY <3>1, <3>2, <3>5, <3>6, <3>7 DEF Owned, Known
    <2>2. ASSUME NEW t \in Fronted, NEW u \in Users, <<t, u, "protocol">> \in DOMAIN outbounds
          PROVE  \/ Needed(t, u) \subseteq DOMAIN outbounds
                 \/ outbounds[<<t, u, "protocol">>] \in partial \/ Needed(t, u) \cap shared # {}
        BY <2>2 DEF Fronts, Known, Needed
    <2> QED BY <2>1, <2>2 DEF RulesFindOutbounds
<1> QED BY <1>1, RelayInductive, PTL

\* Between calls router.rules holds exactly the latest rule of each relayed
\* subscription, but for what an outdated copy lost or brought back and what
\* a failed set-up left; without faults no other outbound is registered.
THEOREM TheEngineFollowsTheRelays == Spec => []EngineFollowsRelays
<1>1. RInv => EngineFollowsRelays
    <2> SUFFICES ASSUME RInv, \A n \in Nodes : pc[n] = "idle"
                 PROVE  /\ \A r \in rules : r \in Wanted \/ r \in raced \/ r.node \in partial
                        /\ \A r \in Wanted : r \in rules \/ r \in raced
                        /\ faults = 0 => \A t \in DOMAIN outbounds :
                              t \in shared \/ \E r \in Wanted : t \in Needed(r.via, r.user)
        BY DEF EngineFollowsRelays
    <2> USE DEF RInv
    <2>1. \A n \in Nodes : RuleUsers(n) = IF relay[n] THEN users[n] ELSE {}
        BY DEF RuleUsers, SettingUp
    <2>2. \A n \in Nodes, u \in Users, layer \in Layers : Holds(n, u, layer) =>
             relay[n] /\ u \in users[n] /\ (layer = "shadowtls" => via[n] \in Fronted)
        BY DEF Holds, HalfHeld, HeldUsers
    <2>3. \A n \in Nodes : relay[n] => \A u \in users[n] : Rule(n, u) \in Wanted
        <3>1. \A n \in Nodes : relay[n] => \A u \in users[n] : Rule(n, u) \in Rules
            BY DEF RulesKept, Typed, RuleUsers, SettingUp
        <3> QED BY <3>1 DEF Wanted, Rule
    <2>4. ASSUME NEW r \in rules, r \notin raced, r.node \notin partial PROVE r \in Wanted
        <3>1. r.node \in Nodes /\ r.user \in RuleUsers(r.node) /\ r = Rule(r.node, r.user)
            BY <2>4 DEF RulesLive, Typed, TypeOK, Rules
        <3>2. relay[r.node] /\ r.user \in users[r.node]
            BY <2>1, <3>1
        <3> QED BY <2>3, <3>1, <3>2
    <2>5. ASSUME NEW r \in Wanted PROVE r \in rules \/ r \in raced
        <3>1. r \in Rules /\ r.node \in Nodes /\ r.user \in RuleUsers(r.node)
            BY <2>1 DEF Wanted, Rules
        <3>2. r = Rule(r.node, r.user)
            BY <3>1 DEF Wanted, Rule, Rules
        <3> QED BY <3>1, <3>2 DEF RulesKept
    <2>6. ASSUME faults = 0, NEW x \in DOMAIN outbounds, x \notin shared
          PROVE  \E r \in Wanted : x \in Needed(r.via, r.user)
        <3>1. PICK t \in Transits, u \in Users, layer \in Layers : x = <<t, u, layer>>
            BY DEF Typed, TypeOK, Tags
        <3>2. PICK n \in Nodes : outbounds[x] = n
            BY DEF Typed, TypeOK
        <3>3. t = via[n] /\ Holds(n, u, layer)
            BY <2>6, <3>1, <3>2 DEF NoLeftovers, Known
        <3>4. relay[n] /\ u \in users[n] /\ (layer = "shadowtls" => via[n] \in Fronted)
            BY <2>2, <3>3
        <3>5. Rule(n, u) \in Wanted
            BY <2>3, <3>4
        <3>6. x \in Needed(via[n], u)
            BY <3>1, <3>3, <3>4 DEF Needed, Layers
        <3> QED BY <3>5, <3>6 DEF Rule
    <2> QED BY <2>4, <2>5, <2>6
<1> QED BY <1>1, RelayInductive, PTL
=============================================================================
