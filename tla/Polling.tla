------------------------------- MODULE Polling -------------------------------
(***************************************************************************)
(* How a change in the panel reaches a controller: the triggers of Reverb, *)
(* webhookTriggerLoop, the "node" task and ruleMonitor (controller.go),    *)
(* GetNodeInfo and GetNodeRule with their ETags (api/node.go) and the rules*)
(* by tag (helper/rule/rule.go).                                           *)
(*                                                                         *)
(* apiMonitor, which Reconcile.tla has in full, is here a request and, for *)
(* an answer that is not 304, its use.  The loop and the task both call it *)
(* and nothing keeps them apart.  Time is what debounceDuration needs of   *)
(* it: is the last sync less than three seconds ago?                       *)
(***************************************************************************)
EXTENDS Naturals

CONSTANTS
    Tags,       \* node tags
    MaxChanges, \* bound on changes of the node or its subscriptions in the panel
    MaxRules,   \* lists of rules there are besides the empty one
    MaxRuleChanges, \* bound on changes of the rules
    MaxPushes,  \* bound on events that reach the controller
    MaxFaults   \* bound on requests that fail

ASSUME BoundAssumption ==
    /\ MaxChanges \in Nat /\ MaxRules \in Nat /\ MaxRuleChanges \in Nat
    /\ MaxPushes \in Nat /\ MaxFaults \in Nat
ASSUME TagsAssumption == Tags # {}

Callers == {"loop", "task"}
Kinds == {"node", "subscription"}
Answers == [id : 0..MaxChanges, tag : Tags]
Rules == 0..MaxRules
Empty == 0                          \* rules that are an empty list

VARIABLES
    conf,       \* the panel: the latest version of the node, and its tag
    seen,       \* the version c.eTags["server"] stands for
    node,       \* what the controller applied, with c.Tag
    callerPc, got,    \* where each caller is, and the answers it holds
    trigger,    \* kinds with a token in their channel of capacity one
    kind,       \* the trigger the loop serves, if any
    quiet,      \* is lastSync within debounceDuration?
    pushed,     \* history: the version of the latest event
    served,     \* history: the version the loop's latest request was answered with
    dropped,    \* history: a token was discarded since that request
    stale,      \* history: seen stands for an answer that was not applied last
    rules,      \* the panel's rules
    ruleSeen,   \* the rules c.eTags["rule"] stands for
    rulePc, ruleGot,
    blocking,   \* globalManager: tag -> rules
    astray,     \* history: seen rules were not stored under what is c.Tag now
    pushes, ruleChanges, faults

loopVars == <<trigger, kind, quiet, pushed, served, dropped, pushes>>
nodeVars == <<seen, node, callerPc, got, stale>>
ruleVars == <<ruleSeen, rulePc, ruleGot, blocking>>
panelVars == <<conf, rules, ruleChanges>>
pollingVars == <<panelVars, nodeVars, loopVars, ruleVars, astray, faults>>

\* Controller.Start has fetched everything once.  Which tag and which rules it found
\* makes no difference.
PollingInit ==
    /\ conf = [id |-> 0, tag |-> CHOOSE t \in Tags : TRUE]
    /\ node = conf /\ seen = 0
    /\ callerPc = [c \in Callers |-> "idle"] /\ got = [c \in Callers |-> {}]
    /\ trigger = {} /\ kind = {} /\ quiet = FALSE
    /\ pushed = 0 /\ served = 0 /\ dropped = FALSE /\ stale = FALSE
    /\ rules = MaxRules /\ ruleSeen = rules
    /\ rulePc = "idle" /\ ruleGot = Empty
    /\ blocking = [t \in Tags |-> IF t = node.tag THEN rules ELSE Empty]
    /\ astray = FALSE
    /\ pushes = 0 /\ ruleChanges = 0 /\ faults = 0

Goto(c, label) == callerPc' = [callerPc EXCEPT ![c] = label]
Fault == faults < MaxFaults /\ faults' = faults + 1

-----------------------------------------------------------------------------
(***************************************************************************)
(* The panel and its events.                                               *)
(***************************************************************************)
Change ==
    /\ conf.id < MaxChanges
    /\ conf' \in [id : {conf.id + 1}, tag : Tags]
    /\ UNCHANGED <<rules, ruleChanges, nodeVars, loopVars, ruleVars, astray, faults>>

ChangeRules ==
    /\ ruleChanges < MaxRuleChanges
    /\ ruleChanges' = ruleChanges + 1
    /\ rules' \in Rules \ {rules}
    /\ UNCHANGED <<conf, nodeVars, loopVars, ruleVars, astray, faults>>

Event(k) ==
    /\ pushes < MaxPushes
    /\ pushes' = pushes + 1
    /\ pushed' = conf.id
    /\ UNCHANGED <<panelVars, nodeVars, kind, quiet, served, dropped, ruleVars, astray, faults>>

\* Mutant: a channel without a buffer, that only a waiting loop receives from.
TriggerUnbuffered(k) ==
    /\ Event(k)
    /\ trigger' = IF callerPc["loop"] = "idle" THEN trigger \cup {k} ELSE trigger

\* TriggerNodeSync and TriggerSubscriptionSync: a full channel has a token already.
Trigger(k) == Event(k) /\ trigger' = trigger \cup {k}

-----------------------------------------------------------------------------
(***************************************************************************)
(* webhookTriggerLoop.  A token taken within the quiet period is thrown    *)
(* away; so is one of the same kind that arrives while it is served.  The  *)
(* ticker counts as a sync and makes none.                                 *)
(***************************************************************************)
Debounce(k) ==
    /\ callerPc["loop"] = "idle" /\ k \in trigger /\ quiet
    /\ trigger' = trigger \ {k}
    /\ dropped' = TRUE
    /\ UNCHANGED <<panelVars, nodeVars, kind, quiet, pushed, served, pushes, ruleVars,
                   astray, faults>>

Take(k) ==
    /\ callerPc["loop"] = "idle" /\ k \in trigger /\ ~quiet
    /\ trigger' = trigger \ {k} /\ kind' = {k}
    /\ Goto("loop", "request")
    /\ UNCHANGED <<panelVars, seen, node, got, stale, quiet, pushed, served, dropped, pushes,
                   ruleVars, astray, faults>>

Synced ==
    /\ callerPc["loop"] = "synced"
    /\ trigger' = trigger \ kind
    /\ dropped' = (dropped \/ kind \cap trigger # {})
    /\ kind' = {} /\ quiet' = TRUE
    /\ Goto("loop", "idle")
    /\ UNCHANGED <<panelVars, seen, node, got, stale, pushed, served, pushes, ruleVars,
                   astray, faults>>

Ticker ==
    /\ callerPc["loop"] = "idle" /\ ~quiet
    /\ quiet' = TRUE
    /\ UNCHANGED <<panelVars, nodeVars, trigger, kind, pushed, served, dropped, pushes,
                   ruleVars, astray, faults>>

QuietEnds ==
    /\ quiet /\ quiet' = FALSE
    /\ UNCHANGED <<panelVars, nodeVars, trigger, kind, pushed, served, dropped, pushes,
                   ruleVars, astray, faults>>

-----------------------------------------------------------------------------
(***************************************************************************)
(* apiMonitor, as the loop and the "node" task call it.                    *)
(***************************************************************************)
TaskDue ==
    /\ callerPc["task"] = "idle"
    /\ Goto("task", "request")
    /\ UNCHANGED <<panelVars, seen, node, got, stale, loopVars, ruleVars, astray, faults>>

After(c) == IF c = "loop" THEN "synced" ELSE "idle"

Answered(c) ==
    IF c = "loop" THEN served' = conf.id /\ dropped' = FALSE ELSE UNCHANGED <<served, dropped>>

\* Mutant: the ETag is not remembered.
RequestNoETag(c) ==
    /\ callerPc[c] = "request"
    /\ got' = [got EXCEPT ![c] = {conf}] /\ Goto(c, "apply")
    /\ Answered(c)
    /\ UNCHANGED <<panelVars, seen, node, stale, trigger, kind, quiet, pushed, pushes, ruleVars,
                   astray, faults>>

Request(c) ==
    /\ callerPc[c] = "request"
    /\ IF conf.id = seen THEN Goto(c, After(c)) /\ UNCHANGED got
                         ELSE Goto(c, "apply") /\ got' = [got EXCEPT ![c] = {conf}]
    /\ seen' = conf.id
    /\ Answered(c)
    /\ UNCHANGED <<panelVars, node, stale, trigger, kind, quiet, pushed, pushes, ruleVars,
                   astray, faults>>

\* No answer, or one whose ETag is stored and that is of no use: it does not parse,
\* or the request for the subscriptions behind it fails.
RequestFails(c) ==
    /\ callerPc[c] = "request"
    /\ Fault
    /\ \/ UNCHANGED <<seen, stale>>
       \/ seen' = conf.id /\ stale' = (stale \/ conf.id # seen)
    /\ dropped' = (dropped \/ c = "loop")
    /\ Goto(c, After(c))
    /\ UNCHANGED <<panelVars, node, got, trigger, kind, quiet, pushed, served, pushes, ruleVars,
                   astray>>

Use(c) ==
    /\ got' = [got EXCEPT ![c] = {}]
    /\ astray' = (astray \/ node'.tag # node.tag)
    /\ Goto(c, After(c))
    /\ UNCHANGED <<panelVars, seen, loopVars, ruleVars, faults>>

\* Mutant: only an answer with another tag replaces c.nodeInfo.
ApplyOtherTag(c) ==
    /\ callerPc[c] = "apply"
    /\ \E answer \in got[c] : node' = IF answer.tag # node.tag THEN answer ELSE node
    /\ stale' = \E answer \in got[c] : answer.id # seen
    /\ Use(c)

Apply(c) ==
    /\ callerPc[c] = "apply"
    /\ node' \in got[c]
    /\ stale' = (node'.id # seen)
    /\ Use(c)

-----------------------------------------------------------------------------
(***************************************************************************)
(* ruleMonitor.  The rules go under the tag of the moment they are stored, *)
(* and an empty list is not stored.                                        *)
(***************************************************************************)
GetRules ==
    /\ rulePc = "idle"
    /\ IF rules = ruleSeen THEN UNCHANGED <<rulePc, ruleGot>>
                           ELSE rulePc' = "store" /\ ruleGot' = rules
    /\ ruleSeen' = rules
    /\ UNCHANGED <<panelVars, nodeVars, loopVars, blocking, astray, faults>>

\* No answer, or one with a pattern that does not compile.
GetRulesFails ==
    /\ rulePc = "idle" /\ rules # ruleSeen
    /\ Fault
    /\ \/ UNCHANGED <<ruleSeen, astray>>
       \/ ruleSeen' = rules /\ astray' = TRUE
    /\ UNCHANGED <<panelVars, nodeVars, loopVars, rulePc, ruleGot, blocking>>

\* Mutant: rules the tag has already are kept.
StoreFirstRules ==
    /\ rulePc = "store"
    /\ IF ruleGot = Empty \/ blocking[node.tag] # Empty
         THEN UNCHANGED <<blocking, astray>>
         ELSE /\ blocking' = [blocking EXCEPT ![node.tag] = ruleGot]
              /\ astray' = FALSE
    /\ rulePc' = "idle" /\ ruleGot' = Empty
    /\ UNCHANGED <<panelVars, nodeVars, loopVars, ruleSeen, faults>>

StoreRules ==
    /\ rulePc = "store"
    /\ IF ruleGot = Empty
         THEN UNCHANGED <<blocking, astray>>
         ELSE /\ blocking' = [blocking EXCEPT ![node.tag] = ruleGot]
              /\ astray' = FALSE
    /\ rulePc' = "idle" /\ ruleGot' = Empty
    /\ UNCHANGED <<panelVars, nodeVars, loopVars, ruleSeen, faults>>

LoopStep == Request("loop") \/ Apply("loop") \/ Synced
            \/ \E k \in Kinds : Take(k) \/ Debounce(k)
TaskStep == TaskDue \/ Request("task") \/ Apply("task")
RuleStep == GetRules \/ StoreRules

PollingNext ==
    \/ Change \/ ChangeRules \/ \E k \in Kinds : Trigger(k)
    \/ LoopStep \/ Ticker \/ QuietEnds
    \/ TaskStep \/ \E c \in Callers : RequestFails(c)
    \/ RuleStep \/ GetRulesFails

\* The goroutines of the loop and of both tasks keep running.
PollingFairness == WF_pollingVars(LoopStep) /\ WF_pollingVars(TaskStep) /\ WF_pollingVars(RuleStep)

PollingSpec == PollingInit /\ [][PollingNext]_pollingVars /\ PollingFairness

-----------------------------------------------------------------------------
(***************************************************************************)
(* Properties                                                              *)
(***************************************************************************)

PollingTypeOK ==
    /\ conf \in Answers /\ node \in Answers
    /\ seen <= conf.id /\ node.id <= seen /\ pushed <= conf.id /\ served <= conf.id
    /\ \A c \in Callers : got[c] \subseteq Answers /\ \A answer \in got[c] : answer.id <= seen
    /\ \A c \in Callers : (callerPc[c] = "apply") <=> (got[c] # {})
    /\ callerPc["loop"] \in {"idle", "request", "apply", "synced"}
    /\ callerPc["task"] \in {"idle", "request", "apply"}
    /\ trigger \subseteq Kinds /\ kind \subseteq Kinds
    /\ rules \in Rules /\ ruleSeen \in Rules /\ ruleGot \in Rules
    /\ rulePc \in {"idle", "store"}
    /\ blocking \in [Tags -> Rules]

\* The controller catches up with the panel without any event, by its node task,
\* unless an answer was stored as seen and not used, or two callers applied their
\* answers in the opposite order: then the 304 answers hide the change.
ChangeIsApplied == [](node # conf => <>(node = conf \/ stale))

\* An event makes the loop ask the panel afterwards, however many arrive while it is
\* busy, unless the quiet period or the drain after a sync discards its token.
EventIsServed == [](served < pushed => <>(served >= pushed \/ dropped))

\* A change of the rules comes into force under the node's tag, unless the tag has
\* changed since they were fetched or they could not be compiled.  (An empty list
\* never does: ruleMonitor keeps the old rules.)
RulesComeIntoForce ==
    [](blocking[node.tag] # rules => <>(blocking[node.tag] = rules \/ rules = Empty \/ astray))
=============================================================================
