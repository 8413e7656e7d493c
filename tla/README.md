# XMBox in TLA+

XMBox is a node agent: it asks a panel which proxy nodes a machine has to run,
runs them in one sing-box engine, keeps their users up to date while they run,
and reports traffic and online addresses. This directory holds TLA+ models of
its own logic (what it adds to sing-box), the TLC runs that check them, and
proofs that TLAPS checks. Paths below are relative to `src/`.

## The system

| component | state it keeps | operations | called by |
|---|---|---|---|
| scheduler (`helper/scheduler`) | a Periodic's `running`, `gen`, `timer`; a task's flag; a Manager's task list | Start, Close, run, RestartWithInterval, AddAndStart, RemoveTask, GetTask, CloseAll | controller, instance |
| controller (`controller`) | `nodeInfo`, `Tag`, `subscriptionList`, `Relay`, poll interval, trigger channels | Start, Close, apiMonitor, webhookTriggerLoop, ruleMonitor, certificate tasks | its tasks, the webhook loop, instance |
| subscription manager (`subscription/manager.go`) | none of its own | Add, Remove, Compare, SubscriptionMonitor, reportTraffic | controller |
| limiter (`limiter`) | per tag: node settings, users, token buckets; in Redis: addresses | AddLimiter, UpdateLimiter, RemoveSubscriptions, CheckLimiter, DrainDeltas, ResetTraffic, GetOnlineIPs | controller, manager, dispatcher |
| dispatcher (`core/dispatcher`) | tracked connections, counters per tag and user | RoutedConnection, CloseUserConns, DeleteCounter | sing-box's router, manager |
| protocol inbounds (`core/inbound/protocol`) | user table, name snapshot, the protocol service's user set | AddUsers, DelUsers, syncService, newConnection | manager, sing-box |
| ShadowTLS front (`shadowtls.go`) | its users | Create, Start, AddUsers, DelUsers | node manager, subscription manager |
| API client (`api`) | ETags | conditional GETs, reports with retries | controller, manager, instance |
| node manager (`node/node.go`) | relay rules and routing scopes by tag | AddNode, RemoveNode, AddRelayTag, RemoveRelayTag, RemoveRelayRules | controller |
| option builders (`node/inbound.go`, `outbound.go`, `router.go`) | none | panel answers into sing-box options; where a certificate comes from | node manager |
| instance (`core/instance`) | `controllerMap`, `Service`, `currentPusher`, outbound queue, `mu` | Start, Stop, syncServerNodes, reverbListener, PushEvent | process, panel events |
| certificates (`helper/cert`, `node/selfsinged.go`) | `.crt` and `.key` files, the service on the challenge port | Save, checkAndReuse, HTTPCert, RenewCert, SaveResource | node manager, certificate tasks |
| rules (`helper/rule`) | compiled patterns by tag | UpdateRule, CheckRule | ruleMonitor, dispatcher |
| server status, reload (`cmd/root.go`), command-line tools | a debounce clock | | process |

How they interact. The instance starts one controller per node the panel lists.
A controller starts tasks; each task runs in timer goroutines. `apiMonitor` runs
in the "node" task and also in the webhook loop, and drives node manager,
subscription manager and limiter. The node managers of all controllers share one
engine: its inbounds, its outbounds and its list of routing rules. Connections
run in goroutines of sing-box and meet the rest in the user tables, the
dispatcher, the limiter and the counters. Anything may push events over Reverb:
`PushEvent` puts an item into a channel and waits for `drainReverbOutbound`.

What is hard here: nothing serialises two `apiMonitor` calls or the restart of a
task with `CloseAll`; user changes race with connections that have just
authenticated; a report may fail, be lost or be applied twice; several nodes
share one Redis, one engine and one pair of certificate files; a poll, a build
or a save can fail between any two of its steps, and the process can die there;
an ETag makes the panel silent about what was lost; goroutines wait for one
another through one mutex and one channel. `PROJECT.json` lists each such hazard
with its line and the properties about it.

What makes each component correct:

- scheduler: one chain of executions per Start, none after Close, never a
  running task with nothing armed; one task per tag; nothing runs unlisted.
- user tables: the service accepts the users of the table, again after a refused
  set; a connection is attributed to the user whose credential it presented or to
  nobody; a removed user's connections are closed when the removal succeeds.
- controller: after a poll the running state is what the panel's answers ask
  for; after a failing one, what it remembers is what runs, but for the users a call
  failed for; Close leaves nothing;
  a change of the panel arrives with or without an event.
- traffic: what connections carried = what was billed + what is still counted.
- addresses: never more addresses connected than the limit; recorded = reported.
- inbounds: protocol and front are up together, know the same users where no call
  failed between them, and are to a client one listener.
- relays: a rule never names an outbound that is gone; the engine has exactly
  the rules the nodes know of.
- certificates: the files are a pair whenever somebody reloads them; an expiring
  one is replaced; the panel pins what is served; a stopped service comes back.
- instance: the running controllers are known, follow the panel's list as far as
  their ports are free, and whoever pushes an event gets an answer.

## Modules

| module | models | state and code |
|---|---|---|
| `Periodic` | `helper/scheduler/periodic.go` | `running`, `gen`, `timer` as in the struct; each `time.AfterFunc` with its goroutine is a *call* with a program counter; one action per critical section |
| `Ticker` | abstract promise of a Periodic | `on`, `epoch`, `inflight` |
| `Scheduler` | `scheduler.go`, `cert_tasks.go`, the restart loops and Close of the controller | `list` = `m.tasks`; actors are goroutines inside `apiMonitor`; a Periodic is one flag, which `Periodic` justifies |
| `InboundUsers` | AddUsers, DelUsers and syncService of eight protocols | `users`, `snap` = `nameSnap`, `service` = what the protocol service accepts; the protocols are records of the four traits in which they differ, among them whether a refused set is an error of the call (`LockedListFails`, `PushRefused`) |
| `Revocation` (extends `InboundUsers`) | connections, dispatcher, AddSubscriptions and RemoveSubscriptions | `entries` = the tracker's map; a program counter per connection; `RemoveFails` is a removal that returns before it closes anything |
| `Reconcile` | `apiMonitor`, `setupRelay`, Close and what they drive | `nodeInfo`, `list`, `relay` of the controller; `inbound` (its table, `users`, and what is accepted, `serves`), `limits`, `rules` the running state; the four calls that apply a comparison are steps of their own, each may fail and is only logged; `pnode`, `psubs` the panel; `seenNode`, `seenSubs` the ETags |
| `Polling` | triggers, `webhookTriggerLoop`, the "node" task and `ruleMonitor`; `helper/rule` | `trigger` = the tokens in both channels; `node`, `conf` what the controller and the panel have; a program counter per caller of `apiMonitor` |
| `Traffic` | counters, DrainDeltas, Chunk, reportTraffic, HTTP fallback | `counter` per tag generation; a program counter per overlapping monitor; a push may also get through and report an error (`PushUnsure`) |
| `IPLimit` | the Redis script, sweeps, reports of addresses | `fields` = the hash; sweepers read, delete, report in separate steps |
| `Chain` | AddNode, startInbounds, RemoveNode (`node/node.go`), the ShadowTLS front, the two layers of AddSubscriptions and RemoveSubscriptions | `inbounds` = the inbound manager, by tag and layer, each with its table and what its service accepts; `scopes`; `node` and `list` the controller's; a program counter |
| `Listener` | abstract promise of a chain to its clients | which tag accepts, and whom |
| `Relay` | AddRelayTag, RemoveRelayTag, RemoveRelayRules of several nodes | `outbounds` and `rules` are the engine's, `scopes` and `relayRules` each manager's; the copy of `router.rules` is taken and put back in two steps |
| `Certificates` | Save and checkAndReuse, HTTPCert, RenewCert, SaveResource, the certificate monitors and reports | `crt`, `key` the two files; `lock` = `saveMu`; `service` what listens on the challenge port |
| `Instance` | `instance.go`, `server_poller.go`, `reverb.go` | `mu` = who holds `i.mu` over several steps; `queue` = `reverbOutbound`; `controllerMap`, `Service`, `currentPusher` as in the struct; `halfway` = nodes whose port the listener of a failed Start keeps |
| `Tasks_proofs` | theorems about `Periodic`, `Scheduler` and `Polling` | |
| `Subscriptions_proofs` | theorems about `Revocation` and `Traffic` | |
| `IPLimit_proofs`, `Chain_proofs`, `Relay_proofs`, `Certificates_proofs`, `Reconcile_proofs`, `Instance_proofs` | theorems about the module of that name | |

Modules whose theorems share a proof module have names of their own where they
would clash (`SchedulerInit`, `PollingNext`, `TrafficSpec`, `trafficVars`).

`MC_*` modules and their `.cfg` files give the constants. Definitions under a
"Mutant:" comment are not part of a specification: each is a plausible bug that
a property catches. `PROJECT.json` pairs one with every property; the others
show that each conjunct of a property made of several can be broken.

How the modules compose.

- `Revocation` composes the user table with connections and dispatcher.
- `Periodic` implements `Ticker`, and `Scheduler`, `Traffic`, `IPLimit` and
  `Polling` use what `Ticker` says and does not say: after a restart an
  execution of the old epoch may overlap one of the new, so those modules have
  several monitors, sweepers or callers.
- `Reconcile` takes AddNode and RemoveNode as one step that succeeds or fails, and
  each call that adds or removes users likewise. A failed one changes the
  inbound's table and leaves open, user by user, whether what is accepted follows
  (`Between`). `Revocation` (a service that refuses a set) and `Chain` (two layers,
  and a call that ends between them) are the inside of these steps. `Chain` implements
  `Listener`, which is all `Reconcile` needs of AddNode: a failed one leaves
  nothing that accepts anybody.
- `Reconcile` is one node; `Relay` is several of them in one engine.
- `Polling` is when `apiMonitor` runs and with which answer; `Reconcile` is what
  it does with it.
- `Instance` treats a controller as started or closed; the other modules are
  what such a controller does in between.

## Runs

| run | shows | bounds |
|---|---|---|
| `periodic` | `OneTimerChain`: no fork, no stall, no timer after Close; `Quiesces`: every goroutine ends after a last Close; `ImplementsTicker`, with its fairness | 4 calls, 6 generations: three Start/Close pairs, so calls of three generations coexist |
| `scheduler` | `TasksFollowList`: one task per tag; listed tasks run but for a restart under way; a task dropped from the list runs only if a restart held it | 2 actors, 3 certificate tasks, 2 intervals, 3 `apiMonitor` calls |
| `revocation` | `ServiceAgreesAlone`: service and table agree unless pushes overlapped or the last set was refused; `NamedAfterOwner`: nobody is misattributed, users in use are named; `RemovalCloses`: the tracker is exact, survivors of a removal had authenticated before and were not yet tracked, or the removal returned an error | 2 users, 2 credentials, 2 callers, 1 connection, 3 protocols (Trojan, Hysteria2, AnyTLS) that cover the traits' combinations, 2 slots, any call may be refused; 3.6 million states |
| `reconcile` | `ReconciledWithoutFaults`: the running state is the answers'; `ListTellsTheTruth`: after any failure list, limiter, inbound and relay agree, but for users a call failed for; `CloseLeavesNothing` | 1 caller, 2 tags, 2 speeds, 2 users with 2 versions, 2 panel changes, 2 faults; 3.1 million states |
| `traffic` | `BillsAreHonest`: bytes are conserved, and billed twice only when reports overlap or are repeated; `CountersSettle` | 2 monitors, 2 users, 3 bytes, 1 fault, 1 user or tag change |
| `iplimit` | `ConnectedWithinLimit` across nodes; `RecordedIsReported` | 2 nodes, 2 addresses and an ignored one, 2 connections, 2 sweeps, 3 admissions, 1 fault |
| `instance` | `NodesAreAccountedFor`: controllers are known and closable, inbounds have controllers, but for a half-way Start's; `PusherIsOpen`; `NodesFollowPanel`; `TaskPushesReturn` | 2 nodes (one self-signed), 2 Reverb servers, 1 pushing task, queue of 1, 1 list change, 1 fault |
| `instance_push` (violated) | `PushEvent` under `i.mu` never returns | as above with 1 server, no change, no fault |
| `relay` | `RulesFindOutbounds`: a rule's outbounds exist, unless another node with the same transit node took them; `EngineFollowsRelays`: the engine has the rules the managers know, unless two nodes replaced the list at once | 2 nodes, 2 users, 2 transit nodes (one fronted), 3 setups, 7 operations, 1 fault |
| `chain` | `ChainIsWhole`: a chain at rest is complete or absent, and both layers have and serve the same users but those a failed call named; `ImplementsListener` | 2 tags, 2 users, 5 calls, 3 faults; 0.3 million states |
| `certificates` | `NothingHalfDone`: at rest the files are a pair and a stopped service runs again; `ReloadFindsMatch`; `ExpiringIsRenewed`; `PinsSettle` | 2 nodes on one pair of files, 2 sets of names, 5 certificates, 1 expiry or change, 1 fault or crash |
| `polling` | `ChangeIsApplied`, `EventIsServed`, `RulesComeIntoForce`: what is lost is lost only to the causes named | 2 tags, 2 changes, 3 events, 2 rule lists, 1 change of rules, 1 fault |

Why the bounds are enough. Every race above is between two parties, so two of
each (callers, monitors, nodes, sessions) let it happen; a third adds no new
order of two steps. Each counter (`MaxGen`, `MaxReconciles`, `MaxChanges`,
`MaxRuleChanges`, `MaxPushes`, `MaxFaults`, `MaxEvents`, `MaxBytes`, `MaxChurn`,
`MaxAdmits`, `MaxSlots`, `MaxCalls`, `MaxSetups`, `MaxWork`) is a guard on an
action of the environment or on the start of an operation, and is large enough
that a fault can hit any step and be followed by a clean pass. `MaxIds` is one
more than the certificates that can be in two files and in the hands of two
nodes. Two users and two versions give every mixture of added, deleted, modified
and kept. `QueueSize` is 64 in the code; 1 makes "full" happen. The safety
properties of `Certificates` were also checked with two events and two faults
(2.8 million states), with the same result. Where no property is temporal,
interchangeable values are symmetric.

Deadlock checking is off in every run: each model stops when its bounds are
used up, and a closed controller or stopped instance is meant to stop. What may
not stop is stated as a liveness property instead.

Fairness, and why the code justifies it:

- `Periodic`: the runtime fires pending timers and schedules goroutines, and
  Execute returns (weak fairness per call).
- `Traffic`: the task runs again (that is `Periodic`) and requests return, with
  any result (weak, per step).
- `Polling`: the loop, the "node" task and the rule task go on (weak, one
  condition each). No event has to arrive, and no request has to succeed.
- `Certificates`: a call goes on and sing-box's file watcher runs (weak). The
  monitor is strong because it is a task of its own: builds that come again and
  again do not keep its timer from firing. Taking `saveMu` is strong because Go's
  mutex hands over to its first waiter after 1 ms.
- `Instance`: strong for the goroutines that contend for `i.mu` or the channel,
  for the same reason and because channel senders queue; weak for Start. Requests
  and writes have timeouts. No session has to come up, and nobody has to call Stop.

## What the models showed

### The violated run

`instance_push`: `PushEvent` says it "Returns an error if there is no active
connection" (`core/instance/reverb.go:275`). Starting a node with a self-signed
certificate pushes an event while `i.mu` is held, and waits for a drainer that
needs `i.mu` for every answer (or, inside Start, has not been launched yet).
Nobody moves again. The properties of the run `instance` except this state by
name (`Wedged`).

### Properties the code does not have

These hold neither in the models nor in the code. The first four are defined in
their modules; naming one as INVARIANT in the run's `.cfg` gives the trace.

| definition | run | what happens |
|---|---|---|
| `StoppedControllerIsQuiet` | `scheduler` | a task restarted while CloseAll runs is started again after it, and polls for a node that is gone |
| `ServiceAgrees` | `revocation` | two overlapping calls push their sets in the opposite order, or the service refuses a set: it keeps a removed user, or lacks an added one |
| `OnlineIPsAreConnected` | `iplimit` | a sweep deletes what it reports, so the next list lacks connections older than the sweep |
| `CleanPollReconciles` | `reconcile` | an ETag is stored before its answer is applied; when the poll fails half-way the change is not applied later |
| `ReconciledWithoutFaults` with `Actors = {a1, a2}`, `MaxFaults = 0` | `reconcile` | two `apiMonitor` calls that read the same `nodeInfo` lose one another's updates |

`Reconcile` is therefore checked for one caller; `Polling` has both callers and
says what they lose.

### Met while reading and modelling

Some of these are excepted by a history variable of a property (named in
parentheses), the others lie outside the models.

- Start of a fronted node panics: `certTasksWanted` dereferences `TlsSettings`
  (`controller/cert_tasks.go:19`), which `node/inbound.go:62` clears. `Chain`
  lets a node become fronted by a later change only. Afterwards every full
  answer about such a node counts as a structural change for the same reason.
- A relay outbound's tag names the transit node and the subscription but not the
  node (`node/outbound.go:14`): of two nodes with one transit node the first to
  tear down takes the other's outbound (`RulesFindOutbounds`).
- `certMonitor` renews for `ServerName` while `getCertFile` orders for
  `CertDomainName` (`controller/controller.go:549`, `node/inbound.go:472`): where
  they differ nothing is renewed (`Renewable`).
- `SaveResource` writes in place and without the mutex (`helper/cert/certs_storage.go:39`,
  `:110`): overlapping orders, a crash, or a write that fails after `os.WriteFile`
  truncated the file leave half a file or a mixed pair (`damaged`). A running node
  may have reloaded it by then.
- A protocol service that refuses a set keeps the one it had, while table and
  snapshot have changed (Shadowsocks, VMess, Trojan, AnyTLS, ShadowTLS:
  `core/inbound/protocol/shadowsocks.go:238`). The calls return the error, and
  three things follow. RemoveSubscriptions returns before it closes anything, so
  the connections of a user who is out of the table go on
  (`subscription/manager.go:181`, `:193`; `spared`). On a fronted node an error of the inner
  layer keeps the front from being told, so the layers differ
  (`subscription/manager.go:42`; `missed`). And `apiMonitor` logs the error and
  stores the new list all the same (`controller/controller.go:485`), so no later
  comparison names the user again; a user whose addition failed has no limiter
  entry (`unlimited`), yet is served once any later set is accepted.
- A Start that fails after AddNode leaves the inbound's listener open for ever: its
  scopes are in the dropped controller's node manager (`node/node.go:181`) and the
  inbounds' own `Close` is empty. Every later Start of the node fails on the taken
  port (`core/instance/server_poller.go:107`), so the node does not come back before
  Stop, unless the panel gives it another port (`halfway`).
- A crash during a challenge leaves the service on the port stopped (`abandoned`).
- Two self-signed nodes with one `ServerName` and different names regenerate the
  certificate in turn (the premise of `PinsSettle`).
- Rules are stored under the tag of the moment and fetched conditionally; after a
  tag change the new tag has none, and an empty list never replaces a full one
  (`controller/controller.go:523-525`, `RulesComeIntoForce`).
- A trigger within the quiet period or during a sync is dropped (`EventIsServed`);
  answers of two callers applied in the opposite order are hidden by the 304s
  that follow (`ChangeIsApplied`). The ETags are plain map entries that both write.
- `CompareSubscriptions` ignores the password (`subscription/manager.go:400`);
  the structural branch does not close the connections of dropped users
  (`controller/controller.go:370`); counters of a removed tag are never drained
  (`limiter/limiter.go:313`); a session's reader blocks for ever when 16 messages
  wait as the session ends (`core/instance/reverb.go:190`); a configuration
  change within three seconds of another is ignored (`cmd/root.go:118`).

## Proofs

Every theorem holds for any values of the constants that satisfy the
assumptions the modules name: any number of calls, actors, users, nodes,
connections, any bounds. Each part below states an inductive invariant (`IInv`
unless it says otherwise), proves it in one lemma per action, and draws the
properties from it; TLC checked each invariant before it was proved. Every type
invariant and every safety property of a passing run is a theorem; so are both
refinements (of `ImplementsTicker` the safety half) and the safety cores of five
liveness properties: that what must arrive in the end is not lost meanwhile.

The assumptions are bounds that are natural numbers, names that differ, and:

| assumption | why the code justifies it |
|---|---|
| `MonitorsAssumption`, `NameAssumption` of `InboundUsers`: monitors, names are finite sets | a process has so many tasks and users; sums and table sizes need it |
| `IdsAssumption`: finitely many nodes and two numbers more than nodes to spare | only for the type: a new key pair is always a new one, where the model gives it a number that nothing in use has |
| `NamesAssumption`, `TagsAssumption`: there is a certificate name, a tag | every node has them |
| `QueueAssumption`: a queue holds at least one item | `reverbOutbound` holds 64 |
| `BatchAssumption`: a batch has at least one entry | `Chunk` is called with `reverbBatchSize`, a positive constant |

### `Tasks_proofs`

Of `Periodic`:

- `TypeCorrect`, `ChainIsKept`: `TypeOK` and `OneTimerChain` hold always, the
  latter from `ChainsNeverFork`, `RunningNeverStalls` and `TimerIsKnown`.
- `PeriodicImplementsTicker`: every behaviour implements `Ticker`'s `SafeSpec`
  under the mapping `on <- running`, `epoch <- gen`, `inflight <-` generations
  of the calls that passed run's first check.

A Close that bumps `gen` keeps the chains of different generations apart only if
no call's generation lies beyond `gen`, and Start opens a fresh generation only
if every live call of the current one implies `running`. `IInv` adds exactly
that: `GenBound` and `StoppedIsOld`. The refinement maps Start and Close to the
switches, Check to Begin or a stutter, Rearm and Finish to End (possible because
a generation has one live call), and Fire and Execute to stutters.

Of `Scheduler`:

- `SchedulerTypeCorrect`, `TasksAgree`: `SchedulerTypeOK` and `TasksFollowList`.

The property says when an unlisted task may *run*; a step needs to know it of a
task that a restart is about to start (`UnlistedIsStray`): RemoveTask and
AddAndStart put the task they drop among the strays if anybody holds it. Besides,
a held task was created (`HeldExists`), a task that was not is nowhere
(`UncreatedIsStopped`), and the "node" task is the only one of its tag and stays
listed (`NodeTaskListed`). `LookupFacts` and `WithoutFacts` say what the loops
over `m.tasks` find and leave while tags are unique. The invariant is `TasksIInv`.

Of `Polling`:

- `PollingTypeCorrect`: `PollingTypeOK`.
- `LossesAreNamed`: `NothingIsLost`, the safety core of `ChangeIsApplied`,
  `EventIsServed` and `RulesComeIntoForce`. A change of the panel that the node
  does not have yet is held by a caller that will apply it, or will be asked for
  (the ETag does not cover it), or `stale` says that an older answer hid it; and
  likewise for an event (`dropped`) and a list of rules (`astray`). The liveness
  properties add that callers go on and ask again, which is for TLC.

The invariant `PollingIInv` is about versions: the panel never gives one out twice
(`VersionsDiffer`), what an ETag stands for is held, applied or stale (`SeenIsUsed`),
an event not yet served has a token in a channel or a request under way
(`EventsAreOwed`), and the rules a 304 will confirm are in force (`RulesAreKept`).

### `Subscriptions_proofs`

Of `Revocation`:

- `TypeCorrect`: `TypeOK`.
- `ServiceFollowsTable`: `ServiceAgreesAlone`, for services that may refuse any set.
  The invariant `UInv` says that slots fit their user, the snapshot is the table's
  names, a list protocol is in sync unless its last rebuild was refused, idle
  callers owe nothing, and a call that no other overlapped since it collected its
  set is alone: what it pushes is the table, whatever was refused before it.
- `NamesAreOwners`: `NamedAfterOwner`, and `RemovalsClose`: `RemovalCloses`. The
  invariant `CInv` says of each connection that its identity fits its owner, that
  what is named was named by the snapshot, that the admitted have a user, that
  what a removal took is out of the tracker, and that survivors were in flight or
  of a user whose removal returned an error (`spared`).

Of `Traffic`:

- `TrafficTypeCorrect`: `TrafficTypeOK`.
- `BillsStayHonest`: `BillsAreHonest`, for any monitors, users and batch size.

`TrafficInv` says what a monitor holds at each step (`Stages`), that carried and
repeated bytes are billed, lost, held or still counted (`Conserved`), and that,
as long as no two monitors were at work at once, what the one at work will
subtract is in the counter it read (`OneAtWork` with `Covered`), so that nothing
goes below zero and nobody is billed for more than was carried. These are
equations with sums over monitors and over the generations of a tag. What a sum
over a finite set is would be an induction over the set, which is out of the
prover's reach here; instead `MinimalSubset` gives, if some set were a counterexample, a
smallest one (strict inclusion is well founded on the subsets of a finite set),
and a set with one element less then contradicts it. On that rest `SumsExist`,
`SumUnfolds`, `SumSplitsOff` (any element may be taken out first), `SumChanges`
(one entry changes, the sum changes by as much) and `SumCovers` (a sum bounds
each of its parts), and on those one lemma per action.

### `IPLimit_proofs`

- `TypeCorrect`: `TypeOK`.
- `LimitHolds`: `ConnectedWithinLimit`. No step looks at connections, so the
  invariant goes through the hash: the hash is within the highest limit
  (`HashWithinLimit`) and accounts for every connection that was not forgotten
  (`Accounted`). The script compares with the limit of its own node, which
  `HighestBounds` relates to the highest; the count of a finite set grows by at
  most one with a new field (`AddressesOfAdded`).
- `NothingUnreported`: `RecordedIsReported`, also while two sweeps of one node
  overlap. It needs that an idle sweep claims nothing (`IdleClaimsNothing`).

### `Chain_proofs`

- `TypeCorrect`, `ChainStaysWhole`: `TypeOK` and `ChainIsWhole`.
- `ChainImplementsListener`: `ImplementsListener`.

The invariant says for each program counter which inbounds are created and
started, and that, but for the users a failed call named (`missed`) and those of the
call under way, the layers have the same users (`Agree`) and serve their tables
(`Synced`); that at most one tag accepts, and that the scopes name what exists,
follow from it. Both adding and removing go to the protocol first and the front
second. A chain accepts whom both layers serve. Hence an added user gets through
when the front learns it, a removed one no longer as soon as the protocol forgets
it; the other half of each call is a stutter, and so is a refused set, which
changes the table and not what is served. An accepted set may let users through
whom an earlier call failed for: `Listener` allows a call to do that too.

### `Relay_proofs`

- `RelayTypeCorrect`: `TypeOK`.
- `RulesKeepTheirOutbounds`: `RulesFindOutbounds`, at every step of the loops of
  any number of nodes, not only when they rest.
- `TheEngineFollowsTheRelays`: `EngineFollowsRelays`.

The invariant `RInv` follows one node through its loops (`Stages`: which of its
outbounds and rules are there before, at and after each user) while the others
act on the same engine. It separates what is the node's own from what others may
take: an outbound a node has put up is there unless another node used its tag
(`Owned`); a rule is in the engine unless somebody put back a copy that was
outdated by then (`RulesKept`), and with the same exception, or a half-way failure
of its node, every rule is one of a node's latest set-up (`RulesLive`); an outbound
nobody holds is there only after a failure (`NoLeftovers`). Of a fronted relay the
outer outbound comes first and goes last (`Fronts`, `Unfronting`).

### `Certificates_proofs`

- `SavesAreWhole`: `NothingHalfDone`; `CrtFollowsKey`: `ReloadFindsMatch`;
  `TypeCorrect`: `TypeOK`.

A self-signed node is alone between checkAndReuse and the end of Save
(`OneSaver`), and at the second write the key in the file is its own
(`KeyWritten`). Nothing keeps ACME nodes apart, and any of their writes may fail and
tear the file; but while `damaged` is false at most one is between its two writes,
and the `.crt` is its own (`OneWriter`), so its `.key` completes the pair. `damaged`
becomes true when a file is torn or a `.crt` is left without its key, and false again
when somebody writes a whole pair alone. The type needs a count: at most one number per
node and two in the files are in use, so that a new certificate finds one.

### `Reconcile_proofs`

- `Reconciles`: `ReconciledWithoutFaults`; `ListIsTrue`: `ListTellsTheTruth`;
  `CloseUndoesAll`: `CloseLeavesNothing`; `TypeCorrect`: `TypeOK`. All for one
  caller of `apiMonitor` (`OneCaller`) and any tags, users, changes and faults;
  with two callers the first is false ("Properties the code does not have", above).

The invariant goes through `apiMonitor` place by place (`At`): what the inbound
has, serves and is built for, what the limiter and the rules hold, and which of the
answers is still only in a local variable. `missed` and `unlimited` name the users
for whom what is served, or limited, may differ from the table. It ties each of them to
`c.subscriptionList` before the branches and to the list about to be stored
after them. The calls that apply a comparison change the table one after another,
whether they succeed or not; `DiffApplies` says that all of them together turn the old
list into the new one. `TypeOK` bounds how often one rule is in the engine by the faults so
far: a rule is doubled only when a relay is set up over one that failed half-way.

### `Instance_proofs`

- `TypeCorrect`: `TypeOK`; `NodesAccounted`: `NodesAreAccountedFor`;
  `PusherOpen`: `PusherIsOpen`, for any nodes, Reverb servers, pushing tasks and
  queue (`NameAssumption`: they are different goroutines).
- `PushesAreInHand`: `NoneForgotten`, the safety core of `TaskPushesReturn`. Who
  waits in PushEvent is in the queue or in the drainer's hands, the drainer runs
  once Start is over, and the holder of `i.mu` can go on unless it waits for the
  drainer itself (`Wedged`, the one state the property excepts).
- `ListsAreApplied`: `OneList`, the safety core of `NodesFollowPanel`. While
  somebody applies a list under `i.mu`, the controllers are of nodes of that list,
  and what it lists and has none is still to be started, unless something failed or
  its port is taken (`halfway`).

A controller is put into `controllerMap` only if its node has none; this is so
because what is still to start, or being started, is not in `controllerMap`
(`ToStart`), which nobody else changes meanwhile because one goroutine at a time
holds `i.mu` (`Held`). That a holder that pushes comes back where it was, and only
once, is `Waiting`: who is in the queue, or is the drainer's job, waits and is
there once. `WithoutKeeps` says that taking the controllers of gone nodes out of
`Service` leaves the others in it, which takes a count of the places kept.

### Only model-checked

Liveness and whatever needs ENABLED, which the prover does not reach: `Quiesces`,
the fairness half of `ImplementsTicker`, `CountersSettle`, `NodesFollowPanel`,
`TaskPushesReturn`, `ExpiringIsRenewed`, `PinsSettle`, `ChangeIsApplied`,
`EventIsServed`, `RulesComeIntoForce`; and that `PushEventReturns` is false. For
`Reconcile` with two callers there is neither a proof nor a run that passes.

No module declares a recursive operator.

## What the models leave out

- Data: a credential is a version, a node configuration is its tag, relay and
  speed, an answer that arrives parses or is of no use as a whole. Upload and
  download are one counter.
- `Reconcile` takes Close as one action and states nothing about a Close that
  overlaps a poll (`closed = "busy"`); `Scheduler` has that race. AddNode,
  RemoveNode and each call that adds or removes users are single steps there, which
  may fail; `Chain` and `Revocation` have their inside.
- In `Instance` a node whose port a half-way Start took is not given another port.
- A connection that arrives while its node's tag changes, before the new tag has
  a limiter: `Revocation` allows for it (`PassUntracked`), and no property speaks
  of it.
- Token buckets and the waiting they cause; the matching of a pattern; TTL
  lengths (a key may expire at any moment).
- The ACME account and protocol, the challenge servers, and DNSCert, which
  differs from HTTPCert in stopping no service.
- In `Instance` a data race on `controllerMap` and a sync after Stop are modelled
  as a crash that may happen, which the properties allow for.

Not modelled:

- server status (`core/instance/server_status.go`, `helper/monitor`): one
  periodic push of host metrics. The task is `Periodic`'s, the push `Instance`'s,
  the metrics are I/O.
- process and configuration reload (`cmd/root.go`): a debounced watcher that ends
  in exec, after which all state is new (`Init` of every module; `Certificates`
  has it as Crash). Its debounce is one comparison.
- the options of each protocol (`node/inbound.go`, `node/outbound.go`), the parsing
  of answers (`api/node.go`) and the handshakes of the protocols: conversions and
  I/O without state of their own.
- command-line tools (`cmd/cert.go`, `ech.go`, `x25519.go`, `curve25519.go`):
  one-shot printers.
