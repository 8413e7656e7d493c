------------------------------- MODULE IPLimit -------------------------------
(***************************************************************************)
(* The address limit of one subscription across nodes, and its online      *)
(* addresses (limiter/limiter.go: ipLimitScript, checkIPLimit,             *)
(* GetOnlineIPs; subscription/manager.go: the second half of               *)
(* SubscriptionMonitor).                                                   *)
(*                                                                         *)
(* Redis holds one hash per subscription, with a field for each address on *)
(* each node.  A connection's check and record is one atomic script; a     *)
(* node's sweep reads the hash, deletes its own fields and reports them in *)
(* separate round trips.  Any of them may fail, the key may expire at any  *)
(* moment, and after a restart of its task a node may sweep twice at once. *)
(* Rate buckets, which CheckLimiter and GetOnlineIPs also keep, are left   *)
(* out: nothing here depends on them.                                      *)
(***************************************************************************)
EXTENDS Naturals, FiniteSets

CONSTANTS
    Nodes,      \* nodes that share the Redis
    IPs,        \* client addresses
    Ignored,    \* IgnoreIPs of the nodes
    Conns,      \* connections of the subscription
    Sweepers,   \* executions of SubscriptionMonitor
    Limits,     \* values of IPLimit (0: unlimited)
    NoNode,     \* the node of an idle sweeper
    MaxFaults,  \* bound on failures and expiries
    MaxAdmits   \* bound on connections made

ASSUME LimitAssumption == Limits \subseteq Nat
ASSUME NodeAssumption == NoNode \notin Nodes /\ Ignored \subseteq IPs
ASSUME BoundAssumption == MaxFaults \in Nat /\ MaxAdmits \in Nat

Fields == IPs \X Nodes

VARIABLES
    fields,     \* the hash in Redis
    limit,      \* IPLimit in each node's limiter
    conn,       \* the field of each open connection; {} when closed
    node,       \* the node each sweeper sweeps
    pc,         \* where it is in SubscriptionMonitor
    claimed,    \* the fields it has read and will delete and report
    admits, faults,
    owed,       \* history: fields recorded and not reported since
    dropped,    \* history: fields whose report failed, or that expired
    forgotten,  \* history: connections never recorded, or swept or expired since
    highest     \* history: the greatest limit so far; 0 once there was none

sweepVars == <<node, pc, claimed>>
limitVars == <<limit, highest>>
vars == <<fields, limitVars, conn, sweepVars, admits, faults, owed, dropped, forgotten>>

Addresses(fs) == {f[1] : f \in fs}
Own(n) == {f \in fields : f[2] = n}
OpenOn(fs) == {c \in Conns : conn[c] \cap fs # {}}

Init ==
    /\ fields = {}
    /\ \E l \in Limits : limit = [n \in Nodes |-> l] /\ highest = l
    /\ conn = [c \in Conns |-> {}]
    /\ node = [s \in Sweepers |-> NoNode]
    /\ pc = [s \in Sweepers |-> "idle"]
    /\ claimed = [s \in Sweepers |-> {}]
    /\ admits = 0 /\ faults = 0
    /\ owed = {} /\ dropped = {} /\ forgotten = {}

Fault == faults < MaxFaults /\ faults' = faults + 1

-----------------------------------------------------------------------------
(***************************************************************************)
(* CheckLimiter, for a connection from an address to a node.  A rejected   *)
(* connection changes nothing.                                             *)
(***************************************************************************)
\* Mutant: only the addresses on this node count.
AllowedByOwn(ip, n) ==
    \/ <<ip, n>> \in fields
    \/ limit[n] = 0
    \/ Cardinality(Addresses(Own(n))) < limit[n]

\* ipLimitScript: a known field passes, and so does an address that is counted
\* on another node already.
Allowed(ip, n) ==
    \/ <<ip, n>> \in fields
    \/ limit[n] = 0
    \/ Cardinality(Addresses(fields)) < limit[n]
    \/ ip \in Addresses(fields)

Admit(c, ip, n) ==
    /\ ip \notin Ignored
    /\ Allowed(ip, n)
    /\ fields' = fields \cup {<<ip, n>>}
    /\ IF <<ip, n>> \in fields THEN UNCHANGED <<owed, dropped>>
       ELSE owed' = owed \cup {<<ip, n>>} /\ dropped' = dropped \ {<<ip, n>>}
    /\ forgotten' = forgotten \ {c}
    /\ UNCHANGED faults

\* The script could not be run: "Fail open" (limiter.go:521).
AdmitUnchecked(c, ip) ==
    /\ ip \notin Ignored
    /\ Fault
    /\ forgotten' = forgotten \cup {c}
    /\ UNCHANGED <<fields, owed, dropped>>

AdmitIgnored(c, ip) ==
    /\ ip \in Ignored
    /\ forgotten' = forgotten \cup {c}
    /\ UNCHANGED <<fields, owed, dropped, faults>>

CheckLimiter(c) ==
    /\ conn[c] = {}
    /\ admits < MaxAdmits
    /\ admits' = admits + 1
    /\ \E ip \in IPs, n \in Nodes :
         /\ conn' = [conn EXCEPT ![c] = {<<ip, n>>}]
         /\ Admit(c, ip, n) \/ AdmitUnchecked(c, ip) \/ AdmitIgnored(c, ip)
    /\ UNCHANGED <<limitVars, sweepVars>>

Disconnect(c) ==
    /\ conn[c] # {}
    /\ conn' = [conn EXCEPT ![c] = {}]
    /\ forgotten' = forgotten \ {c}
    /\ UNCHANGED <<fields, limitVars, sweepVars, admits, faults, owed, dropped>>

\* UpdateLimiter, when the panel changed the limit; each node polls by itself.
UpdateLimiter(n) ==
    /\ \E l \in Limits \ {limit[n]} :
         /\ limit' = [limit EXCEPT ![n] = l]
         /\ highest' = IF 0 \in {highest, l} THEN 0 ELSE IF l > highest THEN l ELSE highest
    /\ UNCHANGED <<fields, conn, sweepVars, admits, faults, owed, dropped, forgotten>>

\* The key's TTL runs out before a sweep reads it: the fields of every node go.
Expire ==
    /\ fields # {}
    /\ Fault
    /\ fields' = {}
    /\ dropped' = dropped \cup fields
    /\ forgotten' = forgotten \cup OpenOn(fields)
    /\ UNCHANGED <<limitVars, conn, sweepVars, admits, owed>>

-----------------------------------------------------------------------------
(***************************************************************************)
(* SubscriptionMonitor: GetOnlineIPs, then the report.  Only the fields    *)
(* that were read are deleted.                                             *)
(***************************************************************************)
Read(s) ==
    /\ pc[s] = "idle"
    /\ \E n \in Nodes :
         /\ node' = [node EXCEPT ![s] = n]
         /\ claimed' = [claimed EXCEPT ![s] = Own(n)]
    /\ pc' = [pc EXCEPT ![s] = "delete"]
    /\ UNCHANGED <<fields, limitVars, conn, admits, faults, owed, dropped, forgotten>>

\* The read fails: nothing is claimed and there is nothing to report.
ReadFails(s) ==
    /\ pc[s] = "idle"
    /\ Fault
    /\ UNCHANGED <<fields, limitVars, conn, sweepVars, admits, owed, dropped, forgotten>>

\* Mutant: all the node's fields are deleted, read or not.
DeleteOwn(s) ==
    /\ pc[s] = "delete"
    /\ fields' = fields \ Own(node[s])
    /\ forgotten' = forgotten \cup OpenOn(claimed[s] \cap fields)
    /\ pc' = [pc EXCEPT ![s] = "report"]
    /\ UNCHANGED <<limitVars, conn, node, claimed, admits, faults, owed, dropped>>

Delete(s) ==
    /\ pc[s] = "delete"
    /\ fields' = fields \ claimed[s]
    /\ forgotten' = forgotten \cup OpenOn(claimed[s] \cap fields)
    /\ pc' = [pc EXCEPT ![s] = "report"]
    /\ UNCHANGED <<limitVars, conn, node, claimed, admits, faults, owed, dropped>>

\* HDel fails: the fields stay, and the next sweep reports them again.
DeleteFails(s) ==
    /\ pc[s] = "delete"
    /\ claimed[s] # {}
    /\ Fault
    /\ pc' = [pc EXCEPT ![s] = "report"]
    /\ UNCHANGED <<fields, limitVars, conn, node, claimed, admits, owed, dropped, forgotten>>

\* Mutant: what a sweep claimed outlives it.
DoneKeepsClaim(s) ==
    /\ pc[s] = "report"
    /\ node' = [node EXCEPT ![s] = NoNode]
    /\ pc' = [pc EXCEPT ![s] = "idle"]
    /\ UNCHANGED claimed

Done(s) ==
    /\ pc[s] = "report"
    /\ claimed' = [claimed EXCEPT ![s] = {}]
    /\ node' = [node EXCEPT ![s] = NoNode]
    /\ pc' = [pc EXCEPT ![s] = "idle"]

\* Pushed over Reverb or, if that fails, sent by HTTP.
ReportOnlineIPs(s) ==
    /\ Done(s)
    /\ owed' = owed \ claimed[s]
    /\ UNCHANGED <<fields, limitVars, conn, admits, faults, dropped, forgotten>>

\* Both ways fail; the fields are deleted already.
ReportFails(s) ==
    /\ Done(s)
    /\ Fault
    /\ dropped' = dropped \cup claimed[s]
    /\ UNCHANGED <<fields, limitVars, conn, admits, owed, forgotten>>

Sweep(s) ==
    \/ Read(s) \/ ReadFails(s) \/ Delete(s) \/ DeleteFails(s)
    \/ ReportOnlineIPs(s) \/ ReportFails(s)

Next ==
    \/ \E c \in Conns : CheckLimiter(c) \/ Disconnect(c)
    \/ \E n \in Nodes : UpdateLimiter(n)
    \/ Expire
    \/ \E s \in Sweepers : Sweep(s)

Spec == Init /\ [][Next]_vars

-----------------------------------------------------------------------------
(***************************************************************************)
(* Properties                                                              *)
(***************************************************************************)

TypeOK ==
    /\ fields \subseteq Fields
    /\ limit \in [Nodes -> Limits] /\ highest \in Limits
    /\ \A c \in Conns : conn[c] \subseteq Fields /\ Cardinality(conn[c]) <= 1
    /\ node \in [Sweepers -> Nodes \cup {NoNode}]
    /\ pc \in [Sweepers -> {"idle", "delete", "report"}]
    /\ \A s \in Sweepers : claimed[s] \subseteq {f \in Fields : f[2] = node[s]}
    /\ owed \subseteq Fields /\ dropped \subseteq Fields /\ forgotten \subseteq Conns

\* Across all nodes, the connections the hash still accounts for come from no
\* more addresses than the highest limit any node has had, whatever nodes race
\* to admit and to sweep ("concurrent connections must admit exactly the limit,
\* never more", iplimit_test.go:168).
ConnectedWithinLimit ==
    highest # 0 =>
        Cardinality(Addresses(UNION {conn[c] : c \in Conns \ forgotten})) <= highest

\* An address that was recorded is reported: it is in the hash or in the hands
\* of a sweep until it is, unless its report failed or its key expired, even when
\* two sweeps of its node overlap ("an address recorded between the read and the
\* delete stays to be reported next cycle rather than being dropped unreported",
\* limiter.go:476).
RecordedIsReported ==
    owed \subseteq fields \cup dropped \cup UNION {claimed[s] : s \in Sweepers}

\* "GetOnlineIPs returns currently connected IPs for all subscriptions under
\* tag" (limiter.go:397): when a sweep has read the hash, the addresses of the
\* connections open on its node are those it claimed, but for connections made
\* since, which are in the hash.
OnlineIPsAreConnected ==
    \A s \in Sweepers : pc[s] = "delete" =>
        \A c \in Conns :
            \A f \in conn[c] : f[2] = node[s] => f \in claimed[s] \cup fields
=============================================================================
