---------------------------- MODULE InboundUsers ----------------------------
(***************************************************************************)
(* The hot user management of the protocol inbounds                        *)
(* (core/inbound/protocol/*.go): AddUsers and DelUsers, and what a         *)
(* connection that authenticates sees of them.                             *)
(*                                                                         *)
(* Two designs exist.  A "slots" protocol keeps an array of users, hands   *)
(* slot numbers to the protocol service and maps a slot back to a name     *)
(* through an atomic snapshot; it pushes the active set into the service   *)
(* after releasing its mutex.  A "list" protocol keeps a list and rebuilds *)
(* the service, keyed by name, before releasing it.  ShadowTLS, a list     *)
(* protocol too, only fronts another one and names nobody; it is left out. *)
(* Some services may refuse the new set; they keep the one they had, and   *)
(* the call returns their error with the table already changed.            *)
(*                                                                         *)
(* A credential <<n, v>> is the v-th UUID or password of user n.           *)
(***************************************************************************)
EXTENDS Naturals, Sequences, SequencesExt, FiniteSets

CONSTANTS
    Names,      \* user tags, "tag_email"
    Versions,   \* credentials a user has had
    Protocols,  \* the protocols to consider
    Mutators,   \* goroutines that call AddUsers and DelUsers
    NoName,     \* the Name of a zeroed slot
    MaxSlots    \* bound on how many slots are ever used

(***************************************************************************)
(* What sets the protocols apart:                                          *)
(*   unnamed  what a slot without a name is called: its "index", or "empty"*)
(*   carries  what a further stream of a connection brings along: the name *)
(*            its connection was given (sing-box mux, where the node has   *)
(*            it), the identity it authenticated as (QUIC and AnyTLS       *)
(*            sessions), or nothing: each stream authenticates by itself   *)
(*   errs     whether its calls return an error of the service             *)
(***************************************************************************)
vless ==
    [design |-> "slots", unnamed |-> "index", carries |-> "name", errs |-> FALSE]
vmess ==
    [design |-> "slots", unnamed |-> "index", carries |-> "name", errs |-> TRUE]
trojan ==
    [design |-> "slots", unnamed |-> "index", carries |-> "name", errs |-> TRUE]
shadowsocks ==
    [design |-> "slots", unnamed |-> "index", carries |-> "name", errs |-> TRUE]
tuic ==
    [design |-> "slots", unnamed |-> "empty", carries |-> "identity", errs |-> FALSE]
hysteria2 ==
    [design |-> "slots", unnamed |-> "empty", carries |-> "identity", errs |-> FALSE]
anytls ==
    [design |-> "list", unnamed |-> "empty", carries |-> "identity", errs |-> TRUE]
naive ==
    [design |-> "list", unnamed |-> "empty", carries |-> "nothing", errs |-> FALSE]

Designs == [vless |-> vless, vmess |-> vmess, trojan |-> trojan, tuic |-> tuic,
            hysteria2 |-> hysteria2, shadowsocks |-> shadowsocks,
            anytls |-> anytls, naive |-> naive]

ASSUME ProtocolAssumption == Protocols \subseteq DOMAIN Designs
ASSUME NameAssumption == NoName \notin Names /\ IsFiniteSet(Names)
ASSUME SlotAssumption == MaxSlots \in Nat

Keys == Names \X Versions
User == [name : Names, ver : Versions]
Zeroed == [name |-> NoName]

VARIABLES
    protocol,   \* which inbound this is; never changes
    users,      \* h.users
    snap,       \* *h.nameSnap: the names by slot
    service,    \* what the protocol service accepts: credential -> identity
    mpc,        \* where each mutator is
    mop,        \* its call: the operation and the users it names
    mset,       \* the active set syncService collected
    tainted,    \* history: calls that overlapped another one
    dirty       \* history: an overlapped call pushed or a push failed, and
                \* no call alone has succeeded since

uvars == <<protocol, users, snap, service, mpc, mop, mset, tainted, dirty>>

Traits == Designs[protocol]
Slotted == Traits.design = "slots"

\* h.slotMap, which AddUsers and DelUsers keep the inverse of users.
SlotsOf(n) == {i \in DOMAIN users : users[i].name = n}
Has(n) == SlotsOf(n) # {}

NamesIn(us) == [i \in DOMAIN us |-> us[i].name]

\* The active users, as the protocol service is given them.
ActiveSlots(us) == {i \in DOMAIN us : us[i] # Zeroed}
Active(us) ==
    {[key |-> <<us[i].name, us[i].ver>>, id |-> i] : i \in ActiveSlots(us)}
ActiveByName(us) ==
    {[key |-> <<us[i].name, us[i].ver>>, id |-> us[i].name] : i \in DOMAIN us}

NoCall == [op |-> "add", names |-> {}]

UInit ==
    /\ protocol \in Protocols
    /\ users = << >>
    /\ snap = << >>
    /\ service = {}
    /\ mpc = [m \in Mutators |-> "idle"]
    /\ mop = [m \in Mutators |-> NoCall]
    /\ mset = [m \in Mutators |-> {}]
    /\ tainted = {}
    /\ dirty = FALSE

-----------------------------------------------------------------------------
\* Mutant: a fresh name takes over a zeroed slot.
ReuseSlots(us, names, fresh, v) ==
    LET zero == {i \in DOMAIN us : us[i] = Zeroed} IN
    IF zero # {} /\ Len(fresh) = 1
      THEN [us EXCEPT ![CHOOSE i \in zero : TRUE] = [name |-> fresh[1], ver |-> v]]
      ELSE us \o [i \in DOMAIN fresh |-> [name |-> fresh[i], ver |-> v]]

\* What AddUsers makes of the users: upsert by name in place, or append; "fresh"
\* has the names that are new, in the order of the caller's slice.
Upsert(us, names, fresh, v) ==
    [i \in DOMAIN us |-> IF us[i].name \in names
                         THEN [name |-> us[i].name, ver |-> v] ELSE us[i]]
    \o [i \in DOMAIN fresh |-> [name |-> fresh[i], ver |-> v]]

\* What DelUsers makes of them.
ZeroSlots(us, names) ==
    [i \in DOMAIN us |-> IF us[i].name \in names THEN Zeroed ELSE us[i]]

\* The positions of the entries a list protocol keeps, in order.
Kept(us, names) ==
    {at \in SetToSeqs({i \in DOMAIN us : us[i].name \notin names}) :
        \A i, j \in DOMAIN at : i < j => at[i] < at[j]}

\* Mutators between their critical section and their push.
Syncing == {m \in Mutators : mpc[m] \in {"collect", "push"}}

\* Mutant: the name snapshot is left to a later rebuild.
LockedNoSnapshot(m, us) ==
    /\ Slotted
    /\ users' = us
    /\ mpc' = [mpc EXCEPT ![m] = "collect"]
    /\ tainted' = IF Syncing = {} THEN tainted ELSE tainted \cup Syncing \cup {m}
    /\ dirty' = (dirty \/ Syncing # {})
    /\ UNCHANGED <<snap, service, mset>>

\* The first critical section of a slot protocol's AddUsers and DelUsers:
\* users, slotMap and the snapshot change together.
LockedSlots(m, us) ==
    /\ Slotted
    /\ users' = us
    /\ snap' = NamesIn(us)
    /\ mpc' = [mpc EXCEPT ![m] = "collect"]
    /\ tainted' = IF Syncing = {} THEN tainted ELSE tainted \cup Syncing \cup {m}
    /\ dirty' = (dirty \/ Syncing # {})
    /\ UNCHANGED <<service, mset>>

\* The only critical section of a list protocol's: it rebuilds the service.
LockedList(m, us) ==
    /\ ~Slotted
    /\ users' = us
    /\ service' = ActiveByName(us)
    /\ mpc' = [mpc EXCEPT ![m] = "synced"]
    /\ dirty' = FALSE
    /\ UNCHANGED <<snap, mset, tainted>>

\* The rebuild returns an error: the list is changed, the service is not.
LockedListFails(m, us) ==
    /\ ~Slotted /\ Traits.errs
    /\ users' = us
    /\ mpc' = [mpc EXCEPT ![m] = "failed"]
    /\ dirty' = TRUE
    /\ UNCHANGED <<snap, service, mset, tainted>>

Locked(m, us) == LockedSlots(m, us) \/ LockedList(m, us) \/ LockedListFails(m, us)

AddUsers(m) ==
    /\ mpc[m] = "idle"
    /\ \E names \in SUBSET Names \ {{}}, v \in Versions :
       \E fresh \in SetToSeqs({n \in names : ~Has(n)}) :
         LET us == Upsert(users, names, fresh, v) IN
         /\ Len(us) <= MaxSlots
         /\ mop' = [mop EXCEPT ![m] = [op |-> "add", names |-> names]]
         /\ Locked(m, us)
    /\ UNCHANGED protocol

DelUsers(m) ==
    /\ mpc[m] = "idle"
    /\ \E names \in SUBSET Names \ {{}} :
         /\ mop' = [mop EXCEPT ![m] = [op |-> "del", names |-> names]]
         /\ IF Slotted
            THEN Locked(m, ZeroSlots(users, names))
            ELSE \E at \in Kept(users, names) :
                   Locked(m, [i \in DOMAIN at |-> users[at[i]]])
    /\ UNCHANGED protocol

\* Mutant: the loop over h.users ends one short.
CollectAllButLast(m) ==
    /\ mpc[m] = "collect"
    /\ mset' = [mset EXCEPT ![m] = Active(SubSeq(users, 1, Len(users) - 1))]
    /\ mpc' = [mpc EXCEPT ![m] = "push"]
    /\ UNCHANGED <<protocol, users, snap, service, mop, tainted, dirty>>

\* syncService: collect under the mutex...
Collect(m) ==
    /\ mpc[m] = "collect"
    /\ mset' = [mset EXCEPT ![m] = Active(users)]
    /\ mpc' = [mpc EXCEPT ![m] = "push"]
    /\ UNCHANGED <<protocol, users, snap, service, mop, tainted, dirty>>

\* ...and update the service outside it.
Push(m) ==
    /\ mpc[m] = "push"
    /\ service' = mset[m]
    /\ mset' = [mset EXCEPT ![m] = {}]
    /\ mpc' = [mpc EXCEPT ![m] = "synced"]
    /\ tainted' = tainted \ {m}
    /\ dirty' = (dirty /\ m \in tainted)
    /\ UNCHANGED <<protocol, users, snap, mop>>

\* The service refuses the set and keeps the one it has.
PushRefused(m) ==
    /\ mpc[m] = "push"
    /\ Traits.errs
    /\ mset' = [mset EXCEPT ![m] = {}]
    /\ mpc' = [mpc EXCEPT ![m] = "failed"]
    /\ tainted' = tainted \ {m}
    /\ dirty' = TRUE
    /\ UNCHANGED <<protocol, users, snap, service, mop>>

syncService(m) == Collect(m) \/ Push(m) \/ PushRefused(m)

Return(m) ==
    /\ mpc[m] \in {"synced", "failed"}
    /\ mpc' = [mpc EXCEPT ![m] = "idle"]
    /\ mop' = [mop EXCEPT ![m] = NoCall]
    /\ UNCHANGED <<protocol, users, snap, service, mset, tainted, dirty>>

UNext == \E m \in Mutators :
            AddUsers(m) \/ DelUsers(m) \/ syncService(m) \/ Return(m)

USpec == UInit /\ [][UNext]_uvars

-----------------------------------------------------------------------------
UTypeOK ==
    /\ protocol \in Protocols
    /\ users \in Seq(User \cup {Zeroed})
    /\ snap \in Seq(Names \cup {NoName})
    /\ Len(users) <= MaxSlots
    /\ mpc \in [Mutators -> {"idle", "collect", "push", "synced", "failed", "close"}]
    /\ tainted \subseteq Mutators
    /\ dirty \in BOOLEAN

\* AddUsers and DelUsers are called "Thread-safe" (vless.go:198): once every
\* call has returned, the service accepts exactly the users in the table.
ServiceAgrees ==
    (\A m \in Mutators : mpc[m] \in {"idle", "synced", "failed", "close"})
        => service = IF Slotted THEN Active(users) ELSE ActiveByName(users)

\* What does hold: once every call has returned, the service and the table
\* agree, unless the last calls to push overlapped or the service refused the
\* last set; one call that runs alone and succeeds repairs what either left
\* behind, the users of the failed call included (shadowsocks.go:226-239).
ServiceAgreesAlone == ~dirty => ServiceAgrees
=============================================================================
