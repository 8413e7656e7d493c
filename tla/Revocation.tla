----------------------------- MODULE Revocation -----------------------------
(***************************************************************************)
(* A subscription's life on an inbound: the user table (InboundUsers.tla), *)
(* the connections that authenticate against it, the Dispatcher that       *)
(* admits and tracks them (core/dispatcher/dispatcher.go), and             *)
(* AddSubscriptions and RemoveSubscriptions (subscription/manager.go) of   *)
(* the mutators.                                                           *)
(*                                                                         *)
(* A connection passes through                                             *)
(*   authed    the service accepted its credential; it carries an identity *)
(*   named     newConnectionEx resolved the identity to metadata.User      *)
(*   checked   RoutedConnection let it past limiter and rules              *)
(*   added     tracker.add inserted it; deregister is not assigned yet     *)
(*   open      returned to the router                                      *)
(*   untracked returned to the router without being tracked                *)
(*   closed                                                                *)
(***************************************************************************)
EXTENDS InboundUsers

CONSTANTS
    Conns,      \* connections
    NoOne,      \* metadata.User = ""
    Index       \* a slot number used as metadata.User

ASSUME UserAssumption ==
    NoOne \notin Names /\ Index \notin Names /\ NoOne # Index

VARIABLES
    conn,       \* state of each connection
    ident,      \* the identity it authenticated as: a slot, or a name
    owner,      \* history: whose credential it presented
    user,       \* metadata.User
    entries,    \* t.entries: <<user, connection>>
    taken,      \* connections a mutator's closeAll has yet to close
    slipped,    \* history: past authentication but untracked at a closeAll
    spared      \* history: names a failed RemoveSubscriptions named, and no
                \* AddSubscriptions since

cvars == <<conn, ident, owner, user, entries, taken, slipped, spared>>
vars == <<uvars, cvars>>

Init ==
    /\ UInit
    /\ conn = [c \in Conns |-> "closed"]
    /\ ident = [c \in Conns |-> 0]
    /\ owner = [c \in Conns |-> NoOne]
    /\ user = [c \in Conns |-> NoOne]
    /\ entries = {}
    /\ taken = [m \in Mutators |-> {}]
    /\ slipped = {}
    /\ spared = {}

-----------------------------------------------------------------------------
(***************************************************************************)
(* userName: the snapshot's name for a slot; a zeroed slot has none.  A    *)
(* list protocol's identity is the name.                                   *)
(***************************************************************************)
userName(id) ==
    IF ~Slotted THEN id
    ELSE IF id \in DOMAIN snap /\ snap[id] # NoName THEN snap[id]
    ELSE IF Traits.unnamed = "index" THEN Index ELSE NoOne

Authenticate(c) ==
    /\ conn[c] = "closed"
    /\ \E a \in service :
         /\ ident' = [ident EXCEPT ![c] = a.id]
         /\ owner' = [owner EXCEPT ![c] = a.key[1]]
    /\ conn' = [conn EXCEPT ![c] = "authed"]
    /\ slipped' = slipped \ {c}
    /\ UNCHANGED <<uvars, user, entries, taken, spared>>

\* A further stream of a connection that authenticated before.  The connection
\* itself is never tracked, so closing the user's streams leaves it.
NextStream(c) ==
    /\ conn[c] = "closed"
    /\ owner[c] # NoOne
    /\ \/ Traits.carries = "identity" /\ conn' = [conn EXCEPT ![c] = "authed"]
       \/ /\ Traits.carries = "name"
          /\ user[c] # NoOne
          /\ conn' = [conn EXCEPT ![c] = "named"]
    /\ slipped' = slipped \cup (IF \E i \in DOMAIN users : users[i].name = owner[c]
                                THEN {} ELSE {c})
    /\ UNCHANGED <<uvars, ident, owner, user, entries, taken, spared>>

Resolve(c) ==
    /\ conn[c] = "authed"
    /\ user' = [user EXCEPT ![c] = userName(ident[c])]
    /\ conn' = [conn EXCEPT ![c] = "named"]
    /\ UNCHANGED <<uvars, ident, owner, entries, taken, slipped, spared>>

\* RoutedConnection returns the connection as it is: it has no user, or its tag
\* has no limiter (apiMonitor is replacing it; Reconcile.tla).
PassUntracked(c) ==
    /\ conn[c] = "named"
    /\ conn' = [conn EXCEPT ![c] = "untracked"]
    /\ UNCHANGED <<uvars, ident, owner, user, entries, taken, slipped, spared>>

\* CheckLimiter or CheckRule rejects: the connection is closed and dead.
Reject(c) ==
    /\ conn[c] = "named"
    /\ user[c] # NoOne
    /\ conn' = [conn EXCEPT ![c] = "closed"]
    /\ UNCHANGED <<uvars, ident, owner, user, entries, taken, slipped, spared>>

\* Mutant: an unnamed connection is admitted like any other.
AdmitAnyone(c) ==
    /\ conn[c] = "named"
    /\ conn' = [conn EXCEPT ![c] = "checked"]
    /\ UNCHANGED <<uvars, ident, owner, user, entries, taken, slipped, spared>>

Admit(c) ==
    /\ conn[c] = "named"
    /\ user[c] # NoOne
    /\ conn' = [conn EXCEPT ![c] = "checked"]
    /\ UNCHANGED <<uvars, ident, owner, user, entries, taken, slipped, spared>>

\* tracker.add: one critical section of t.mu.
TrackerAdd(c) ==
    /\ conn[c] = "checked"
    /\ entries' = entries \cup {<<user[c], c>>}
    /\ conn' = [conn EXCEPT ![c] = "added"]
    /\ UNCHANGED <<uvars, ident, owner, user, taken, slipped, spared>>

\* deregister is assigned and the connection returned.
Returned(c) ==
    /\ conn[c] = "added"
    /\ conn' = [conn EXCEPT ![c] = "open"]
    /\ UNCHANGED <<uvars, ident, owner, user, entries, taken, slipped, spared>>

\* Mutant: deregister is never called.
EndNoDeregister(c) ==
    /\ conn[c] \in {"open", "untracked"}
    /\ conn' = [conn EXCEPT ![c] = "closed"]
    /\ taken' = [m \in Mutators |-> taken[m] \ {c}]
    /\ UNCHANGED <<uvars, ident, owner, user, entries, slipped, spared>>

\* The client, the remote or the router closes the connection; deregister
\* removes its entry if the entry is still there.  A mutator that took the
\* connection closes it again, which does nothing.
End(c) ==
    /\ conn[c] \in {"open", "untracked"}
    /\ conn' = [conn EXCEPT ![c] = "closed"]
    /\ entries' = entries \ {<<user[c], c>>}
    /\ taken' = [m \in Mutators |-> taken[m] \ {c}]
    /\ UNCHANGED <<uvars, ident, owner, user, slipped, spared>>

-----------------------------------------------------------------------------
(***************************************************************************)
(* RemoveSubscriptions, after Remove (DelUsers) returned: without an error,*)
(* CloseUserConns for every name.  closeAll empties the map under t.mu,    *)
(* then closes what it took outside it, one name after another.            *)
(***************************************************************************)
\* Mutant: closeAll finds nobody.
TakeNothing(m) ==
    /\ mpc[m] \in {"synced", "close"}
    /\ mop[m].op = "del"
    /\ taken[m] = {}
    /\ \E n \in mop[m].names : mop' = [mop EXCEPT ![m].names = @ \ {n}]
    /\ mpc' = [mpc EXCEPT ![m] = "close"]
    /\ UNCHANGED <<protocol, users, snap, service, mset, tainted, dirty, cvars>>

TakeConns(m) ==
    /\ mpc[m] \in {"synced", "close"}
    /\ mop[m].op = "del"
    /\ taken[m] = {}
    /\ \E n \in mop[m].names :
         LET mine == {e \in entries : e[1] = n} IN
         /\ mop' = [mop EXCEPT ![m].names = @ \ {n}]
         /\ taken' = [taken EXCEPT ![m] = {e[2] : e \in mine}]
         /\ entries' = entries \ mine
         /\ slipped' = slipped \cup {c \in Conns : /\ owner[c] = n
                                                   /\ conn[c] \in {"authed", "named", "checked"}}
    /\ mpc' = [mpc EXCEPT ![m] = "close"]
    /\ UNCHANGED <<protocol, users, snap, service, mset, tainted, dirty,
                   conn, ident, owner, user, spared>>

\* c.Close(): the deregister it may call finds no entry any more.  A
\* connection closed before deregister was assigned stays closed.
CloseTaken(m) ==
    /\ mpc[m] = "close"
    /\ \E c \in taken[m] :
         /\ taken' = [taken EXCEPT ![m] = @ \ {c}]
         /\ conn' = [conn EXCEPT ![c] = IF @ \in {"added", "open"} THEN "closed" ELSE @]
    /\ UNCHANGED <<uvars, ident, owner, user, entries, slipped, spared>>

RemoveReturns(m) ==
    /\ mpc[m] = "close"
    /\ taken[m] = {} /\ mop[m].names = {}
    /\ mpc' = [mpc EXCEPT ![m] = "idle"]
    /\ mop' = [mop EXCEPT ![m] = NoCall]
    /\ UNCHANGED <<protocol, users, snap, service, mset, tainted, dirty, cvars>>

\* The inbound's DelUsers failed, or it succeeded and that of the ShadowTLS
\* inbound in front failed: the error is returned and nothing is closed.
RemoveFails(m) ==
    /\ mop[m].op = "del"
    /\ mpc[m] \in {"failed", "synced"}
    /\ spared' = spared \cup mop[m].names
    /\ mop' = [mop EXCEPT ![m] = NoCall]
    /\ mpc' = [mpc EXCEPT ![m] = "idle"]
    /\ UNCHANGED <<protocol, users, snap, service, mset, tainted, dirty,
                   conn, ident, owner, user, entries, taken, slipped>>

AddSubscriptions(m) ==
    /\ AddUsers(m)
    /\ spared' = spared \ mop'[m].names
    /\ UNCHANGED <<conn, ident, owner, user, entries, taken, slipped>>

AddReturns(m) == mop[m].op = "add" /\ Return(m) /\ UNCHANGED cvars

ConnStep(c) ==
    \/ Authenticate(c) \/ NextStream(c) \/ Resolve(c)
    \/ PassUntracked(c) \/ Reject(c) \/ Admit(c)
    \/ TrackerAdd(c) \/ Returned(c) \/ End(c)

MutatorStep(m) ==
    \/ AddSubscriptions(m) \/ AddReturns(m)
    \/ (DelUsers(m) \/ syncService(m)) /\ UNCHANGED cvars
    \/ TakeConns(m) \/ CloseTaken(m) \/ RemoveReturns(m) \/ RemoveFails(m)

Next == (\E c \in Conns : ConnStep(c)) \/ (\E m \in Mutators : MutatorStep(m))

Spec == Init /\ [][Next]_vars

-----------------------------------------------------------------------------
(***************************************************************************)
(* Properties                                                              *)
(***************************************************************************)

TypeOK ==
    /\ UTypeOK
    /\ conn \in [Conns -> {"closed", "authed", "named", "checked", "added", "open",
                           "untracked"}]
    /\ owner \in [Conns -> Names \cup {NoOne}]
    /\ user \in [Conns -> Names \cup {NoOne, Index}]
    /\ entries \subseteq (Names \cup {Index}) \X Conns
    /\ taken \in [Mutators -> SUBSET Conns]
    /\ slipped \subseteq Conns
    /\ spared \subseteq Names

Resolved(c) == conn[c] \in {"named", "checked", "added", "open", "untracked"}

\* A connection is never attributed to another subscription than the one whose
\* credential it presented, whatever was added, removed or replaced between its
\* authentication and its routing: its traffic cannot be billed to a stranger.
NeverMisattributed ==
    \A c \in Conns : Resolved(c) => user[c] \in {owner[c], NoOne, Index}

\* Only a removed user's connection is routed without its name: as long as the
\* slot it authenticated as is in use, the limiter and the counters see it.
\* (AddUsers publishes the snapshot before the service learns the slot.)
ActiveUsersAreNamed ==
    \A c \in Conns :
        Resolved(c) /\ user[c] \in {NoOne, Index} =>
            Slotted /\ users[ident[c]] = Zeroed

\* Both: a connection's name is its owner's, or missing only once its owner is
\* gone (vless.go:185-225 keeps slots and publishes snapshots for this).
NamedAfterOwner == NeverMisattributed /\ ActiveUsersAreNamed

\* The tracker knows exactly the connections it can still have to close: no
\* tracked connection escapes closeAll, even one closed before its deregister
\* was assigned (dispatcher.go:83-92), and no closed one stays behind.
TrackerExact ==
    \A c \in Conns :
        /\ conn[c] \in {"added", "open"} =>
              <<user[c], c>> \in entries \/ \E m \in Mutators : c \in taken[m]
        /\ \A e \in entries : e[2] = c => conn[c] \in {"added", "open"} /\ e[1] = user[c]

\* Once RemoveSubscriptions has returned without an error, the user's
\* connections are closed, but for those that had authenticated and were not
\* yet tracked when their user's entries were taken.  After an error the user
\* is out of the table with its connections left open (manager.go:181-195).
SurvivorsWereInFlight ==
    \A c \in Conns :
        /\ conn[c] = "open"
        /\ user[c] \in Names
        /\ ~Has(user[c])
        => \/ c \in slipped
           \/ \E m \in Mutators : c \in taken[m]
           \/ \E m \in Mutators : mop[m].op = "del" /\ user[c] \in mop[m].names
           \/ user[c] \in spared

\* Both: a removal that succeeds closes what it can reach, and can reach all
\* that is tracked (dispatcher.go:83-92, 219-228; manager.go:170-202).
RemovalCloses == TrackerExact /\ SurvivorsWereInFlight
=============================================================================
