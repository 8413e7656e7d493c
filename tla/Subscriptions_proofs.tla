------------------------ MODULE Subscriptions_proofs ------------------------
(***************************************************************************)
(* Proofs about the subscriptions of a node (subscription/manager.go).     *)
(* Their connections (core/inbound/protocol/*.go, core/dispatcher): these  *)
(* are named after their owner, removals close what they can reach, and    *)
(* the service follows the table but for overlapping or failed calls, for  *)
(* each of the eight protocols and any number of users, credentials,       *)
(* callers, connections and slots.  Their traffic (limiter/limiter.go): no byte is  *)
(* dropped and none invented, for any monitors, users and batch size.      *)
(***************************************************************************)
EXTENDS Revocation, Traffic, FiniteSetTheorems, SequenceTheorems, TLAPS

-----------------------------------------------------------------------------
(***************************************************************************)
(* Revocation (core/inbound/protocol/*.go, core/dispatcher/dispatcher.go)  *)
(***************************************************************************)

Entry == User \cup {Zeroed}
Accounts == [key : Keys, id : Nat \cup Names]
Calls == [op : {"add", "del"}, names : SUBSET Names]

(***************************************************************************)
(* The inductive invariant, for the users.                                 *)
(***************************************************************************)
UTypes ==
    /\ UTypeOK
    /\ users \in Seq(Entry)
    /\ service \in SUBSET Accounts
    /\ mset \in [Mutators -> SUBSET Accounts]
    /\ mop \in [Mutators -> Calls]

\* The slot of identity id is user n's, or was until n was deleted: slots are
\* never given to another user.
Fits(id, n) ==
    IF Slotted THEN id \in DOMAIN users /\ users[id].name \in {n, NoName} ELSE id = n

ServiceFits == \A a \in service : Fits(a.id, a.key[1])

PushesFit == \A m \in Mutators : \A a \in mset[m] : Fits(a.id, a.key[1])

SnapIsNames == Slotted => snap = NamesIn(users)

ListInSync ==
    ~Slotted => /\ ~dirty => service = ActiveByName(users)
                /\ users \in Seq(User)
                /\ \A m \in Mutators : mpc[m] \notin {"collect", "push"}

IdleOwesNothing == \A m \in Mutators : mpc[m] = "idle" => mop[m].op = "add" \/ mop[m].names = {}

\* A caller that is not tainted is the only one between its critical section
\* and its push; without such an overlap the service is up to date.
Alone ==
    /\ tainted \subseteq Syncing
    /\ ~dirty => tainted = {}
    /\ \A m \in Syncing \ tainted :
         Syncing = {m} /\ (mpc[m] = "push" => mset[m] = Active(users))
    /\ Slotted /\ ~dirty /\ Syncing = {} => service = Active(users)

UInv ==
    /\ UTypes
    /\ ServiceFits
    /\ PushesFit
    /\ SnapIsNames
    /\ ListInSync
    /\ IdleOwesNothing
    /\ Alone

(***************************************************************************)
(* The inductive invariant, for the connections.                           *)
(***************************************************************************)
IdentFits ==
    /\ ident \in [Conns -> Nat \cup Names]
    /\ \A c \in Conns : owner[c] # NoOne => Fits(ident[c], owner[c])

OwnersKnown == \A c \in Conns : conn[c] # "closed" => owner[c] # NoOne

\* From its resolution on, also when closed again, a connection has its
\* owner's name, or none because the slot was zeroed.
Named ==
    \A c \in Conns : owner[c] # NoOne /\ conn[c] # "authed" =>
        /\ user[c] \in {owner[c], NoOne, Index}
        /\ user[c] \in {NoOne, Index} => Slotted /\ users[ident[c]] = Zeroed

AdmittedHasUser ==
    \A c \in Conns : conn[c] \in {"checked", "added", "open"} => user[c] # NoOne

\* What a removal has taken is tracked no more and not closed yet.
TakenIsOut ==
    /\ \A m \in Mutators : \A c \in taken[m] :
         conn[c] \in {"added", "open"} /\ \A e \in entries : e[2] # c
    /\ \A m, k \in Mutators : m # k => taken[m] \cap taken[k] = {}

\* Is the removal of user n under way, or did it fail?
Pending(n) == (\E m \in Mutators : mop[m].op = "del" /\ n \in mop[m].names) \/ n \in spared

\* Has the inbound's DelUsers just failed for user n?
Failing(n) == \E m \in Mutators : mpc[m] = "failed" /\ mop[m].op = "del" /\ n \in mop[m].names

\* A list protocol's service accepts nobody who is not in the table, but for
\* the users of a removal it refused.
ListServesKnown ==
    ~Slotted => \A a \in service : Has(a.key[1]) \/ a.key[1] \in spared \/ Failing(a.key[1])

\* The user a connection will be tracked under, as far as that is settled.
Bound(c, n) ==
    \/ conn[c] \in {"named", "checked", "added", "open"} /\ user[c] = n
    \/ ~Slotted /\ conn[c] = "authed" /\ owner[c] = n

InFlight ==
    \A c \in Conns : \A n \in Names :
        Bound(c, n) /\ ~Has(n) =>
            c \in slipped \/ (\E m \in Mutators : c \in taken[m]) \/ Pending(n)

CInv ==
    /\ TypeOK
    /\ IdentFits
    /\ OwnersKnown
    /\ Named
    /\ AdmittedHasUser
    /\ TrackerExact
    /\ TakenIsOut
    /\ InFlight
    /\ ListServesKnown

IInv == UInv /\ CInv
-----------------------------------------------------------------------------
(***************************************************************************)
(* What AddUsers and DelUsers make of the table                            *)
(***************************************************************************)
LEMMA EntryFacts ==
  /\ \A u \in User : u \in Entry /\ u.name \in Names /\ u.ver \in Versions /\ u # Zeroed
                     /\ u.name # NoName
  /\ Zeroed \in Entry /\ Zeroed.name = NoName
  /\ \A u \in Entry : (u \in User \/ u = Zeroed) /\ u.name \in Names \cup {NoName}
                      /\ (u.name = NoName <=> u = Zeroed)
  /\ \A n \in Names, v \in Versions : [name |-> n, ver |-> v] \in User
BY NameAssumption DEF Entry, User, Zeroed

\* us keeps every slot of the table for its user, or empty.
Keeps(us) ==
    \A i \in DOMAIN users : i \in DOMAIN us /\ us[i].name \in {users[i].name, NoName}

HasIn(us, n) == \E i \in DOMAIN us : us[i].name = n

LEMMA FreshIsSeq ==
  ASSUME NEW S \in SUBSET Names, NEW fresh \in SetToSeqs(S)
  PROVE  fresh \in Seq(S) /\ fresh \in Seq(Names)
<1>1. Cardinality(S) \in Nat
  BY NameAssumption, FS_Subset, FS_CardinalityType
<1>2. fresh \in [1..Cardinality(S) -> S]
  BY DEF SetToSeqs
<1> QED
  BY <1>1, <1>2

LEMMA OneToN ==
  ASSUME NEW n \in Nat
  PROVE  IsFiniteSet(1..n) /\ Cardinality(1..n) = n
<1>1. 1 \in Int /\ n \in Int
  OBVIOUS
<1>2. IsFiniteSet(1..n) /\ Cardinality(1..n) = IF 1 > n THEN 0 ELSE n - 1 + 1
  BY <1>1, FS_Interval
<1> QED
  BY <1>2

LEMMA FreshIsOnto ==
  ASSUME NEW S, IsFiniteSet(S), NEW fresh \in SetToSeqs(S), NEW n \in S
  PROVE  \E j \in DOMAIN fresh : fresh[j] = n
<1>1. fresh \in [1..Cardinality(S) -> S] /\ Cardinality(S) \in Nat
  BY FS_CardinalityType DEF SetToSeqs
<1>2. fresh \in Injection(1..Cardinality(S), S)
  BY <1>1 DEF SetToSeqs, Injection, IsInjective
<1>3. IsFiniteSet(1..Cardinality(S)) /\ Cardinality(1..Cardinality(S)) = Cardinality(S)
  BY <1>1, OneToN
<1>4. fresh \in Surjection(1..Cardinality(S), S)
  BY <1>2, <1>3, FS_Injection
<1> QED
  BY <1>1, <1>4 DEF Surjection

LEMMA UpsertFacts ==
  ASSUME users \in Seq(Entry), NEW names \in SUBSET Names, NEW v \in Versions,
         NEW fresh \in SetToSeqs({n \in names : ~Has(n)})
  PROVE  LET us == Upsert(users, names, fresh, v) IN
         /\ us \in Seq(Entry) /\ (users \in Seq(User) => us \in Seq(User))
         /\ Keeps(us)
         /\ \A n \in Names : Has(n) \/ n \in names => HasIn(us, n)
<1> DEFINE old == [i \in DOMAIN users |-> IF users[i].name \in names
                                          THEN [name |-> users[i].name, ver |-> v] ELSE users[i]]
           new == [i \in DOMAIN fresh |-> [name |-> fresh[i], ver |-> v]]
           us == Upsert(users, names, fresh, v)
<1>1. fresh \in Seq(Names)
  BY FreshIsSeq
<1>2. new \in Seq(User)
  BY <1>1, EntryFacts
<1>3. old \in Seq(Entry) /\ DOMAIN old = DOMAIN users /\ (users \in Seq(User) => old \in Seq(User))
  BY EntryFacts
<1>4. \A i \in DOMAIN users : old[i].name = users[i].name
  OBVIOUS
<1>5. us = old \o new
  BY DEF Upsert
<1>6. new \in Seq(Entry)
  BY <1>2, EntryFacts
<1> HIDE DEF old, new, us
<1>7. /\ us \in Seq(Entry) /\ Len(us) = Len(old) + Len(new)
      /\ \A i \in 1..Len(old) : us[i] = old[i]
  BY <1>3, <1>5, <1>6, ConcatProperties
<1>8. users \in Seq(User) => us \in Seq(User)
  BY <1>2, <1>3, <1>5, ConcatProperties
<1>9. \A i \in DOMAIN users : i \in DOMAIN us /\ us[i].name = users[i].name
  BY <1>2, <1>3, <1>4, <1>7
<1>10. Keeps(us) /\ \A n \in Names : Has(n) => HasIn(us, n)
  BY <1>9 DEF Keeps, Has, SlotsOf, HasIn
<1>11. ASSUME NEW n \in names, ~Has(n) PROVE HasIn(us, n)
  <2>1. PICK j \in DOMAIN fresh : fresh[j] = n
    <3>1. IsFiniteSet({k \in names : ~Has(k)}) /\ n \in {k \in names : ~Has(k)}
      BY <1>11, NameAssumption, FS_Subset
    <3> QED
      BY <3>1, FreshIsOnto
  <2>2. us[Len(old) + j] = new[j] /\ Len(old) + j \in DOMAIN us
    BY <1>1, <1>2, <1>3, <1>5, <1>6, <1>7, <2>1, ConcatProperties DEF new
  <2>3. new[j].name = n
    BY <2>1 DEF new
  <2> QED
    BY <2>2, <2>3 DEF HasIn
<1>12. \A n \in Names : Has(n) \/ n \in names => HasIn(us, n)
  BY <1>10, <1>11
<1> QED
  BY <1>7, <1>8, <1>10, <1>12 DEF us

LEMMA ZeroSlotsFacts ==
  ASSUME users \in Seq(Entry), NEW names \in SUBSET Names
  PROVE  LET us == ZeroSlots(users, names) IN
         /\ us \in Seq(Entry) /\ Len(us) = Len(users)
         /\ Keeps(us)
         /\ \A n \in Names \ names : Has(n) => HasIn(us, n)
<1> DEFINE us == ZeroSlots(users, names)
<1>1. us \in Seq(Entry) /\ Len(us) = Len(users) /\ DOMAIN us = DOMAIN users
  BY EntryFacts DEF ZeroSlots
<1>2. \A i \in DOMAIN users : us[i] = IF users[i].name \in names THEN Zeroed ELSE users[i]
  BY DEF ZeroSlots
<1> HIDE DEF us
<1>3. Keeps(us) /\ \A n \in Names \ names : Has(n) => HasIn(us, n)
  BY <1>1, <1>2, EntryFacts DEF Keeps, Has, SlotsOf, HasIn
<1> QED
  BY <1>1, <1>3 DEF us

\* A list protocol keeps the entries it was not asked to drop.
LEMMA KeptFacts ==
  ASSUME users \in Seq(User), NEW names \in SUBSET Names, NEW at \in Kept(users, names)
  PROVE  LET us == [i \in DOMAIN at |-> users[at[i]]] IN
         /\ us \in Seq(User) /\ Len(us) <= Len(users)
         /\ \A n \in Names \ names : Has(n) => HasIn(us, n)
<1> DEFINE K == {i \in DOMAIN users : users[i].name \notin names}
           us == [i \in DOMAIN at |-> users[at[i]]]
<1>1. K \subseteq 1..Len(users) /\ Len(users) \in Nat
  OBVIOUS
<1>2. IsFiniteSet(K) /\ Cardinality(K) \in Nat /\ Cardinality(K) <= Len(users)
  <2>1. IsFiniteSet(1..Len(users)) /\ Cardinality(1..Len(users)) = Len(users)
    BY <1>1, OneToN
  <2> QED
    BY <1>1, <2>1, FS_Subset, FS_CardinalityType
<1>3. at \in [1..Cardinality(K) -> K]
  BY DEF Kept, SetToSeqs
<1>4. \A k \in K : \E i \in 1..Cardinality(K) : at[i] = k
  <2>1. at \in Injection(1..Cardinality(K), K)
    BY <1>3 DEF Kept, SetToSeqs, Injection, IsInjective
  <2>2. Cardinality(1..Cardinality(K)) = Cardinality(K)
    BY <1>2, OneToN
  <2>3. at \in Surjection(1..Cardinality(K), K)
    BY <1>2, <2>1, <2>2, FS_Injection
  <2> QED
    BY <2>3 DEF Surjection
<1> HIDE DEF K
<1>5. \A i \in 1..Cardinality(K) : users[at[i]] \in User
  <2>1. \A k \in 1..Len(users) : users[k] \in User
    BY LenProperties
  <2>2. \A i \in 1..Cardinality(K) : at[i] \in K
    BY <1>3
  <2> QED
    BY <1>1, <2>1, <2>2
<1>6. us \in Seq(User) /\ Len(us) = Cardinality(K) /\ DOMAIN us = 1..Cardinality(K)
  BY <1>2, <1>3, <1>5
<1>7. ASSUME NEW n \in Names \ names, Has(n) PROVE HasIn(us, n)
  <2>1. PICK k \in DOMAIN users : users[k].name = n
    BY <1>7 DEF Has, SlotsOf
  <2>2. k \in K
    BY <2>1 DEF K
  <2>3. PICK i \in 1..Cardinality(K) : at[i] = k
    BY <1>4, <2>2
  <2> QED
    BY <1>3, <1>6, <2>1, <2>3 DEF HasIn
<1> QED
  BY <1>2, <1>6, <1>7
-----------------------------------------------------------------------------
(***************************************************************************)
(* The users' invariant                                                    *)
(***************************************************************************)
LEMMA ActiveFacts ==
  ASSUME NEW us \in Seq(Entry)
  PROVE  /\ Active(us) \in SUBSET Accounts
         /\ \A a \in Active(us) : a.id \in DOMAIN us /\ us[a.id].name = a.key[1]
<1>1. \A i \in ActiveSlots(us) : i \in DOMAIN us /\ i \in Nat /\ us[i] \in User
  BY EntryFacts DEF ActiveSlots
<1> QED
  BY <1>1, EntryFacts DEF Active, Accounts, Keys

LEMMA ActiveByNameFacts ==
  ASSUME NEW us \in Seq(User)
  PROVE  /\ ActiveByName(us) \in SUBSET Accounts
         /\ \A a \in ActiveByName(us) : a.id = a.key[1] /\ HasIn(us, a.key[1])
<1>1. \A i \in DOMAIN us : us[i] \in User
  OBVIOUS
<1> QED
  BY <1>1, EntryFacts DEF ActiveByName, Accounts, Keys, HasIn

\* A slot that fits a user fits it in every later table.
LEMMA FitsLater ==
  ASSUME UNCHANGED protocol, Slotted => Keeps(users'), NEW id, NEW n, Fits(id, n)
  PROVE  Fits(id, n)'
BY DEF Fits, Slotted, Traits, Keeps

LEMMA InitUInv == Init => UInv
<1> SUFFICES ASSUME Init PROVE UInv
  OBVIOUS
<1> USE DEF Init, UInit
<1>1. \A S : << >> \in Seq(S) /\ Len(<< >>) = 0 /\ DOMAIN << >> = {}
  OBVIOUS
<1>2. UTypes
  <2>1. users \in Seq(Entry) /\ users \in Seq(User \cup {Zeroed})
        /\ snap \in Seq(Names \cup {NoName}) /\ Len(users) <= MaxSlots
    BY <1>1, SlotAssumption
  <2>2. mop \in [Mutators -> Calls]
    BY DEF Calls, NoCall
  <2>3. mset \in [Mutators -> SUBSET Accounts] /\ service \in SUBSET Accounts
    OBVIOUS
  <2>4. mpc \in [Mutators -> {"idle", "collect", "push", "synced", "failed", "close"}]
    OBVIOUS
  <2> QED
    BY <2>1, <2>2, <2>3, <2>4 DEF UTypes, UTypeOK
<1>3. Active(<< >>) = {} /\ ActiveByName(<< >>) = {}
  BY <1>1 DEF Active, ActiveSlots, ActiveByName
<1>4. Syncing = {}
  BY DEF Syncing
<1>5. ServiceFits /\ PushesFit /\ IdleOwesNothing
  BY DEF ServiceFits, PushesFit, IdleOwesNothing, NoCall
<1>6. SnapIsNames /\ ListInSync /\ Alone
  BY <1>1, <1>3, <1>4 DEF SnapIsNames, NamesIn, ListInSync, Alone
<1> QED
  BY <1>2, <1>5, <1>6 DEF UInv

\* The critical section of a slot protocol.
LEMMA LockedSlotsKeepsUInv ==
  ASSUME UInv, NEW m \in Mutators, mpc[m] = "idle", UNCHANGED protocol,
         NEW us \in Seq(Entry), Len(us) <= MaxSlots, Keeps(us), LockedSlots(m, us),
         NEW call \in Calls, mop' = [mop EXCEPT ![m] = call]
  PROVE  UInv'
<1>1. /\ Slotted /\ users' = us /\ snap' = NamesIn(us) /\ UNCHANGED <<service, mset>>
      /\ mpc' = [mpc EXCEPT ![m] = "collect"]
      /\ tainted' = IF Syncing = {} THEN tainted ELSE tainted \cup Syncing \cup {m}
      /\ dirty' = (dirty \/ Syncing # {})
  BY DEF LockedSlots
<1>2. Slotted'
  BY <1>1 DEF Slotted, Traits
<1>3. Syncing' = Syncing \cup {m} /\ m \notin Syncing
  BY <1>1 DEF Syncing, UInv, UTypes, UTypeOK
<1>4. snap' \in Seq(Names \cup {NoName})
  BY <1>1, EntryFacts DEF NamesIn
<1>5. UTypes'
  <2>1. tainted' \subseteq Mutators /\ dirty' \in BOOLEAN
    BY <1>1 DEF UInv, UTypes, UTypeOK, Syncing
  <2>2. us \in Seq(User \cup {Zeroed})
    BY DEF Entry
  <2> QED
    BY <1>1, <1>4, <2>1, <2>2 DEF UInv, UTypes, UTypeOK
<1>6. ServiceFits' /\ PushesFit'
  BY <1>1, FitsLater DEF UInv, ServiceFits, PushesFit
<1>7. SnapIsNames' /\ ListInSync'
  BY <1>1, <1>2 DEF SnapIsNames, ListInSync
<1>8. IdleOwesNothing'
  BY <1>1 DEF UInv, UTypes, UTypeOK, IdleOwesNothing
<1>9. Alone'
  <2>1. tainted' \subseteq Syncing'
    BY <1>1, <1>3 DEF UInv, Alone
  <2>2. ~dirty' => tainted' = {}
    BY <1>1 DEF UInv, Alone
  <2>3. ASSUME NEW k \in Syncing' \ tainted'
        PROVE  Syncing' = {k} /\ (mpc'[k] = "push" => mset'[k] = Active(users'))
    <3>1. Syncing = {} /\ k = m
      BY <1>1, <1>3, <2>3
    <3> QED
      BY <1>1, <1>3, <3>1 DEF UInv, UTypes, UTypeOK
  <2> QED
    BY <1>3, <2>1, <2>2, <2>3 DEF Alone
<1> QED
  BY <1>5, <1>6, <1>7, <1>8, <1>9 DEF UInv

\* The critical section of a list protocol.
LEMMA LockedListKeepsUInv ==
  ASSUME UInv, NEW m \in Mutators, mpc[m] = "idle", UNCHANGED protocol,
         NEW us \in Seq(User), Len(us) <= MaxSlots, LockedList(m, us),
         NEW call \in Calls, mop' = [mop EXCEPT ![m] = call]
  PROVE  UInv'
<1>1. /\ ~Slotted /\ users' = us /\ service' = ActiveByName(us)
      /\ mpc' = [mpc EXCEPT ![m] = "synced"]
      /\ dirty' = FALSE /\ UNCHANGED <<snap, mset, tainted>>
  BY DEF LockedList
<1>2. ~Slotted'
  BY <1>1 DEF Slotted, Traits
<1>3. Syncing' = Syncing /\ Syncing = {}
  BY <1>1 DEF Syncing, UInv, UTypes, UTypeOK, ListInSync
<1>4. us \in Seq(Entry) /\ us \in Seq(User \cup {Zeroed})
  BY EntryFacts DEF Entry
<1>5. UTypes'
  BY <1>1, <1>4, ActiveByNameFacts DEF UInv, UTypes, UTypeOK
<1>6. ServiceFits'
  BY <1>1, <1>2, ActiveByNameFacts DEF ServiceFits, Fits
<1>7. PushesFit'
  BY <1>1, <1>2 DEF UInv, PushesFit, Fits
<1>8. SnapIsNames' /\ ListInSync' /\ IdleOwesNothing'
  BY <1>1, <1>2 DEF UInv, UTypes, UTypeOK, SnapIsNames, ListInSync, IdleOwesNothing
<1>9. Alone'
  BY <1>1, <1>2, <1>3 DEF UInv, Alone
<1> QED
  BY <1>5, <1>6, <1>7, <1>8, <1>9 DEF UInv

\* The same, when the rebuild fails.
LEMMA LockedListFailsKeepsUInv ==
  ASSUME UInv, NEW m \in Mutators, mpc[m] = "idle", UNCHANGED protocol,
         NEW us \in Seq(User), Len(us) <= MaxSlots, LockedListFails(m, us),
         NEW call \in Calls, mop' = [mop EXCEPT ![m] = call]
  PROVE  UInv'
<1>1. /\ ~Slotted /\ users' = us /\ mpc' = [mpc EXCEPT ![m] = "failed"]
      /\ dirty' = TRUE /\ UNCHANGED <<snap, service, mset, tainted>>
  BY DEF LockedListFails
<1>2. ~Slotted'
  BY <1>1 DEF Slotted, Traits
<1>3. Syncing' = Syncing /\ Syncing = {}
  BY <1>1 DEF Syncing, UInv, UTypes, UTypeOK, ListInSync
<1>4. us \in Seq(Entry) /\ us \in Seq(User \cup {Zeroed})
  BY EntryFacts DEF Entry
<1>5. UTypes'
  BY <1>1, <1>4 DEF UInv, UTypes, UTypeOK
<1>6. ServiceFits' /\ PushesFit'
  BY <1>1, <1>2 DEF UInv, ServiceFits, PushesFit, Fits
<1>7. SnapIsNames' /\ ListInSync' /\ IdleOwesNothing'
  BY <1>1, <1>2 DEF UInv, UTypes, UTypeOK, SnapIsNames, ListInSync, IdleOwesNothing
<1>8. Alone'
  BY <1>1, <1>2, <1>3 DEF UInv, Alone
<1> QED
  BY <1>5, <1>6, <1>7, <1>8 DEF UInv

\* All of a caller's critical section, for either design.
LEMMA LockedKeepsUInv ==
  ASSUME UInv, NEW m \in Mutators, mpc[m] = "idle", UNCHANGED protocol,
         NEW us \in Seq(Entry), Len(us) <= MaxSlots, Slotted => Keeps(us), ~Slotted => us \in Seq(User),
         Locked(m, us), NEW call \in Calls, mop' = [mop EXCEPT ![m] = call]
  PROVE  UInv' /\ users' = us
<1>1. CASE LockedSlots(m, us)
  BY <1>1, LockedSlotsKeepsUInv DEF LockedSlots
<1>2. CASE LockedList(m, us)
  BY <1>2, LockedListKeepsUInv DEF LockedList
<1>3. CASE LockedListFails(m, us)
  BY <1>3, LockedListFailsKeepsUInv DEF LockedListFails
<1> QED
  BY <1>1, <1>2, <1>3 DEF Locked

LEMMA CollectKeepsUInv ==
  ASSUME UInv, NEW m \in Mutators, Collect(m)
  PROVE  UInv'
<1>1. /\ mpc[m] = "collect" /\ mset' = [mset EXCEPT ![m] = Active(users)]
      /\ mpc' = [mpc EXCEPT ![m] = "push"]
      /\ UNCHANGED <<protocol, users, snap, service, mop, tainted, dirty>>
  BY DEF Collect
<1>2. Slotted /\ Slotted' /\ users \in Seq(Entry)
  BY <1>1 DEF UInv, ListInSync, UTypes, Slotted, Traits
<1>3. Syncing' = Syncing
  BY <1>1 DEF Syncing, UInv, UTypes, UTypeOK
<1>4. UTypes'
  BY <1>1, <1>2, ActiveFacts DEF UInv, UTypes, UTypeOK
<1>5. ServiceFits'
  BY <1>1 DEF UInv, ServiceFits, Fits, Slotted, Traits
<1>6. PushesFit'
  <2> SUFFICES ASSUME NEW k \in Mutators, NEW a \in mset'[k] PROVE Fits(a.id, a.key[1])'
    BY DEF PushesFit
  <2>1. Fits(a.id, a.key[1])
    <3>1. CASE k = m
      <4>1. a \in Active(users)
        BY <1>1, <3>1 DEF UInv, UTypes
      <4> QED
        BY <1>2, <4>1, ActiveFacts DEF Fits
    <3>2. CASE k # m
      BY <1>1, <3>2 DEF UInv, UTypes, PushesFit
    <3> QED
      BY <3>1, <3>2
  <2> QED
    BY <1>1, <2>1 DEF Fits, Slotted, Traits
<1>7. SnapIsNames' /\ ListInSync' /\ IdleOwesNothing'
  BY <1>1, <1>2 DEF UInv, UTypes, UTypeOK, SnapIsNames, ListInSync, IdleOwesNothing
<1>8. Alone'
  <2>1. Active(users)' = Active(users)
    BY <1>1 DEF Active, ActiveSlots
  <2> QED
    BY <1>1, <1>2, <1>3, <2>1 DEF UInv, UTypes, UTypeOK, Alone
<1> QED
  BY <1>4, <1>5, <1>6, <1>7, <1>8 DEF UInv

\* A push of a caller that was alone brings the service up to date.
LEMMA PushKeepsUInv ==
  ASSUME UInv, NEW m \in Mutators, Push(m)
  PROVE  UInv'
<1>1. /\ mpc[m] = "push" /\ service' = mset[m] /\ mset' = [mset EXCEPT ![m] = {}]
      /\ mpc' = [mpc EXCEPT ![m] = "synced"]
      /\ tainted' = tainted \ {m} /\ dirty' = (dirty /\ m \in tainted)
      /\ UNCHANGED <<protocol, users, snap, mop>>
  BY DEF Push
<1>2. Slotted /\ Slotted' /\ users \in Seq(Entry)
  BY <1>1 DEF UInv, ListInSync, UTypes, Slotted, Traits
<1>3. Syncing' = Syncing \ {m} /\ m \in Syncing
  BY <1>1 DEF Syncing, UInv, UTypes, UTypeOK
<1>4. UTypes'
  BY <1>1 DEF UInv, UTypes, UTypeOK
<1>5. ServiceFits' /\ PushesFit'
  <2>1. \A id, n : Fits(id, n) => Fits(id, n)'
    BY <1>1 DEF Fits, Slotted, Traits
  <2>2. \A a \in service' : Fits(a.id, a.key[1])
    BY <1>1 DEF UInv, PushesFit
  <2>3. \A k \in Mutators : \A a \in mset'[k] : Fits(a.id, a.key[1])
    BY <1>1 DEF UInv, UTypes, PushesFit
  <2> QED
    BY <2>1, <2>2, <2>3 DEF ServiceFits, PushesFit
<1>6. SnapIsNames' /\ ListInSync' /\ IdleOwesNothing'
  BY <1>1, <1>2 DEF UInv, UTypes, UTypeOK, SnapIsNames, ListInSync, IdleOwesNothing
<1>7. Alone'
  <2>1. Active(users)' = Active(users)
    BY <1>1 DEF Active, ActiveSlots
  <2>2. tainted' \subseteq Syncing'
    BY <1>1, <1>3 DEF UInv, Alone
  <2>3. CASE m \in tainted
    <3>1. dirty /\ dirty'
      BY <1>1, <2>3 DEF UInv, Alone
    <3>2. Syncing' \ tainted' = Syncing \ tainted
      BY <1>1, <1>3, <2>3
    <3>3. Syncing \ tainted = {}
      BY <1>3, <2>3 DEF UInv, Alone
    <3> QED
      BY <2>2, <3>1, <3>2, <3>3 DEF Alone
  <2>4. CASE m \notin tainted
    <3>1. Syncing = {m} /\ mset[m] = Active(users)
      BY <1>1, <1>3, <2>4 DEF UInv, Alone
    <3>2. Syncing' = {} /\ tainted' = {} /\ service' = Active(users)'
      BY <1>1, <1>3, <2>1, <2>2, <3>1
    <3> QED
      BY <3>2 DEF Alone
  <2> QED
    BY <2>3, <2>4
<1> QED
  BY <1>4, <1>5, <1>6, <1>7 DEF UInv

\* A refused push leaves the service as it is, and the caller no longer in
\* anybody's way.
LEMMA PushRefusedKeepsUInv ==
  ASSUME UInv, NEW m \in Mutators, PushRefused(m)
  PROVE  UInv'
<1>1. /\ mpc[m] = "push" /\ mset' = [mset EXCEPT ![m] = {}]
      /\ mpc' = [mpc EXCEPT ![m] = "failed"]
      /\ tainted' = tainted \ {m} /\ dirty' = TRUE
      /\ UNCHANGED <<protocol, users, snap, service, mop>>
  BY DEF PushRefused
<1>2. Slotted /\ Slotted' /\ users \in Seq(Entry)
  BY <1>1 DEF UInv, ListInSync, UTypes, Slotted, Traits
<1>3. Syncing' = Syncing \ {m} /\ m \in Syncing
  BY <1>1 DEF Syncing, UInv, UTypes, UTypeOK
<1>4. UTypes'
  BY <1>1 DEF UInv, UTypes, UTypeOK
<1>5. ServiceFits' /\ PushesFit'
  <2>1. \A id, n : Fits(id, n) => Fits(id, n)'
    BY <1>1 DEF Fits, Slotted, Traits
  <2>2. \A k \in Mutators : \A a \in mset'[k] : Fits(a.id, a.key[1])
    BY <1>1 DEF UInv, UTypes, PushesFit
  <2> QED
    BY <1>1, <2>1, <2>2 DEF UInv, ServiceFits, PushesFit
<1>6. SnapIsNames' /\ ListInSync' /\ IdleOwesNothing'
  BY <1>1, <1>2 DEF UInv, UTypes, UTypeOK, SnapIsNames, ListInSync, IdleOwesNothing
<1>7. Alone'
  <2>1. tainted' \subseteq Syncing'
    BY <1>1, <1>3 DEF UInv, Alone
  <2>2. Syncing' \ tainted' = {}
    BY <1>1, <1>3 DEF UInv, Alone
  <2> QED
    BY <1>1, <2>1, <2>2 DEF Alone
<1> QED
  BY <1>4, <1>5, <1>6, <1>7 DEF UInv

\* After the push a caller only closes connections and returns.
LEMMA BookkeepingKeepsUInv ==
  ASSUME UInv, NEW m \in Mutators, mpc[m] \in {"synced", "failed", "close"},
         NEW label \in {"idle", "close"}, mpc' = [mpc EXCEPT ![m] = label],
         NEW call \in Calls, mop' = [mop EXCEPT ![m] = call],
         label = "idle" => call.op = "add" \/ call.names = {},
         UNCHANGED <<protocol, users, snap, service, mset, tainted, dirty>>
  PROVE  UInv'
<1>1. Syncing' = Syncing
  BY DEF Syncing, UInv, UTypes, UTypeOK
<1>2. /\ mop' \in [Mutators -> Calls] /\ mop'[m] = call
      /\ \A k \in Mutators : k # m => mop'[k] = mop[k]
  BY DEF UInv, UTypes
<1>3. UTypes'
  BY <1>2 DEF UInv, UTypes, UTypeOK
<1>4. ServiceFits' /\ PushesFit' /\ SnapIsNames'
  BY DEF UInv, ServiceFits, PushesFit, SnapIsNames, Fits, Slotted, Traits, NamesIn
<1>5. ListInSync' /\ IdleOwesNothing'
  BY <1>2 DEF UInv, UTypes, UTypeOK, ListInSync, IdleOwesNothing, Slotted, Traits, ActiveByName
<1>6. Alone'
  BY <1>1 DEF UInv, UTypes, UTypeOK, Alone, Active, ActiveSlots, Slotted, Traits
<1> QED
  BY <1>3, <1>4, <1>5, <1>6 DEF UInv

LEMMA ConnectionsKeepUInv ==
  ASSUME UInv, UNCHANGED uvars
  PROVE  UInv'
<1>1. UNCHANGED <<protocol, users, snap, service, mpc, mop, mset, tainted, dirty>>
  BY DEF uvars
<1>2. Syncing' = Syncing
  BY <1>1 DEF Syncing
<1>3. UTypes'
  BY <1>1 DEF UInv, UTypes, UTypeOK
<1>4. ServiceFits' /\ PushesFit' /\ SnapIsNames'
  BY <1>1 DEF UInv, ServiceFits, PushesFit, SnapIsNames, Fits, Slotted, Traits, NamesIn
<1>5. ListInSync' /\ IdleOwesNothing'
  BY <1>1 DEF UInv, ListInSync, IdleOwesNothing, Slotted, Traits, ActiveByName
<1>6. Alone'
  BY <1>1, <1>2 DEF UInv, Alone, Active, ActiveSlots, Slotted, Traits
<1> QED
  BY <1>3, <1>4, <1>5, <1>6 DEF UInv
-----------------------------------------------------------------------------
(***************************************************************************)
(* The connections' invariant, kept by what the mutators do                *)
(***************************************************************************)
LEMMA InitCInv == Init => CInv
<1> SUFFICES ASSUME Init PROVE CInv
  OBVIOUS
<1> USE DEF Init
<1>1. TypeOK
  BY InitUInv DEF TypeOK, UInv, UTypes
<1>2. IdentFits /\ OwnersKnown /\ Named /\ AdmittedHasUser
  BY DEF IdentFits, OwnersKnown, Named, AdmittedHasUser
<1>3. TrackerExact /\ TakenIsOut
  BY DEF TrackerExact, TakenIsOut
<1>4. InFlight
  BY DEF InFlight, Bound
<1>5. ListServesKnown
  BY DEF UInit, ListServesKnown
<1> QED
  BY <1>1, <1>2, <1>3, <1>4, <1>5 DEF CInv

\* A step that leaves the connections alone may take a user's slot only if a
\* removal of the user is under way then, and forget a failed removal only if
\* the user has a slot then.
LEMMA TableKeepsCInv ==
  ASSUME UInv, UInv', CInv, ListServesKnown',
         UNCHANGED <<protocol, conn, ident, owner, user, entries, taken, slipped>>,
         spared' \subseteq Names, Slotted => Keeps(users'),
         \A n \in Names : Has(n) \/ Pending(n) => HasIn(users', n) \/ Pending(n)'
  PROVE  CInv'
<1>1. UNCHANGED <<conn, ident, owner, user, entries, taken, slipped>>
  OBVIOUS
<1>2. TypeOK'
  BY <1>1 DEF UInv, UTypes, CInv, TypeOK
<1>3. IdentFits'
  BY <1>1, FitsLater DEF CInv, IdentFits
<1>4. OwnersKnown' /\ AdmittedHasUser' /\ TrackerExact' /\ TakenIsOut'
  BY <1>1 DEF CInv, OwnersKnown, AdmittedHasUser, TrackerExact, TakenIsOut
<1>5. Named'
  <2> SUFFICES ASSUME NEW c \in Conns, owner[c] # NoOne, conn[c] # "authed",
                      user[c] \in {NoOne, Index}
               PROVE  Slotted' /\ users'[ident[c]] = Zeroed
    BY <1>1 DEF CInv, Named
  <2>1. Slotted /\ Slotted' /\ users[ident[c]] = Zeroed
    BY DEF CInv, Named, Slotted, Traits
  <2>2. ident[c] \in DOMAIN users
    BY <2>1 DEF CInv, IdentFits, Fits
  <2>3. ident[c] \in DOMAIN users' /\ users'[ident[c]].name = NoName
    BY <2>1, <2>2, EntryFacts DEF Keeps
  <2>4. users'[ident[c]] \in Entry
    BY <2>3 DEF UInv, UTypes
  <2> QED
    BY <2>1, <2>3, <2>4, EntryFacts
<1>6. InFlight'
  <2> SUFFICES ASSUME NEW c \in Conns, NEW n \in Names, Bound(c, n)', ~Has(n)'
               PROVE  c \in slipped \/ (\E m \in Mutators : c \in taken[m]) \/ Pending(n)'
    BY <1>1 DEF InFlight
  <2>1. Bound(c, n)
    BY <1>1 DEF Bound, Slotted, Traits
  <2>2. ~HasIn(users', n)
    BY DEF Has, SlotsOf, HasIn
  <2> QED
    BY <2>1, <2>2 DEF CInv, InFlight
<1> QED
  BY <1>2, <1>3, <1>4, <1>5, <1>6 DEF CInv

\* An idle caller owes nothing, so its next call hides no removal.
LEMMA PendingStays ==
  ASSUME UInv, NEW m \in Mutators, mpc[m] = "idle",
         NEW call \in Calls, mop' = [mop EXCEPT ![m] = call]
  PROVE  /\ \A n \in Names : Pending(n) => Pending(n)' \/ n \in spared
         /\ call.op = "del" => \A n \in call.names : Pending(n)'
<1>1. mop'[m] = call /\ \A k \in Mutators : k # m => mop'[k] = mop[k]
  BY DEF UInv, UTypes
<1>2. mop[m].op = "add" \/ mop[m].names = {}
  BY DEF UInv, IdleOwesNothing
<1> QED
  BY <1>1, <1>2 DEF Pending

\* The critical section leaves a list protocol's service with the users of the
\* new table, or with those it had.
LEMMA LockedKeepsServed ==
  ASSUME UInv, ListServesKnown, NEW m \in Mutators, mpc[m] = "idle", UNCHANGED protocol,
         NEW us \in Seq(Entry), ~Slotted => us \in Seq(User), Locked(m, us),
         NEW call \in Calls, mop' = [mop EXCEPT ![m] = call],
         \A n \in Names : Has(n) => HasIn(us, n) \/ (call.op = "del" /\ n \in call.names),
         \A n \in Names : n \in spared => HasIn(us, n) \/ n \in spared'
  PROVE  ListServesKnown'
<1>1. SUFFICES ASSUME ~Slotted, NEW a \in service'
               PROVE  Has(a.key[1])' \/ a.key[1] \in spared' \/ Failing(a.key[1])'
  BY DEF ListServesKnown, Slotted, Traits
<1>2. \A n : HasIn(users', n) => Has(n)'
  BY DEF HasIn, Has, SlotsOf
<1>3. CASE LockedList(m, us)
  <2>1. users' = us /\ a \in ActiveByName(us) /\ us \in Seq(User)
    BY <1>1, <1>3 DEF LockedList
  <2> QED
    BY <1>2, <2>1, ActiveByNameFacts
<1>4. CASE LockedListFails(m, us)
  <2>1. users' = us /\ service' = service /\ mpc' = [mpc EXCEPT ![m] = "failed"]
    BY <1>4 DEF LockedListFails
  <2>2. /\ mpc'[m] = "failed" /\ mop'[m] = call
        /\ \A k \in Mutators : k # m => mpc'[k] = mpc[k] /\ mop'[k] = mop[k]
    BY <2>1 DEF UInv, UTypes, UTypeOK
  <2>3. a \in service /\ a.key[1] \in Names
    BY <2>1 DEF UInv, UTypes, Accounts, Keys
  <2>4. Has(a.key[1]) \/ a.key[1] \in spared \/ Failing(a.key[1])
    BY <1>1, <2>3 DEF ListServesKnown
  <2>5. Failing(a.key[1]) => Failing(a.key[1])'
    BY <2>2 DEF Failing
  <2>6. call.op = "del" /\ a.key[1] \in call.names => Failing(a.key[1])'
    BY <2>2 DEF Failing
  <2> QED
    BY <1>2, <2>1, <2>3, <2>4, <2>5, <2>6
<1>5. CASE LockedSlots(m, us)
  BY <1>1, <1>5 DEF LockedSlots
<1> QED
  BY <1>3, <1>4, <1>5 DEF Locked

LEMMA AddSubscriptionsKeepsIInv ==
  ASSUME IInv, NEW m \in Mutators, AddSubscriptions(m)
  PROVE  IInv'
<1>0. PICK names \in SUBSET Names \ {{}}, v \in Versions :
        \E fresh \in SetToSeqs({n \in names : ~Has(n)}) :
          LET us == Upsert(users, names, fresh, v) IN
          /\ Len(us) <= MaxSlots
          /\ mop' = [mop EXCEPT ![m] = [op |-> "add", names |-> names]]
          /\ Locked(m, us)
  BY DEF AddSubscriptions, AddUsers
<1>1. PICK fresh \in SetToSeqs({n \in names : ~Has(n)}) :
        LET us == Upsert(users, names, fresh, v) IN
        /\ Len(us) <= MaxSlots
        /\ mop' = [mop EXCEPT ![m] = [op |-> "add", names |-> names]]
        /\ Locked(m, us)
  BY <1>0
<1> DEFINE us == Upsert(users, names, fresh, v)
           call == [op |-> "add", names |-> names]
<1>2. /\ us \in Seq(Entry) /\ (users \in Seq(User) => us \in Seq(User))
      /\ Keeps(us) /\ \A n \in Names : Has(n) \/ n \in names => HasIn(us, n)
  BY UpsertFacts DEF IInv, UInv, UTypes
<1>3. /\ call \in Calls /\ call.names = names /\ mpc[m] = "idle" /\ UNCHANGED protocol
      /\ UInv /\ CInv /\ ListServesKnown /\ mop \in [Mutators -> Calls]
      /\ UNCHANGED <<conn, ident, owner, user, entries, taken, slipped>>
  BY DEF Calls, AddSubscriptions, AddUsers, IInv, CInv, UInv, UTypes
<1>4. Len(us) <= MaxSlots /\ mop' = [mop EXCEPT ![m] = call] /\ Locked(m, us)
  BY <1>1
<1> HIDE DEF us, call
<1>5. ~Slotted => us \in Seq(User)
  BY <1>2, <1>3 DEF UInv, ListInSync
<1>6. UInv' /\ users' = us
  BY <1>2, <1>3, <1>4, <1>5, LockedKeepsUInv
<1>7. spared' = spared \ names /\ spared' \subseteq Names
  BY <1>3, <1>4 DEF AddSubscriptions, CInv, TypeOK
<1>8. ListServesKnown'
  BY <1>2, <1>3, <1>4, <1>5, <1>7, LockedKeepsServed DEF CInv, TypeOK
<1>9. \A n \in Names : Pending(n) => Pending(n)' \/ n \in spared
  BY <1>3, <1>4, PendingStays
<1>10. \A n \in Names : Has(n) \/ Pending(n) => HasIn(users', n) \/ Pending(n)'
  BY <1>2, <1>6, <1>7, <1>9 DEF Pending
<1>11. CInv'
  BY <1>2, <1>3, <1>6, <1>7, <1>8, <1>10, TableKeepsCInv
<1> QED
  BY <1>6, <1>11 DEF IInv

LEMMA DelUsersKeepsIInv ==
  ASSUME IInv, NEW m \in Mutators, DelUsers(m), UNCHANGED cvars
  PROVE  IInv'
<1>1. PICK names \in SUBSET Names \ {{}} :
        /\ mop' = [mop EXCEPT ![m] = [op |-> "del", names |-> names]]
        /\ IF Slotted
           THEN Locked(m, ZeroSlots(users, names))
           ELSE \E at \in Kept(users, names) :
                  Locked(m, [i \in DOMAIN at |-> users[at[i]]])
  BY DEF DelUsers
<1> DEFINE call == [op |-> "del", names |-> names]
<1>2. call \in Calls /\ mpc[m] = "idle" /\ UNCHANGED protocol /\ UInv /\ CInv
      /\ call.op = "del" /\ call.names = names /\ mop' = [mop EXCEPT ![m] = call]
      /\ UNCHANGED <<conn, ident, owner, user, entries, taken, slipped, spared>>
      /\ ListServesKnown /\ spared' \subseteq Names
  BY <1>1 DEF Calls, DelUsers, IInv, CInv, TypeOK, cvars
<1>3. users \in Seq(Entry) /\ Len(users) \in Nat /\ Len(users) <= MaxSlots
  BY <1>2 DEF UInv, UTypes, UTypeOK
<1> HIDE DEF call
<1>4. /\ \A n \in Names : Pending(n) => Pending(n)'
      /\ \A n \in names : Pending(n)'
  BY <1>2, PendingStays DEF Pending
<1>5. PICK us \in Seq(Entry) :
        /\ Len(us) <= MaxSlots /\ (Slotted => Keeps(us)) /\ (~Slotted => us \in Seq(User))
        /\ Locked(m, us) /\ \A n \in Names \ names : Has(n) => HasIn(us, n)
  <2>1. CASE Slotted
    <3>1. Locked(m, ZeroSlots(users, names))
      BY <1>1, <2>1
    <3> QED
      BY <1>3, <2>1, <3>1, ZeroSlotsFacts
  <2>2. CASE ~Slotted
    <3>1. PICK at \in Kept(users, names) : Locked(m, [i \in DOMAIN at |-> users[at[i]]])
      BY <1>1, <2>2
    <3> DEFINE us == [i \in DOMAIN at |-> users[at[i]]]
    <3>2. users \in Seq(User)
      BY <1>2, <2>2 DEF UInv, ListInSync
    <3>3. us \in Seq(User) /\ Len(us) <= Len(users)
          /\ \A n \in Names \ names : Has(n) => HasIn(us, n)
      BY <3>2, KeptFacts
    <3>4. Locked(m, us)
      BY <3>1
    <3> HIDE DEF us
    <3>5. Len(us) \in Nat /\ us \in Seq(Entry)
      BY <3>3, EntryFacts
    <3>6. Len(us) <= MaxSlots
      BY <1>3, <3>3, <3>5, SlotAssumption
    <3> QED
      BY <2>2, <3>3, <3>4, <3>5, <3>6
  <2> QED
    BY <2>1, <2>2
<1>6. UInv' /\ users' = us
  BY <1>2, <1>5, LockedKeepsUInv
<1>7. ListServesKnown'
  BY <1>2, <1>5, LockedKeepsServed
<1>8. \A n \in Names : Has(n) \/ Pending(n) => HasIn(users', n) \/ Pending(n)'
  BY <1>4, <1>5, <1>6
<1>9. CInv'
  BY <1>2, <1>5, <1>6, <1>7, <1>8, TableKeepsCInv
<1> QED
  BY <1>6, <1>9 DEF IInv

\* A step that touches neither the table nor what is owed.
LEMMA SyncKeepsCInv ==
  ASSUME UInv, UInv', CInv, ListServesKnown',
         UNCHANGED <<protocol, users, conn, ident, owner, user, entries, taken, slipped>>,
         spared' \subseteq Names, \A n \in Names : Pending(n) => Pending(n)'
  PROVE  CInv'
<1>1. Slotted => Keeps(users')
  BY DEF Keeps
<1>2. \A n \in Names : Has(n) => HasIn(users', n)
  BY DEF Has, SlotsOf, HasIn
<1> QED
  BY <1>1, <1>2, TableKeepsCInv

\* syncService, of a slot protocol.
LEMMA SyncServiceKeepsIInv ==
  ASSUME IInv, NEW m \in Mutators, syncService(m), UNCHANGED cvars
  PROVE  IInv'
<1>1. UInv'
  BY CollectKeepsUInv, PushKeepsUInv, PushRefusedKeepsUInv DEF IInv, syncService
<1>2. mpc[m] \in {"collect", "push"} /\ UNCHANGED <<protocol, users, mop>>
      /\ UNCHANGED <<conn, ident, owner, user, entries, taken, slipped, spared>>
  BY DEF syncService, Collect, Push, PushRefused, cvars
<1>3. Slotted'
  BY <1>2 DEF IInv, UInv, ListInSync, Slotted, Traits
<1>4. ListServesKnown' /\ (\A n \in Names : Pending(n) => Pending(n)') /\ spared' \subseteq Names
  BY <1>2, <1>3 DEF ListServesKnown, Pending, IInv, CInv, TypeOK
<1>5. CInv'
  BY <1>1, <1>2, <1>4, SyncKeepsCInv DEF IInv
<1> QED
  BY <1>1, <1>5 DEF IInv

\* The three ways a call ends.
LEMMA ReturnsKeepIInv ==
  ASSUME IInv, NEW m \in Mutators, AddReturns(m) \/ RemoveReturns(m) \/ RemoveFails(m)
  PROVE  IInv'
<1>1. /\ mpc[m] \in {"synced", "failed", "close"} /\ mpc' = [mpc EXCEPT ![m] = "idle"]
      /\ mop' = [mop EXCEPT ![m] = NoCall]
      /\ UNCHANGED <<protocol, users, snap, service, mset, tainted, dirty>>
      /\ UNCHANGED <<conn, ident, owner, user, entries, taken, slipped>>
  BY DEF AddReturns, Return, RemoveReturns, RemoveFails, cvars
<1>2. /\ spared \subseteq spared' /\ spared' \subseteq Names
      /\ mop[m].op = "del" => mop[m].names \subseteq spared'
  <2>1. mop[m] \in Calls /\ spared \subseteq Names
    BY DEF IInv, UInv, UTypes, CInv, TypeOK
  <2>2. mop[m].op \in {"add", "del"} /\ mop[m].names \subseteq Names
    BY <2>1 DEF Calls
  <2>3. CASE AddReturns(m)
    BY <2>1, <2>2, <2>3 DEF AddReturns, cvars
  <2>4. CASE RemoveReturns(m)
    BY <2>1, <2>2, <2>4 DEF RemoveReturns, cvars
  <2>5. CASE RemoveFails(m)
    BY <2>1, <2>2, <2>5 DEF RemoveFails
  <2> QED
    BY <2>3, <2>4, <2>5
<1>3. NoCall \in Calls /\ NoCall.op = "add"
  BY DEF NoCall, Calls
<1>4. UInv'
  BY <1>1, <1>3, BookkeepingKeepsUInv DEF IInv
<1>5. \A k \in Mutators : k # m => mop'[k] = mop[k] /\ mpc'[k] = mpc[k]
  BY <1>1 DEF IInv, UInv, UTypes, UTypeOK
<1>6. \A n \in Names : Pending(n) => Pending(n)'
  BY <1>2, <1>5 DEF Pending
<1>7. \A n : Failing(n) => Failing(n)' \/ n \in spared'
  BY <1>2, <1>5 DEF Failing
<1>8. ListServesKnown'
  BY <1>1, <1>2, <1>7 DEF IInv, CInv, ListServesKnown, Has, SlotsOf, Slotted, Traits
<1>9. CInv'
  BY <1>1, <1>2, <1>4, <1>6, <1>8, SyncKeepsCInv DEF IInv
<1> QED
  BY <1>4, <1>9 DEF IInv

\* A connection's own steps leave the users alone.
LEMMA ServedUnchanged ==
  ASSUME ListServesKnown, UNCHANGED <<uvars, spared>>
  PROVE  ListServesKnown'
BY DEF ListServesKnown, Has, SlotsOf, Failing, Slotted, Traits, uvars
-----------------------------------------------------------------------------
(***************************************************************************)
(* The connections' invariant, kept by closeAll                            *)
(***************************************************************************)
LEMMA TakeConnsKeepsIInv ==
  ASSUME IInv, NEW m \in Mutators, TakeConns(m)
  PROVE  IInv'
<1>1. PICK n \in mop[m].names :
        /\ mop' = [mop EXCEPT ![m].names = @ \ {n}]
        /\ taken' = [taken EXCEPT ![m] = {e[2] : e \in {e \in entries : e[1] = n}}]
        /\ entries' = entries \ {e \in entries : e[1] = n}
        /\ slipped' = slipped \cup {c \in Conns : /\ owner[c] = n
                                                  /\ conn[c] \in {"authed", "named", "checked"}}
  BY DEF TakeConns
<1>2. /\ mpc[m] \in {"synced", "close"} /\ mop[m].op = "del" /\ taken[m] = {}
      /\ mpc' = [mpc EXCEPT ![m] = "close"]
      /\ UNCHANGED <<protocol, users, snap, service, mset, tainted, dirty,
                     conn, ident, owner, user, spared>>
  BY DEF TakeConns
<1>3. mop[m] \in Calls /\ n \in Names
  BY <1>1 DEF IInv, UInv, UTypes, Calls
<1>4. UInv'
  <2> DEFINE call == [mop[m] EXCEPT !.names = @ \ {n}]
  <2>1. call \in Calls /\ mop' = [mop EXCEPT ![m] = call]
    BY <1>1, <1>3 DEF Calls
  <2> HIDE DEF call
  <2> QED
    BY <1>2, <2>1, BookkeepingKeepsUInv DEF IInv
<1>5. \A e \in entries : e[1] \in Names \cup {Index} /\ e[2] \in Conns /\ e = <<e[1], e[2]>>
  BY DEF IInv, CInv, TypeOK
<1>6. /\ taken \in [Mutators -> SUBSET Conns]
      /\ taken' \in [Mutators -> SUBSET Conns]
      /\ \A k \in Mutators : k # m => taken'[k] = taken[k]
      /\ \A c : c \in taken'[m] <=> \E e \in entries : e[1] = n /\ e[2] = c
  BY <1>1, <1>5 DEF IInv, CInv, TypeOK
<1>7. TypeOK'
  BY <1>1, <1>2, <1>4, <1>6 DEF IInv, UInv, UTypes, CInv, TypeOK
<1>8. IdentFits' /\ OwnersKnown' /\ Named' /\ AdmittedHasUser'
  BY <1>2 DEF IInv, CInv, IdentFits, Fits, Slotted, Traits, OwnersKnown, Named, AdmittedHasUser
<1>9. \A e \in entries : conn[e[2]] \in {"added", "open"} /\ e[1] = user[e[2]]
  BY <1>5 DEF IInv, CInv, TrackerExact
<1>10. \A e : e \in entries' <=> e \in entries /\ e[1] # n
  BY <1>1
<1>11. TrackerExact'
  <2> SUFFICES ASSUME NEW c \in Conns
               PROVE  /\ conn[c] \in {"added", "open"} =>
                           <<user[c], c>> \in entries' \/ \E k \in Mutators : c \in taken'[k]
                      /\ \A e \in entries' : e[2] = c =>
                           conn[c] \in {"added", "open"} /\ e[1] = user[c]
    BY <1>2 DEF TrackerExact
  <2>1. ASSUME conn[c] \in {"added", "open"}
        PROVE  <<user[c], c>> \in entries' \/ \E k \in Mutators : c \in taken'[k]
    <3>1. CASE <<user[c], c>> \in entries
      BY <1>6, <1>10, <3>1
    <3>2. CASE \E k \in Mutators : c \in taken[k]
      BY <1>2, <1>6, <3>2
    <3> QED
      BY <2>1, <3>1, <3>2 DEF IInv, CInv, TrackerExact
  <2> QED
    BY <1>9, <1>10, <2>1
<1>12. TakenIsOut'
  <2>1. ASSUME NEW k \in Mutators, NEW c \in taken'[k]
        PROVE  conn[c] \in {"added", "open"} /\ \A e \in entries' : e[2] # c
    <3>1. CASE k = m
      BY <1>6, <1>9, <1>10, <2>1, <3>1
    <3>2. CASE k # m
      BY <1>6, <1>10, <2>1, <3>2 DEF IInv, CInv, TakenIsOut
    <3> QED
      BY <3>1, <3>2
  <2>2. ASSUME NEW k \in Mutators, NEW l \in Mutators, k # l
        PROVE  taken'[k] \cap taken'[l] = {}
    <3>1. \A j \in Mutators : j # m => taken[j] \cap taken'[m] = {}
      BY <1>6 DEF IInv, CInv, TakenIsOut
    <3>2. \A i, j \in Mutators : i # j => taken[i] \cap taken[j] = {}
      BY DEF IInv, CInv, TakenIsOut
    <3> QED
      BY <1>6, <2>2, <3>1, <3>2
  <2> QED
    BY <1>2, <2>1, <2>2 DEF TakenIsOut
<1>13. InFlight'
  <2> SUFFICES ASSUME NEW c \in Conns, NEW u \in Names, Bound(c, u), ~Has(u)
               PROVE  c \in slipped' \/ (\E k \in Mutators : c \in taken'[k]) \/ Pending(u)'
    BY <1>2 DEF InFlight, Bound, Has, SlotsOf, Slotted, Traits
  <2>1. CASE c \in slipped
    BY <1>1, <2>1
  <2>2. CASE \E k \in Mutators : c \in taken[k]
    BY <1>2, <1>6, <2>2
  <2>3. CASE Pending(u) /\ u # n
    <3>1. CASE u \in spared
      BY <1>2, <3>1 DEF Pending
    <3>2. ASSUME NEW k \in Mutators, mop[k].op = "del", u \in mop[k].names
          PROVE  Pending(u)'
      <4>1. mop'[k].op = "del" /\ u \in mop'[k].names
        BY <1>1, <1>3, <2>3, <3>2 DEF IInv, UInv, UTypes, Calls
      <4> QED
        BY <4>1 DEF Pending
    <3> QED
      BY <2>3, <3>1, <3>2 DEF Pending
  <2>4. CASE u = n
    <3>1. CASE conn[c] \in {"added", "open"}
      <4>1. user[c] = n
        BY <2>4, <3>1 DEF Bound
      <4> QED
        BY <1>2, <1>6, <3>1, <4>1 DEF IInv, CInv, TrackerExact
    <3>2. CASE conn[c] \in {"authed", "named", "checked"}
      <4>1. owner[c] = n
        BY <1>3, <2>4, <3>2, UserAssumption DEF Bound, IInv, CInv, Named, OwnersKnown
      <4> QED
        BY <1>1, <3>2, <4>1
    <3> QED
      BY <3>1, <3>2 DEF Bound
  <2> QED
    BY <2>1, <2>2, <2>3, <2>4 DEF IInv, CInv, InFlight
<1>14. ListServesKnown'
  <2>1. \A k \in Mutators : mpc[k] = "failed" => mpc'[k] = "failed" /\ mop'[k] = mop[k]
    BY <1>1, <1>2 DEF IInv, UInv, UTypes, UTypeOK
  <2>2. \A u : Failing(u) => Failing(u)'
    BY <2>1 DEF Failing
  <2> QED
    BY <1>2, <2>2 DEF IInv, CInv, ListServesKnown, Has, SlotsOf, Slotted, Traits
<1> QED
  BY <1>4, <1>7, <1>8, <1>11, <1>12, <1>13, <1>14 DEF IInv, CInv

LEMMA CloseTakenKeepsCInv ==
  ASSUME IInv, NEW m \in Mutators, CloseTaken(m)
  PROVE  CInv'
<1>1. PICK c \in taken[m] :
        /\ taken' = [taken EXCEPT ![m] = @ \ {c}]
        /\ conn' = [conn EXCEPT ![c] = IF @ \in {"added", "open"} THEN "closed" ELSE @]
  BY DEF CloseTaken
<1>2. /\ UNCHANGED <<protocol, users, mop, ident, owner, user, entries, slipped, spared>>
      /\ UNCHANGED uvars
  BY DEF CloseTaken, uvars
<1>3. c \in Conns /\ conn[c] \in {"added", "open"} /\ \A e \in entries : e[2] # c
  BY DEF IInv, CInv, TypeOK, TakenIsOut
<1>4. conn' = [conn EXCEPT ![c] = "closed"]
  BY <1>1, <1>3 DEF IInv, CInv, TypeOK
<1>5. /\ taken \in [Mutators -> SUBSET Conns]
      /\ taken' \in [Mutators -> SUBSET Conns]
      /\ \A k \in Mutators : taken'[k] \subseteq taken[k] /\ c \notin taken'[k]
      /\ \A k \in Mutators : \A d \in taken[k] : d # c => d \in taken'[k]
  BY <1>1 DEF IInv, CInv, TypeOK, TakenIsOut
<1>6. /\ conn' \in [Conns -> {"closed", "authed", "named", "checked", "added", "open", "untracked"}]
      /\ conn'[c] = "closed" /\ \A d \in Conns : d # c => conn'[d] = conn[d]
  BY <1>3, <1>4 DEF IInv, CInv, TypeOK
<1>7. TypeOK'
  BY <1>2, <1>5, <1>6, ConnectionsKeepUInv DEF IInv, UInv, UTypes, CInv, TypeOK
<1>8. IdentFits' /\ OwnersKnown' /\ AdmittedHasUser'
  BY <1>2, <1>6 DEF IInv, CInv, IdentFits, Fits, Slotted, Traits, OwnersKnown, AdmittedHasUser
<1>9. Named'
  BY <1>2, <1>3, <1>6 DEF IInv, CInv, Named, Slotted, Traits
<1>10. TrackerExact'
  BY <1>2, <1>3, <1>5, <1>6 DEF IInv, CInv, TrackerExact
<1>11. TakenIsOut'
  BY <1>2, <1>5, <1>6 DEF IInv, CInv, TakenIsOut
<1>12. InFlight'
  <2> SUFFICES ASSUME NEW d \in Conns, NEW u \in Names, Bound(d, u)', ~Has(u)
               PROVE  d \in slipped \/ (\E k \in Mutators : d \in taken'[k]) \/ Pending(u)
    BY <1>2 DEF InFlight, Has, SlotsOf, Pending
  <2>1. d # c /\ Bound(d, u)
    BY <1>2, <1>6 DEF Bound, Slotted, Traits
  <2> QED
    BY <1>5, <2>1 DEF IInv, CInv, InFlight
<1>13. ListServesKnown'
  BY <1>2, ServedUnchanged DEF IInv, CInv
<1> QED
  BY <1>7, <1>8, <1>9, <1>10, <1>11, <1>12, <1>13 DEF CInv

LEMMA MutatorStepKeepsIInv ==
  ASSUME IInv, NEW m \in Mutators, MutatorStep(m)
  PROVE  IInv'
<1>1. CASE AddSubscriptions(m)
  BY <1>1, AddSubscriptionsKeepsIInv
<1>2. CASE DelUsers(m) /\ UNCHANGED cvars
  BY <1>2, DelUsersKeepsIInv
<1>3. CASE syncService(m) /\ UNCHANGED cvars
  BY <1>3, SyncServiceKeepsIInv
<1>4. CASE AddReturns(m) \/ RemoveReturns(m) \/ RemoveFails(m)
  BY <1>4, ReturnsKeepIInv
<1>5. CASE TakeConns(m)
  BY <1>5, TakeConnsKeepsIInv
<1>6. CASE CloseTaken(m)
  BY <1>6, CloseTakenKeepsCInv, ConnectionsKeepUInv DEF CloseTaken, IInv
<1> QED
  BY <1>1, <1>2, <1>3, <1>4, <1>5, <1>6 DEF MutatorStep
-----------------------------------------------------------------------------
(***************************************************************************)
(* The connections' invariant, kept by what connections do                 *)
(***************************************************************************)
\* Connection c, not tracked before or after, moves to label with identity id,
\* owner o and name u; if it is going to be tracked under the name of a user
\* without a slot, it has slipped by or a removal is under way.
Moves(c, label, id, o, u) ==
    /\ UNCHANGED <<uvars, entries, taken, spared>>
    /\ label \in {"closed", "authed", "named", "checked", "untracked"}
    /\ conn' = [conn EXCEPT ![c] = label] /\ conn[c] \in {"closed", "authed", "named"}
    /\ id \in Nat \cup Names /\ ident' = [ident EXCEPT ![c] = id]
    /\ o \in Names /\ owner' = [owner EXCEPT ![c] = o] /\ Fits(id, o)
    /\ u \in Names \cup {NoOne, Index} /\ user' = [user EXCEPT ![c] = u]
    /\ slipped' \subseteq Conns /\ slipped \ {c} \subseteq slipped'
    /\ label # "authed" => /\ u \in {o, NoOne, Index}
                           /\ u \in {NoOne, Index} => Slotted /\ users[id] = Zeroed
    /\ label = "checked" => u # NoOne
    /\ \A n \in Names :
         /\ ~Has(n)
         /\ \/ label \in {"named", "checked"} /\ u = n
            \/ ~Slotted /\ label = "authed" /\ o = n
         => c \in slipped' \/ Pending(n)

LEMMA MoveKeepsCInv ==
  ASSUME IInv, NEW c \in Conns, NEW label, NEW id, NEW o, NEW u, Moves(c, label, id, o, u)
  PROVE  CInv'
<1> USE DEF Moves
<1>1. UNCHANGED <<protocol, users, snap, service, mpc, mop, mset, tainted, dirty>>
  BY DEF uvars
<1>2. /\ conn \in [Conns -> {"closed", "authed", "named", "checked", "added", "open", "untracked"}]
      /\ owner \in [Conns -> Names \cup {NoOne}]
      /\ user \in [Conns -> Names \cup {NoOne, Index}]
      /\ ident \in [Conns -> Nat \cup Names]
  BY DEF IInv, CInv, TypeOK, IdentFits
<1>3. /\ conn' \in [Conns -> {"closed", "authed", "named", "checked", "added", "open", "untracked"}]
      /\ owner' \in [Conns -> Names \cup {NoOne}]
      /\ user' \in [Conns -> Names \cup {NoOne, Index}]
      /\ ident' \in [Conns -> Nat \cup Names]
      /\ conn'[c] = label /\ owner'[c] = o /\ user'[c] = u /\ ident'[c] = id
      /\ \A d \in Conns : d # c => /\ conn'[d] = conn[d] /\ owner'[d] = owner[d]
                                   /\ user'[d] = user[d] /\ ident'[d] = ident[d]
  BY <1>2
<1>4. o # NoOne
  BY UserAssumption
<1>5. /\ \A m \in Mutators : c \notin taken[m]
      /\ \A e \in entries : e[2] # c
  BY DEF IInv, CInv, TakenIsOut, TrackerExact
<1>6. TypeOK'
  BY <1>1, <1>3, ConnectionsKeepUInv DEF IInv, UInv, UTypes, CInv, TypeOK
<1>7. IdentFits'
  BY <1>1, <1>3 DEF IInv, CInv, IdentFits, Fits, Slotted, Traits
<1>8. OwnersKnown' /\ AdmittedHasUser'
  BY <1>3, <1>4 DEF IInv, CInv, OwnersKnown, AdmittedHasUser
<1>9. Named'
  BY <1>1, <1>3 DEF IInv, CInv, Named, Slotted, Traits
<1>10. TrackerExact' /\ TakenIsOut'
  BY <1>3, <1>5 DEF IInv, CInv, TrackerExact, TakenIsOut
<1>11. InFlight'
  <2> SUFFICES ASSUME NEW d \in Conns, NEW n \in Names, Bound(d, n)', ~Has(n)
               PROVE  d \in slipped' \/ (\E m \in Mutators : d \in taken[m]) \/ Pending(n)
    BY <1>1 DEF InFlight, Has, SlotsOf, Pending
  <2>1. CASE d = c
    <3>1. Slotted' = Slotted
      BY <1>1 DEF Slotted, Traits
    <3>2. \/ label \in {"named", "checked"} /\ u = n
          \/ ~Slotted /\ label = "authed" /\ o = n
      BY <1>3, <2>1, <3>1 DEF Bound
    <3> QED
      BY <2>1, <3>2
  <2>2. CASE d # c
    <3>1. Bound(d, n)
      BY <1>1, <1>3, <2>2 DEF Bound, Slotted, Traits
    <3> QED
      BY <2>2, <3>1 DEF IInv, CInv, InFlight
  <2> QED
    BY <2>1, <2>2
<1>12. ListServesKnown'
  BY ServedUnchanged DEF IInv, CInv
<1> QED
  BY <1>6, <1>7, <1>8, <1>9, <1>10, <1>11, <1>12 DEF CInv

\* Does user n have a slot, told from the slot alone?
LEMMA HasSlot ==
  ASSUME NEW i \in DOMAIN users PROVE Has(users[i].name)
BY DEF Has, SlotsOf

LEMMA AuthenticateKeepsCInv ==
  ASSUME IInv, NEW c \in Conns, Authenticate(c)
  PROVE  CInv'
<1>1. PICK a \in service : /\ ident' = [ident EXCEPT ![c] = a.id]
                           /\ owner' = [owner EXCEPT ![c] = a.key[1]]
  BY DEF Authenticate
<1>2. /\ conn[c] = "closed" /\ conn' = [conn EXCEPT ![c] = "authed"]
      /\ slipped' = slipped \ {c} /\ UNCHANGED <<uvars, user, entries, taken, spared>>
  BY DEF Authenticate
<1> DEFINE id == a.id
           o == a.key[1]
           u == user[c]
<1>3. id \in Nat \cup Names /\ o \in Names /\ Fits(id, o)
  BY DEF IInv, UInv, UTypes, Accounts, Keys, ServiceFits
<1>4. user' = [user EXCEPT ![c] = u] /\ u \in Names \cup {NoOne, Index}
      /\ slipped' \subseteq Conns
  BY <1>2 DEF IInv, CInv, TypeOK
<1>5. ~Slotted => Has(o) \/ Pending(o)
  BY DEF IInv, CInv, ListServesKnown, Failing, Pending
<1>6. ident' = [ident EXCEPT ![c] = id] /\ owner' = [owner EXCEPT ![c] = o]
  BY <1>1
<1>7. slipped \ {c} \subseteq slipped' /\ \A n \in Names : ~Has(n) /\ ~Slotted /\ o = n => Pending(n)
  BY <1>2, <1>5
<1> HIDE DEF id, o, u
<1>8. Moves(c, "authed", id, o, u)
  BY <1>2, <1>3, <1>4, <1>6, <1>7 DEF Moves
<1> QED
  BY <1>8, MoveKeepsCInv

\* The owner and identity of a connection that has authenticated.
LEMMA OwnerFacts ==
  ASSUME CInv, NEW c \in Conns, owner[c] # NoOne
  PROVE  /\ owner[c] \in Names /\ ident[c] \in Nat \cup Names /\ Fits(ident[c], owner[c])
         /\ user[c] \in Names \cup {NoOne, Index}
         /\ owner = [owner EXCEPT ![c] = owner[c]]
         /\ ident = [ident EXCEPT ![c] = ident[c]]
         /\ user = [user EXCEPT ![c] = user[c]]
BY DEF CInv, TypeOK, IdentFits

LEMMA NextStreamKeepsCInv ==
  ASSUME IInv, NEW c \in Conns, NextStream(c)
  PROVE  CInv'
<1>1. /\ conn[c] = "closed" /\ owner[c] # NoOne
      /\ slipped' = slipped \cup (IF \E i \in DOMAIN users : users[i].name = owner[c]
                                  THEN {} ELSE {c})
      /\ UNCHANGED <<uvars, ident, owner, user, entries, taken, spared>>
  BY DEF NextStream
<1>2. PICK label \in {"authed", "named"} : conn' = [conn EXCEPT ![c] = label]
  BY DEF NextStream
<1>3. Has(owner[c]) \/ c \in slipped'
  BY <1>1 DEF Has, SlotsOf
<1>4. slipped' \subseteq Conns
  BY <1>1 DEF IInv, CInv, TypeOK
<1>5. /\ user[c] \in {owner[c], NoOne, Index}
      /\ user[c] \in {NoOne, Index} => Slotted /\ users[ident[c]] = Zeroed
  BY <1>1 DEF IInv, CInv, Named
<1>6. \A n \in Names : user[c] = n => owner[c] = n
  BY <1>5, UserAssumption
<1> DEFINE id == ident[c]
           o == owner[c]
           u == user[c]
<1>7. /\ o \in Names /\ id \in Nat \cup Names /\ Fits(id, o) /\ u \in Names \cup {NoOne, Index}
      /\ ident' = [ident EXCEPT ![c] = id] /\ owner' = [owner EXCEPT ![c] = o]
      /\ user' = [user EXCEPT ![c] = u]
  BY <1>1, OwnerFacts DEF IInv
<1>8. /\ u \in {o, NoOne, Index} /\ (u \in {NoOne, Index} => Slotted /\ users[id] = Zeroed)
      /\ \A n \in Names : u = n => o = n
  BY <1>5, <1>6
<1>9. slipped \ {c} \subseteq slipped' /\ \A n \in Names : ~Has(n) /\ o = n => c \in slipped'
  BY <1>1, <1>3
<1>10. UNCHANGED <<uvars, entries, taken, spared>> /\ conn[c] = "closed"
  BY <1>1
<1> HIDE DEF id, o, u
<1>11. Moves(c, label, id, o, u)
  BY <1>2, <1>4, <1>7, <1>8, <1>9, <1>10 DEF Moves
<1> QED
  BY <1>11, MoveKeepsCInv

LEMMA ResolveKeepsCInv ==
  ASSUME IInv, NEW c \in Conns, Resolve(c)
  PROVE  CInv'
<1> DEFINE id == ident[c]
           o == owner[c]
           u == userName(id)
<1>1. /\ conn[c] = "authed" /\ conn' = [conn EXCEPT ![c] = "named"]
      /\ user' = [user EXCEPT ![c] = u]
      /\ UNCHANGED <<uvars, ident, owner, entries, taken, slipped, spared>>
  BY DEF Resolve
<1>2. o # NoOne
  BY <1>1 DEF IInv, CInv, OwnersKnown
<1>3. /\ o \in Names /\ id \in Nat \cup Names /\ Fits(id, o)
      /\ ident' = [ident EXCEPT ![c] = id] /\ owner' = [owner EXCEPT ![c] = o]
  BY <1>1, <1>2, OwnerFacts DEF IInv
<1>4. slipped' \subseteq Conns
  BY <1>1 DEF IInv, CInv, TypeOK
<1>5. CASE ~Slotted
  <2>1. u = o
    BY <1>3, <1>5 DEF userName, Fits
  <2>2. \A n \in Names : ~Has(n) /\ o = n => c \in slipped' \/ Pending(n)
    <3> SUFFICES ASSUME NEW n \in Names, ~Has(n), o = n PROVE c \in slipped' \/ Pending(n)
      OBVIOUS
    <3>1. Bound(c, n)
      BY <1>1, <1>5 DEF Bound
    <3>2. \A m \in Mutators : c \notin taken[m]
      BY <1>1 DEF IInv, CInv, TakenIsOut
    <3> QED
      BY <1>1, <3>1, <3>2 DEF IInv, CInv, InFlight
  <2>3. u \in Names /\ u \notin {NoOne, Index}
    BY <1>3, <2>1, UserAssumption
  <2> HIDE DEF id, o, u
  <2>4. Moves(c, "named", id, o, u)
    BY <1>1, <1>3, <1>4, <2>1, <2>2, <2>3 DEF Moves
  <2> QED
    BY <2>4, MoveKeepsCInv
<1>6. CASE Slotted
  <2>1. id \in DOMAIN users /\ users[id] \in Entry /\ users[id].name \in {o, NoName}
        /\ DOMAIN snap = DOMAIN users /\ snap[id] = users[id].name
    BY <1>3, <1>6 DEF Fits, IInv, UInv, UTypes, SnapIsNames, NamesIn
  <2>2. \/ u = o /\ Has(o)
        \/ u \in {NoOne, Index} /\ users[id] = Zeroed
    <3>1. CASE snap[id] # NoName
      <4>1. u = o /\ users[id].name = o
        BY <1>6, <2>1, <3>1 DEF userName
      <4> QED
        BY <2>1, <4>1, HasSlot
    <3>2. CASE snap[id] = NoName
      <4>1. users[id] = Zeroed
        BY <2>1, <3>2, EntryFacts
      <4> QED
        BY <1>6, <3>2, <4>1 DEF userName
    <3> QED
      BY <3>1, <3>2
  <2>3. \A n \in Names : ~Has(n) => u # n
    BY <2>2, UserAssumption
  <2>4. u \in Names \cup {NoOne, Index}
        /\ u \in {o, NoOne, Index} /\ (u \in {NoOne, Index} => users[id] = Zeroed)
    BY <1>3, <2>2, UserAssumption
  <2> HIDE DEF id, o, u
  <2>5. Moves(c, "named", id, o, u)
    BY <1>1, <1>3, <1>4, <1>6, <2>3, <2>4 DEF Moves
  <2> QED
    BY <2>5, MoveKeepsCInv
<1> QED
  BY <1>5, <1>6

\* RoutedConnection's verdicts.
LEMMA VerdictKeepsCInv ==
  ASSUME IInv, NEW c \in Conns, PassUntracked(c) \/ Reject(c) \/ Admit(c)
  PROVE  CInv'
<1> DEFINE id == ident[c]
           o == owner[c]
           u == user[c]
<1>1. /\ conn[c] = "named"
      /\ UNCHANGED <<uvars, ident, owner, user, entries, taken, slipped, spared>>
  BY DEF PassUntracked, Reject, Admit
<1>2. PICK label \in {"untracked", "closed", "checked"} :
        conn' = [conn EXCEPT ![c] = label] /\ (label = "checked" => u # NoOne)
  BY DEF PassUntracked, Reject, Admit
<1>3. owner[c] # NoOne
  BY <1>1 DEF IInv, CInv, OwnersKnown
<1>4. /\ u \in {o, NoOne, Index} /\ (u \in {NoOne, Index} => Slotted /\ users[id] = Zeroed)
  BY <1>1, <1>3 DEF IInv, CInv, Named
<1>5. /\ o \in Names /\ id \in Nat \cup Names /\ Fits(id, o) /\ u \in Names \cup {NoOne, Index}
      /\ ident' = [ident EXCEPT ![c] = id] /\ owner' = [owner EXCEPT ![c] = o]
      /\ user' = [user EXCEPT ![c] = u]
  BY <1>1, <1>3, OwnerFacts DEF IInv
<1>6. slipped' = slipped /\ slipped' \subseteq Conns
  BY <1>1 DEF IInv, CInv, TypeOK
<1>7. \A n \in Names : ~Has(n) /\ u = n => c \in slipped' \/ Pending(n)
  <2> SUFFICES ASSUME NEW n \in Names, ~Has(n), u = n PROVE c \in slipped' \/ Pending(n)
    OBVIOUS
  <2>1. Bound(c, n)
    BY <1>1 DEF Bound
  <2>2. \A m \in Mutators : c \notin taken[m]
    BY <1>1 DEF IInv, CInv, TakenIsOut
  <2> QED
    BY <1>6, <2>1, <2>2 DEF IInv, CInv, InFlight
<1> HIDE DEF id, o, u
<1>8. Moves(c, label, id, o, u)
  BY <1>1, <1>2, <1>4, <1>5, <1>6, <1>7 DEF Moves
<1> QED
  BY <1>8, MoveKeepsCInv

LEMMA TrackedKeepsCInv ==
  ASSUME IInv, NEW c \in Conns, TrackerAdd(c) \/ Returned(c)
  PROVE  CInv'
<1>1. UNCHANGED <<uvars, ident, owner, user, taken, slipped, spared>>
  BY DEF TrackerAdd, Returned
<1>2. UNCHANGED <<protocol, users, snap, service, mpc, mop, mset, tainted, dirty>>
  BY <1>1 DEF uvars
<1>3. PICK label \in {"added", "open"} :
        /\ conn[c] = IF label = "added" THEN "checked" ELSE "added"
        /\ conn' = [conn EXCEPT ![c] = label]
        /\ entries' = IF label = "added" THEN entries \cup {<<user[c], c>>} ELSE entries
  BY DEF TrackerAdd, Returned
<1>4. /\ conn' \in [Conns -> {"closed", "authed", "named", "checked", "added", "open", "untracked"}]
      /\ conn'[c] = label /\ \A d \in Conns : d # c => conn'[d] = conn[d]
  BY <1>3 DEF IInv, CInv, TypeOK
<1>5. user[c] \in Names \cup {Index} /\ owner[c] # NoOne
  BY <1>3 DEF IInv, CInv, TypeOK, AdmittedHasUser, OwnersKnown
<1>6. TypeOK'
  <2>1. entries' \subseteq (Names \cup {Index}) \X Conns
    BY <1>3, <1>5 DEF IInv, CInv, TypeOK
  <2> QED
    BY <1>1, <1>4, <2>1, ConnectionsKeepUInv DEF IInv, UInv, UTypes, CInv, TypeOK
<1>7. IdentFits' /\ OwnersKnown' /\ AdmittedHasUser'
  <2>1. user[c] # NoOne
    BY <1>3 DEF IInv, CInv, AdmittedHasUser
  <2>2. IdentFits'
    BY <1>1, <1>2 DEF IInv, CInv, IdentFits, Fits, Slotted, Traits
  <2> QED
    BY <1>1, <1>4, <1>5, <2>1, <2>2 DEF IInv, CInv, OwnersKnown, AdmittedHasUser
<1>8. Named'
  BY <1>1, <1>2, <1>3, <1>4 DEF IInv, CInv, Named, Slotted, Traits
<1>9. TrackerExact' /\ TakenIsOut'
  <2>1. CASE label = "added"
    <3>1. conn[c] = "checked" /\ entries' = entries \cup {<<user[c], c>>}
      BY <1>3, <2>1
    <3>2. TrackerExact'
      BY <1>1, <1>4, <2>1, <3>1 DEF IInv, CInv, TrackerExact
    <3>3. TakenIsOut'
      <4>1. \A m \in Mutators : c \notin taken[m]
        BY <3>1 DEF IInv, CInv, TakenIsOut
      <4>2. \A e : e \in entries' <=> e \in entries \/ e = <<user[c], c>>
        BY <3>1
      <4>3. \A m \in Mutators : \A d \in taken[m] : d \in Conns /\ d # c
        BY <4>1 DEF IInv, CInv, TypeOK
      <4> QED
        BY <1>1, <1>4, <4>2, <4>3 DEF IInv, CInv, TakenIsOut
    <3> QED
      BY <3>2, <3>3
  <2>2. CASE label = "open"
    <3>1. conn[c] = "added" /\ entries' = entries
      BY <1>3, <2>2
    <3>2. \A m \in Mutators : taken[m] \subseteq Conns
      BY DEF IInv, CInv, TypeOK
    <3> QED
      BY <1>1, <1>4, <2>2, <3>1, <3>2 DEF IInv, CInv, TrackerExact, TakenIsOut
  <2> QED
    BY <2>1, <2>2
<1>10. InFlight'
  <2> SUFFICES ASSUME NEW d \in Conns, NEW n \in Names, Bound(d, n)', ~Has(n)
               PROVE  d \in slipped \/ (\E m \in Mutators : d \in taken[m]) \/ Pending(n)
    BY <1>1, <1>2 DEF InFlight, Has, SlotsOf, Pending
  <2>1. Bound(d, n)
    BY <1>1, <1>2, <1>3, <1>4 DEF Bound, Slotted, Traits
  <2> QED
    BY <2>1 DEF IInv, CInv, InFlight
<1>11. ListServesKnown'
  BY <1>1, ServedUnchanged DEF IInv, CInv
<1> QED
  BY <1>6, <1>7, <1>8, <1>9, <1>10, <1>11 DEF CInv

LEMMA EndKeepsCInv ==
  ASSUME IInv, NEW c \in Conns, End(c)
  PROVE  CInv'
<1>1. /\ conn[c] \in {"open", "untracked"} /\ conn' = [conn EXCEPT ![c] = "closed"]
      /\ entries' = entries \ {<<user[c], c>>}
      /\ taken' = [m \in Mutators |-> taken[m] \ {c}]
      /\ UNCHANGED <<uvars, ident, owner, user, slipped, spared>>
  BY DEF End
<1>2. UNCHANGED <<protocol, users, snap, service, mpc, mop, mset, tainted, dirty>>
  BY <1>1 DEF uvars
<1>3. /\ conn' \in [Conns -> {"closed", "authed", "named", "checked", "added", "open", "untracked"}]
      /\ conn'[c] = "closed" /\ \A d \in Conns : d # c => conn'[d] = conn[d]
  BY <1>1 DEF IInv, CInv, TypeOK
<1>4. /\ taken' \in [Mutators -> SUBSET Conns]
      /\ \A m \in Mutators : \A d : d \in taken'[m] <=> d \in taken[m] /\ d # c
  BY <1>1 DEF IInv, CInv, TypeOK
<1>5. \A e \in entries' : e \in entries /\ e[2] # c
  <2> SUFFICES ASSUME NEW e \in entries, e[2] = c PROVE e = <<user[c], c>>
    BY <1>1
  <2>1. e = <<e[1], e[2]>>
    BY DEF IInv, CInv, TypeOK
  <2>2. e[1] = user[c]
    BY DEF IInv, CInv, TrackerExact
  <2> QED
    BY <2>1, <2>2
<1>6. \A e \in entries : e[2] # c => e \in entries'
  BY <1>1
<1>7. TypeOK'
  BY <1>1, <1>3, <1>4, ConnectionsKeepUInv DEF IInv, UInv, UTypes, CInv, TypeOK
<1>8. IdentFits' /\ OwnersKnown' /\ AdmittedHasUser'
  BY <1>1, <1>2, <1>3 DEF IInv, CInv, IdentFits, Fits, Slotted, Traits, OwnersKnown, AdmittedHasUser
<1>9. Named'
  BY <1>1, <1>2, <1>3 DEF IInv, CInv, Named, Slotted, Traits
<1>10. TrackerExact'
  BY <1>1, <1>3, <1>4, <1>5, <1>6 DEF IInv, CInv, TrackerExact
<1>11. TakenIsOut'
  <2>1. \A m \in Mutators : \A d \in taken'[m] : d \in taken[m] /\ d \in Conns /\ d # c
    BY <1>4 DEF IInv, CInv, TypeOK
  <2> QED
    BY <1>3, <1>5, <2>1 DEF IInv, CInv, TakenIsOut
<1>12. InFlight'
  <2> SUFFICES ASSUME NEW d \in Conns, NEW n \in Names, Bound(d, n)', ~Has(n)
               PROVE  d \in slipped \/ (\E m \in Mutators : d \in taken'[m]) \/ Pending(n)
    BY <1>1, <1>2 DEF InFlight, Has, SlotsOf, Pending
  <2>1. d # c /\ Bound(d, n)
    BY <1>1, <1>2, <1>3 DEF Bound, Slotted, Traits
  <2> QED
    BY <1>4, <2>1 DEF IInv, CInv, InFlight
<1>13. ListServesKnown'
  BY <1>1, ServedUnchanged DEF IInv, CInv
<1> QED
  BY <1>7, <1>8, <1>9, <1>10, <1>11, <1>12, <1>13 DEF CInv

LEMMA ConnStepKeepsIInv ==
  ASSUME IInv, NEW c \in Conns, ConnStep(c)
  PROVE  IInv'
<1>1. UNCHANGED uvars
  BY DEF ConnStep, Authenticate, NextStream, Resolve, PassUntracked, Reject, Admit,
         TrackerAdd, Returned, End
<1>2. UInv'
  BY <1>1, ConnectionsKeepUInv DEF IInv
<1>3. CInv'
  BY AuthenticateKeepsCInv, NextStreamKeepsCInv, ResolveKeepsCInv, VerdictKeepsCInv,
     TrackedKeepsCInv, EndKeepsCInv DEF ConnStep
<1> QED
  BY <1>2, <1>3 DEF IInv
-----------------------------------------------------------------------------
(***************************************************************************)
(* The theorems                                                            *)
(***************************************************************************)
\* The invariant holds in every reachable state.
THEOREM Inductive == Spec => []IInv
<1>1. Init => IInv
  BY InitUInv, InitCInv DEF IInv
<1>2. IInv /\ [Next]_vars => IInv'
  <2> SUFFICES ASSUME IInv, [Next]_vars PROVE IInv'
    OBVIOUS
  <2>1. CASE Next
    BY <2>1, ConnStepKeepsIInv, MutatorStepKeepsIInv DEF Next
  <2>2. CASE UNCHANGED vars
    <3>1. UNCHANGED uvars /\ UNCHANGED <<protocol, users, mop>>
          /\ UNCHANGED <<conn, ident, owner, user, entries, taken, slipped, spared>>
      BY <2>2 DEF vars, uvars, cvars
    <3>2. UInv'
      BY <3>1, ConnectionsKeepUInv DEF IInv
    <3>3. ListServesKnown' /\ (\A n \in Names : Pending(n) => Pending(n)') /\ spared' \subseteq Names
      BY <3>1, ServedUnchanged DEF IInv, CInv, TypeOK, Pending
    <3> QED
      BY <3>1, <3>2, <3>3, SyncKeepsCInv DEF IInv
  <2> QED
    BY <2>1, <2>2
<1> QED
  BY <1>1, <1>2, PTL DEF Spec

\* Every variable keeps its type.
THEOREM TypeCorrect == Spec => []TypeOK
<1>1. IInv => TypeOK
  BY DEF IInv, CInv
<1> QED
  BY <1>1, Inductive, PTL

\* Once every call of AddUsers and DelUsers has returned, the protocol service
\* accepts exactly the users in the table, unless the last calls to push had
\* overlapped or the service refused the last set; a call that runs alone and
\* succeeds repairs what either left behind.
THEOREM ServiceFollowsTable == Spec => []ServiceAgreesAlone
<1>1. IInv => ServiceAgreesAlone
  BY DEF IInv, UInv, UTypes, UTypeOK, Alone, ListInSync, ServiceAgreesAlone, ServiceAgrees, Syncing
<1> QED
  BY <1>1, Inductive, PTL

\* A connection's name is that of the user whose credential it presented, or
\* it has none because the user's slot was zeroed: no connection is counted or
\* limited as somebody else's.
THEOREM NamesAreOwners == Spec => []NamedAfterOwner
<1>1. ASSUME IInv, NEW c \in Conns, Resolved(c)
      PROVE  /\ user[c] \in {owner[c], NoOne, Index}
             /\ user[c] \in {NoOne, Index} => Slotted /\ users[ident[c]] = Zeroed
  BY <1>1 DEF IInv, CInv, Named, OwnersKnown, Resolved
<1>2. IInv => NamedAfterOwner
  BY <1>1 DEF NamedAfterOwner, NeverMisattributed, ActiveUsersAreNamed
<1> QED
  BY <1>2, Inductive, PTL

\* The tracker holds exactly the connections a removal can still have to
\* close, and once the removal has returned without an error only those of the
\* user are open that were past authentication but not tracked when it took the
\* user's.  A removal that failed closes nothing, and is excepted by name.
THEOREM RemovalsClose == Spec => []RemovalCloses
<1>1. ASSUME IInv, NEW c \in Conns, conn[c] = "open", user[c] \in Names, ~Has(user[c])
      PROVE  \/ c \in slipped
             \/ \E m \in Mutators : c \in taken[m]
             \/ \E m \in Mutators : mop[m].op = "del" /\ user[c] \in mop[m].names
             \/ user[c] \in spared
  <2>1. Bound(c, user[c])
    BY <1>1 DEF Bound
  <2> QED
    BY <1>1, <2>1 DEF IInv, CInv, InFlight, Pending
<1>2. IInv => RemovalCloses
  BY <1>1 DEF RemovalCloses, SurvivorsWereInFlight, IInv, CInv
<1> QED
  BY <1>2, Inductive, PTL

-----------------------------------------------------------------------------
(***************************************************************************)
(* Traffic (limiter/limiter.go, subscription/manager.go).                  *)
(*                                                                         *)
(* Sums.  A sum over a finite set is defined by a choice of elements; what *)
(* follows from it for every order is proved here by a smallest set for    *)
(* which it would be false.                                                *)
(***************************************************************************)
\* One step of the recursion that a sum is: an element split off, or nothing to add.
Pick(s) == CHOOSE x \in s : TRUE
Unfold(f, sum, s) == IF s = {} THEN 0 ELSE f[Pick(s)] + sum[s \ {Pick(s)}]
Sums(f, T, sum) == sum = [s \in SUBSET T |-> Unfold(f, sum, s)]

\* An element chosen is an element.
LEMMA PickIn == \A s : s # {} => Pick(s) \in s
BY DEF Pick

\* A non-empty set of subsets of a finite set has a smallest one.
LEMMA MinimalSubset ==
    ASSUME NEW S, IsFiniteSet(S), NEW B, B \subseteq SUBSET S, B # {}
    PROVE  \E b \in B : \A c \in B : c \subseteq b => c = b
<1>1. IsWellFoundedOn(StrictSubsetOrdering(S), SUBSET S)
    BY FS_StrictSubsetOrderingWellFounded, FS_FiniteSubsetsOfFinite
<1>2. PICK b \in B : \A c \in B : ~(<<c, b>> \in StrictSubsetOrdering(S))
    BY <1>1, WFMin
<1>3. \A c \in B : c \subseteq b => c = b
    BY <1>2 DEF StrictSubsetOrdering
<1> QED BY <1>3

\* Two such recursions agree where both are defined.
LEMMA SumsAgree ==
    ASSUME NEW f, NEW T, NEW U, NEW sumT, NEW sumU, IsFiniteSet(T),
           Sums(f, T, sumT), Sums(f, U, sumU)
    PROVE  \A s \in SUBSET T : s \subseteq U => sumT[s] = sumU[s]
<1> DEFINE B == {s \in SUBSET T : s \subseteq U /\ sumT[s] # sumU[s]}
<1>1. SUFFICES ASSUME B # {} PROVE FALSE
    OBVIOUS
<1>2. PICK b \in B : \A c \in B : c \subseteq b => c = b
    <2>1. B \subseteq SUBSET T
        OBVIOUS
    <2> HIDE DEF B
    <2> QED BY <1>1, <2>1, MinimalSubset
<1>3. sumT[b] = Unfold(f, sumT, b) /\ sumU[b] = Unfold(f, sumU, b)
    BY DEF Sums
<1>4. b # {}
    BY <1>3 DEF Unfold
<1> DEFINE c == b \ {Pick(b)}
<1>5. c \in SUBSET T /\ c \subseteq U /\ c \subseteq b /\ c # b
    BY <1>4, PickIn
<1>6. sumT[c] = sumU[c]
    BY <1>2, <1>5
<1> QED BY <1>3, <1>6 DEF Unfold

\* There is one on the subsets of a finite set: a smallest set without one would
\* have one, built from those of its proper subsets.
LEMMA SumsExist ==
    ASSUME NEW f, NEW S, IsFiniteSet(S)
    PROVE  \E sum : Sums(f, S, sum)
<1> DEFINE Bad == {s \in SUBSET S : ~ \E sum : Sums(f, s, sum)}
<1>1. SUFFICES ASSUME Bad # {} PROVE FALSE
    OBVIOUS
<1>2. PICK T \in Bad : \A c \in Bad : c \subseteq T => c = T
    <2>1. Bad \subseteq SUBSET S
        OBVIOUS
    <2> HIDE DEF Bad
    <2> QED BY <1>1, <2>1, MinimalSubset
<1> DEFINE of(s) == CHOOSE sum : Sums(f, s, sum)
<1>3. \A s \in SUBSET T : s # T => Sums(f, s, of(s))
    BY <1>2
<1>4. T \subseteq S /\ IsFiniteSet(T)
    BY FS_Subset
<1> DEFINE t == T \ {Pick(T)}
           g == [s \in SUBSET T |->
                   IF s # T THEN of(s)[s]
                   ELSE IF T = {} THEN 0 ELSE f[Pick(T)] + of(t)[t]]
<1> HIDE DEF of
<1>5. ASSUME NEW s \in SUBSET T PROVE g[s] = Unfold(f, g, s)
    <2>1. CASE s = {}
        <3>1. CASE T = {}
            BY <3>1, <2>1 DEF Unfold
        <3>2. CASE T # {}
            <4>1. Sums(f, s, of(s))
                BY <3>2, <2>1, <1>3
            <4>2. of(s)[s] = 0
                BY <4>1, <2>1 DEF Sums, Unfold
            <4> QED BY <4>2, <3>2, <2>1 DEF Unfold
        <3> QED BY <3>1, <3>2
    <2>2. CASE s # {}
        <3> DEFINE r == s \ {Pick(s)}
        <3>1. r \in SUBSET s /\ r \in SUBSET T /\ r # s /\ r # T
            BY <2>2, PickIn
        <3>2. g[r] = of(r)[r]
            BY <3>1
        <3>3. CASE s = T
            BY <3>2, <3>3, <2>2 DEF Unfold
        <3>4. CASE s # T
            <4>1. Sums(f, s, of(s)) /\ Sums(f, r, of(r))
                BY <3>1, <3>4, <1>3
            <4>2. of(s)[s] = f[Pick(s)] + of(s)[r]
                BY <4>1, <2>2 DEF Sums, Unfold
            <4>3. IsFiniteSet(s)
                BY <1>4, FS_Subset
            <4>4. of(s)[r] = of(r)[r]
                BY <4>1, <4>3, <3>1, SumsAgree
            <4>5. g[s] = of(s)[s]
                BY <3>4
            <4> QED BY <4>2, <4>4, <4>5, <3>2, <2>2 DEF Unfold
        <3> QED BY <3>3, <3>4
    <2> QED BY <2>1, <2>2
<1>6. g = [s \in SUBSET T |-> Unfold(f, g, s)]
    <2> DEFINE h == [s \in SUBSET T |-> Unfold(f, g, s)]
    <2>1. DOMAIN g = SUBSET T
        OBVIOUS
    <2>2. g = [s \in DOMAIN g |-> g[s]]
        OBVIOUS
    <2> HIDE DEF g
    <2> QED BY <2>1, <2>2, <1>5
<1>7. Sums(f, T, g)
    BY <1>6 DEF Sums
<1> QED BY <1>7

\* The library's sum is such a recursion.
LEMMA SumUnfolds ==
    ASSUME NEW f, NEW S, IsFiniteSet(S)
    PROVE  \E sum : Sums(f, S, sum) /\ SumFunctionOnSet(f, S) = sum[S]
<1> DEFINE sum == CHOOSE sum : Sums(f, S, sum)
<1>1. Sums(f, S, sum)
    BY SumsExist
<1>2. SumFunctionOnSet(f, S) = sum[S]
    BY DEF SumFunctionOnSet, FoldFunctionOnSet, MapThenFoldSet, Sums, Unfold, Pick
<1> QED BY <1>1, <1>2

\* Nothing sums up to zero.
LEMMA SumEmpty == \A f : SumFunctionOnSet(f, {}) = 0
<1>1. ASSUME NEW f PROVE SumFunctionOnSet(f, {}) = 0
    <2>1. PICK sum : Sums(f, {}, sum) /\ SumFunctionOnSet(f, {}) = sum[{}]
        BY SumUnfolds, FS_EmptySet
    <2> QED BY <2>1 DEF Sums, Unfold
<1> QED BY <1>1

\* The library's choice of an element, and that the rest is summed the same way.
LEMMA SumPick ==
    ASSUME NEW f, NEW S, IsFiniteSet(S), S # {}
    PROVE  SumFunctionOnSet(f, S) = f[Pick(S)] + SumFunctionOnSet(f, S \ {Pick(S)})
<1> DEFINE R == S \ {Pick(S)}
<1>1. R \subseteq S /\ IsFiniteSet(R)
    BY FS_Subset
<1>2. PICK sum : Sums(f, S, sum) /\ SumFunctionOnSet(f, S) = sum[S]
    BY SumUnfolds
<1>3. PICK rest : Sums(f, R, rest) /\ SumFunctionOnSet(f, R) = rest[R]
    BY <1>1, SumUnfolds
<1>4. rest[R] = sum[R]
    BY <1>1, <1>2, <1>3, SumsAgree
<1>5. sum[S] = f[Pick(S)] + sum[R]
    BY <1>2 DEF Sums, Unfold
<1> QED BY <1>2, <1>3, <1>4, <1>5

\* A sum of integers is an integer, and any element may be split off.
SplitsOff(f, s) ==
    /\ SumFunctionOnSet(f, s) \in Int
    /\ \A x \in s : SumFunctionOnSet(f, s) = f[x] + SumFunctionOnSet(f, s \ {x})

LEMMA SumSplitsOff ==
    ASSUME NEW S, IsFiniteSet(S), NEW f, \A x \in S : f[x] \in Int
    PROVE  SplitsOff(f, S)
<1> DEFINE Bad == {s \in SUBSET S : ~SplitsOff(f, s)}
<1>1. SUFFICES ASSUME Bad # {} PROVE FALSE
    OBVIOUS
<1>2. PICK T \in Bad : \A c \in Bad : c \subseteq T => c = T
    <2>1. Bad \subseteq SUBSET S
        OBVIOUS
    <2> HIDE DEF Bad
    <2> QED BY <1>1, <2>1, MinimalSubset
<1>3. \A s \in SUBSET T : s # T => SplitsOff(f, s)
    BY <1>2
<1>4. T \subseteq S /\ IsFiniteSet(T) /\ ~SplitsOff(f, T)
    BY FS_Subset
<1> HIDE DEF Bad
<1>5. CASE T = {}
    BY <1>4, <1>5, SumEmpty DEF SplitsOff
<1>6. CASE T # {}
    <2> DEFINE p == Pick(T)
               R == T \ {p}
    <2>1. p \in T /\ R \in SUBSET T /\ R # T /\ f[p] \in Int
        BY <1>4, <1>6, PickIn
    <2>2. SumFunctionOnSet(f, T) = f[p] + SumFunctionOnSet(f, R)
        BY <1>4, <1>6, SumPick
    <2>3. SplitsOff(f, R)
        BY <2>1, <1>3
    <2>4. SumFunctionOnSet(f, T) \in Int
        BY <2>1, <2>2, <2>3 DEF SplitsOff
    <2>5. ASSUME NEW x \in T PROVE SumFunctionOnSet(f, T) = f[x] + SumFunctionOnSet(f, T \ {x})
        <3>1. CASE x = p
            BY <2>2, <3>1
        <3>2. CASE x # p
            <4> DEFINE Both == T \ {x, p}
            <4>1. x \in R /\ R \ {x} = Both
                BY <3>2
            <4>2. SumFunctionOnSet(f, R) = f[x] + SumFunctionOnSet(f, Both)
                BY <4>1, <2>3 DEF SplitsOff
            <4>3. T \ {x} \in SUBSET T /\ T \ {x} # T /\ p \in T \ {x} /\ (T \ {x}) \ {p} = Both
                BY <2>1, <3>2
            <4>4. SplitsOff(f, T \ {x})
                BY <4>3, <1>3
            <4>5. SumFunctionOnSet(f, T \ {x}) = f[p] + SumFunctionOnSet(f, Both)
                BY <4>3, <4>4 DEF SplitsOff
            <4>6. Both \in SUBSET T /\ Both # T
                BY <2>1
            <4>7. SumFunctionOnSet(f, Both) \in Int
                BY <4>6, <1>3 DEF SplitsOff
            <4>8. f[x] \in Int
                BY <1>4
            <4> HIDE DEF Both, p, R
            <4> QED BY <2>1, <2>2, <4>2, <4>5, <4>7, <4>8
        <3> QED BY <3>1, <3>2
    <2> QED BY <2>4, <2>5, <1>4 DEF SplitsOff
<1> QED BY <1>5, <1>6

\* Two functions that agree on a set have one sum over it.
LEMMA SumAgrees ==
    ASSUME NEW S, IsFiniteSet(S), NEW f, NEW g, \A x \in S : f[x] = g[x]
    PROVE  SumFunctionOnSet(f, S) = SumFunctionOnSet(g, S)
<1> DEFINE Bad == {s \in SUBSET S : SumFunctionOnSet(f, s) # SumFunctionOnSet(g, s)}
<1>1. SUFFICES ASSUME Bad # {} PROVE FALSE
    OBVIOUS
<1>2. PICK T \in Bad : \A c \in Bad : c \subseteq T => c = T
    <2>1. Bad \subseteq SUBSET S
        OBVIOUS
    <2> HIDE DEF Bad
    <2> QED BY <1>1, <2>1, MinimalSubset
<1>3. T \subseteq S /\ IsFiniteSet(T)
    BY FS_Subset
<1>4. T # {}
    BY SumEmpty
<1> DEFINE R == T \ {Pick(T)}
<1>5. R \in SUBSET S /\ R \subseteq T /\ R # T /\ Pick(T) \in S
    BY <1>3, <1>4, PickIn
<1>6. SumFunctionOnSet(f, R) = SumFunctionOnSet(g, R)
    BY <1>2, <1>5
<1>7. SumFunctionOnSet(f, T) = SumFunctionOnSet(g, T)
    BY <1>3, <1>4, <1>5, <1>6, SumPick
<1> QED BY <1>7

\* A change of one summand changes the sum by as much.
LEMMA SumChanges ==
    ASSUME NEW S, IsFiniteSet(S), NEW f \in [S -> Int], NEW g \in [S -> Int], NEW x \in S,
           \A y \in S \ {x} : g[y] = f[y]
    PROVE  SumFunctionOnSet(g, S) = SumFunctionOnSet(f, S) + g[x] - f[x]
<1> DEFINE R == S \ {x}
<1>1. IsFiniteSet(R) /\ R \subseteq S
    BY FS_Subset
<1>2. SumFunctionOnSet(g, R) = SumFunctionOnSet(f, R)
    BY <1>1, SumAgrees
<1>3. SplitsOff(f, S) /\ SplitsOff(g, S) /\ SplitsOff(f, R)
    BY <1>1, SumSplitsOff
<1>4. /\ SumFunctionOnSet(g, S) = g[x] + SumFunctionOnSet(g, R)
      /\ SumFunctionOnSet(f, S) = f[x] + SumFunctionOnSet(f, R)
      /\ SumFunctionOnSet(f, R) \in Int
    BY <1>3 DEF SplitsOff
<1>5. f[x] \in Int /\ g[x] \in Int
    OBVIOUS
<1> HIDE DEF R
<1> QED BY <1>2, <1>4, <1>5

\* A sum of naturals is no less than any of its summands.
LEMMA SumCovers ==
    ASSUME NEW S, IsFiniteSet(S), NEW f \in [S -> Int], \A x \in S : f[x] >= 0
    PROVE  /\ SumFunctionOnSet(f, S) >= 0
           /\ \A x \in S : SumFunctionOnSet(f, S) >= f[x]
<1> DEFINE Bad == {s \in SUBSET S : ~(SumFunctionOnSet(f, s) >= 0)}
<1>1. ASSUME NEW s \in SUBSET S PROVE SplitsOff(f, s)
    BY FS_Subset, SumSplitsOff
<1>2. Bad = {}
    <2>1. SUFFICES ASSUME Bad # {} PROVE FALSE
        OBVIOUS
    <2>2. PICK T \in Bad : \A c \in Bad : c \subseteq T => c = T
        <3>1. Bad \subseteq SUBSET S
            OBVIOUS
        <3> HIDE DEF Bad
        <3> QED BY <2>1, <3>1, MinimalSubset
    <2>3. T # {}
        BY SumEmpty
    <2>4. PICK x \in T : TRUE
        BY <2>3
    <2>5. T \ {x} \in SUBSET S /\ T \ {x} # T /\ T \ {x} \subseteq T
        OBVIOUS
    <2>6. SumFunctionOnSet(f, T \ {x}) >= 0
        BY <2>2, <2>5
    <2>7. SumFunctionOnSet(f, T) = f[x] + SumFunctionOnSet(f, T \ {x})
        BY <1>1 DEF SplitsOff
    <2>8. SumFunctionOnSet(f, T \ {x}) \in Int /\ f[x] \in Int /\ f[x] >= 0
        BY <1>1, <2>5 DEF SplitsOff
    <2>9. SumFunctionOnSet(f, T) >= 0
        BY <2>6, <2>7, <2>8
    <2> QED BY <2>9
<1>3. ASSUME NEW x \in S PROVE SumFunctionOnSet(f, S) >= f[x]
    <2>1. SumFunctionOnSet(f, S) = f[x] + SumFunctionOnSet(f, S \ {x})
        BY <1>1 DEF SplitsOff
    <2>2. SumFunctionOnSet(f, S \ {x}) \in Int /\ f[x] \in Int
        BY <1>1 DEF SplitsOff
    <2>3. SumFunctionOnSet(f, S \ {x}) >= 0
        BY <1>2
    <2> QED BY <2>1, <2>2, <2>3
<1> QED BY <1>2, <1>3

\* Zeros sum up to zero.
LEMMA SumOfZeros ==
    ASSUME NEW S, IsFiniteSet(S), NEW f, \A x \in S : f[x] = 0
    PROVE  SumFunctionOnSet(f, S) = 0
<1> DEFINE Bad == {s \in SUBSET S : SumFunctionOnSet(f, s) # 0}
<1>1. SUFFICES ASSUME Bad # {} PROVE FALSE
    OBVIOUS
<1>2. PICK T \in Bad : \A c \in Bad : c \subseteq T => c = T
    <2>1. Bad \subseteq SUBSET S
        OBVIOUS
    <2> HIDE DEF Bad
    <2> QED BY <1>1, <2>1, MinimalSubset
<1>3. T # {} /\ IsFiniteSet(T)
    BY SumEmpty, FS_Subset
<1> DEFINE R == T \ {Pick(T)}
<1>4. R \in SUBSET S /\ R \subseteq T /\ R # T /\ f[Pick(T)] = 0
    BY <1>3, PickIn
<1>5. SumFunctionOnSet(f, R) = 0
    BY <1>2, <1>4
<1>6. SumFunctionOnSet(f, T) = 0
    BY <1>3, <1>4, <1>5, SumPick
<1> QED BY <1>6

-----------------------------------------------------------------------------
(***************************************************************************)
(* The inductive invariant.  That the books balance needs no more than     *)
(* the types and where a monitor may have which records (Stages); that     *)
(* nobody is overbilled needs that what a lone monitor has delivered and   *)
(* not subtracted is still in the counter it was read from (Covered).      *)
(***************************************************************************)
\* Which lists of records a monitor may have, where it is.
Stages ==
    \A m \in Monitors :
        /\ pc[m] \in {"idle", "drain"} =>
             todo[m] = {} /\ batch[m] = {} /\ undelivered[m] = {}
        /\ pc[m] = "chunk" => batch[m] = {}
        /\ pc[m] \in {"http", "resetAll"} => todo[m] = {} /\ batch[m] = {}

\* The users whose amounts a monitor has read and not yet dealt with.
Outstanding(m) == IF pc[m] = "drain" THEN Users ELSE todo[m] \cup batch[m] \cup undelivered[m]

\* Such an amount is still in the counter it was read from.
Covered ==
    \A m \in Monitors : \A u \in Outstanding(m) :
        0 <= amount[m][u] /\ amount[m][u] <= counter[tc[m]][u]

\* At most one monitor is at work.
Solitary == \A m, o \in Monitors : m = o \/ pc[m] = "idle" \/ pc[o] = "idle"

\* The counters are, and the bytes a push lost were, really carried.
NothingNegative ==
    /\ \A g \in Gens, u \in Users : counter[g][u] >= 0
    /\ \A u \in Users : lost[u] >= 0

\* While monitors have always taken turns, the three hold.
OneAtWork == ~overlapped => Solitary /\ NothingNegative /\ Covered

\* The types the type invariant leaves out.
Ledgers ==
    /\ panel \in [Users -> Int] /\ carried \in [Users -> Int]
    /\ lost \in [Users -> Int] /\ twice \in [Users -> Int]

Holdings ==
    /\ todo \in [Monitors -> SUBSET Users]
    /\ batch \in [Monitors -> SUBSET Users]
    /\ undelivered \in [Monitors -> SUBSET Users]

Bounds == churn \in 0..MaxChurn /\ gen <= churn /\ overlapped \in BOOLEAN

Typed == TrafficTypeOK /\ Ledgers /\ Holdings /\ Bounds

TrafficInv == Typed /\ Stages /\ Conserved /\ OneAtWork

\* There are finitely many tags.
LEMMA GensFinite == IsFiniteSet(Gens) /\ \A g \in Gens : g \in Int
BY BoundAssumption, FS_Interval DEF Gens

\* The tags the node has had are among those there are.
TagsKnown == (0..gen) \subseteq Gens /\ gen \in Int /\ \A m \in Monitors : tc[m] \in Gens

LEMMA TagsSoFar == Typed => TagsKnown
BY BoundAssumption DEF Typed, TrafficTypeOK, Gens, TagsKnown

\* A sum over a function is one over its domain.
LEMMA SumAll == \A f : SumFunction(f) = SumFunctionOnSet(f, DOMAIN f)
BY DEF SumFunction

\* What a monitor owes is a number.
OwedAreInts == \A m \in Monitors, u \in Users : Owed(m, u) \in Int

LEMMA OwedType == Typed => OwedAreInts
BY DEF Typed, TrafficTypeOK, Owed, OwedAreInts

\* The two sums of the books move as their one changed summand.
LEMMA UnresetMoves ==
    ASSUME Typed, Typed', NEW m \in Monitors, NEW u \in Users,
           \A o \in Monitors \ {m} : Owed(o, u)' = Owed(o, u)
    PROVE  /\ Unreset(u) \in Int
           /\ Unreset(u)' = Unreset(u) + Owed(m, u)' - Owed(m, u)
<1> DEFINE f == [o \in Monitors |-> Owed(o, u)]
           g == [o \in Monitors |-> Owed(o, u)']
<1>1. \A o \in Monitors : Owed(o, u) \in Int /\ Owed(o, u)' \in Int
    <2>1. OwedAreInts /\ OwedAreInts'
        BY OwedType, PTL
    <2> QED BY <2>1 DEF OwedAreInts
<1>2. f \in [Monitors -> Int] /\ g \in [Monitors -> Int] /\ DOMAIN f = Monitors /\ DOMAIN g = Monitors
    BY <1>1
<1>3. \A o \in Monitors \ {m} : g[o] = f[o]
    OBVIOUS
<1>4. f[m] = Owed(m, u) /\ g[m] = Owed(m, u)'
    OBVIOUS
<1>5. Unreset(u) = SumFunctionOnSet(f, Monitors) /\ Unreset(u)' = SumFunctionOnSet(g, Monitors)
    BY <1>2, SumAll DEF Unreset
<1> HIDE DEF f, g
<1>6. SumFunctionOnSet(g, Monitors) = SumFunctionOnSet(f, Monitors) + g[m] - f[m]
    BY <1>2, <1>3, MonitorsAssumption, SumChanges
<1>7. SumFunctionOnSet(f, Monitors) \in Int
    BY <1>2, MonitorsAssumption, SumSplitsOff DEF SplitsOff
<1> QED BY <1>4, <1>5, <1>6, <1>7

LEMMA CountedMoves ==
    ASSUME Typed, Typed', NEW g \in Gens, NEW u \in Users,
           \A h \in Gens \ {g} : counter'[h][u] = counter[h][u]
    PROVE  /\ Counted(u) \in Int
           /\ Counted(u)' = Counted(u) + counter'[g][u] - counter[g][u]
<1> DEFINE e == [h \in Gens |-> counter[h][u]]
           f == [h \in Gens |-> counter'[h][u]]
<1>2. e \in [Gens -> Int] /\ f \in [Gens -> Int] /\ DOMAIN e = Gens /\ DOMAIN f = Gens
    BY DEF Typed, TrafficTypeOK
<1>3. \A h \in Gens \ {g} : f[h] = e[h]
    OBVIOUS
<1>4. e[g] = counter[g][u] /\ f[g] = counter'[g][u]
    OBVIOUS
<1>5. Counted(u) = SumFunctionOnSet(e, Gens) /\ Counted(u)' = SumFunctionOnSet(f, Gens)
    BY <1>2, SumAll DEF Counted
<1> HIDE DEF e, f
<1>6. SumFunctionOnSet(f, Gens) = SumFunctionOnSet(e, Gens) + f[g] - e[g]
    BY <1>2, <1>3, GensFinite, SumChanges
<1>7. SumFunctionOnSet(e, Gens) \in Int
    BY <1>2, GensFinite, SumSplitsOff DEF SplitsOff
<1> QED BY <1>4, <1>5, <1>6, <1>7

\* What a step adds to one side of the books, it adds to the other.
Balanced(m, g, u) ==
    (carried'[u] - carried[u]) + (twice'[u] - twice[u])
        = (panel'[u] - panel[u]) + (lost'[u] - lost[u])
          + (counter'[g][u] - counter[g][u]) - (Owed(m, u)' - Owed(m, u))

\* Then the books still balance.
LEMMA BooksBalance ==
    ASSUME Typed, Typed', Conserved, NEW m \in Monitors, NEW g \in Gens,
           \A o \in Monitors \ {m}, u \in Users : Owed(o, u)' = Owed(o, u),
           \A h \in Gens \ {g}, u \in Users : counter'[h][u] = counter[h][u],
           \A u \in Users : Balanced(m, g, u)
    PROVE  Conserved'
<1> SUFFICES ASSUME NEW u \in Users
             PROVE  carried'[u] + twice'[u]
                       = panel'[u] + lost'[u] + Counted(u)' - Unreset(u)'
    BY DEF Conserved
<1>1. /\ Unreset(u) \in Int
      /\ Unreset(u)' = Unreset(u) + Owed(m, u)' - Owed(m, u)
    BY UnresetMoves
<1>2. /\ Counted(u) \in Int
      /\ Counted(u)' = Counted(u) + counter'[g][u] - counter[g][u]
    BY CountedMoves
<1>3. Owed(m, u) \in Int /\ Owed(m, u)' \in Int
    <2>1. OwedAreInts /\ OwedAreInts'
        BY OwedType, PTL
    <2> QED BY <2>1 DEF OwedAreInts
<1>4. carried[u] \in Int /\ twice[u] \in Int /\ panel[u] \in Int /\ lost[u] \in Int
    BY DEF Typed, Ledgers
<1>5. carried'[u] \in Int /\ twice'[u] \in Int /\ panel'[u] \in Int /\ lost'[u] \in Int
    BY DEF Typed, Ledgers
<1>6. counter[g][u] \in Int /\ counter'[g][u] \in Int
    BY DEF Typed, TrafficTypeOK
<1>7. carried[u] + twice[u] = panel[u] + lost[u] + Counted(u) - Unreset(u)
    BY DEF Conserved
<1>8. (carried'[u] - carried[u]) + (twice'[u] - twice[u])
         = (panel'[u] - panel[u]) + (lost'[u] - lost[u])
           + (counter'[g][u] - counter[g][u]) - (Owed(m, u)' - Owed(m, u))
    BY DEF Balanced
<1> DEFINE n == Counted(u)
           n1 == Counted(u)'
           r == Unreset(u)
           r1 == Unreset(u)'
           o == Owed(m, u)
           o1 == Owed(m, u)'
           x == counter[g][u]
           x1 == counter'[g][u]
<1>9. n \in Int /\ r \in Int /\ o \in Int /\ o1 \in Int /\ x \in Int /\ x1 \in Int
    BY <1>1, <1>2, <1>3, <1>6
<1>10. n1 = n + x1 - x /\ r1 = r + o1 - o
    BY <1>1, <1>2
<1>11. carried[u] + twice[u] = panel[u] + lost[u] + n - r
    BY <1>7
<1>12. (carried'[u] - carried[u]) + (twice'[u] - twice[u])
          = (panel'[u] - panel[u]) + (lost'[u] - lost[u]) + (x1 - x) - (o1 - o)
    BY <1>8
<1> HIDE DEF n, n1, r, r1, o, o1, x, x1
<1>13. n1 - r1 = (n - r) + (x1 - x) - (o1 - o) /\ n1 \in Int /\ r1 \in Int
    BY <1>9, <1>10
<1>14. carried'[u] + twice'[u] = panel'[u] + lost'[u] + n1 - r1
    BY <1>4, <1>5, <1>9, <1>11, <1>12, <1>13
<1> QED BY <1>14 DEF n1, r1

\* Most steps write nothing in the books.
LEMMA BooksUntouched ==
    ASSUME Typed, Typed', Conserved,
           UNCHANGED <<counter, panel, carried, lost, twice>>,
           \A o \in Monitors, u \in Users : Owed(o, u)' = Owed(o, u)
    PROVE  Conserved'
<1>1. PICK m \in Monitors : TRUE
    BY DEF Typed, TrafficTypeOK
<1>2. PICK g \in Gens : TRUE
    BY DEF Typed, TrafficTypeOK
<1>3. ASSUME NEW u \in Users PROVE Balanced(m, g, u)
    <2>1. OwedAreInts
        BY OwedType
    <2>2. Owed(m, u) \in Int /\ Owed(m, u)' = Owed(m, u)
        BY <2>1 DEF OwedAreInts
    <2>3. counter[g][u] \in Int /\ carried[u] \in Int /\ twice[u] \in Int /\ panel[u] \in Int
          /\ lost[u] \in Int
        BY DEF Typed, TrafficTypeOK, Ledgers
    <2> QED BY <2>2, <2>3 DEF Balanced
<1> QED BY <1>3, BooksBalance

\* ResetTraffic takes from a user's counter what was read of it, and from no other.
LEMMA ResetSubtracts ==
    ASSUME Typed, TagsKnown, NEW m \in Monitors, NEW us, ResetTraffic(m, us)
    PROVE  /\ counter' \in [Gens -> [Users -> Int]]
           /\ \A u \in us \cap Users :
                counter'[tc[m]][u] = counter[tc[m]][u] - amount[m][u]
           /\ \A g \in Gens, u \in Users :
                g # tc[m] \/ u \notin us => counter'[g][u] = counter[g][u]
<1> DEFINE new == [u \in Users |-> counter[tc[m]][u] - IF u \in us THEN amount[m][u] ELSE 0]
<1>1. tc[m] \in Gens /\ counter \in [Gens -> [Users -> Int]]
    BY DEF Typed, TrafficTypeOK, TagsKnown
<1>2. \A u \in Users : counter[tc[m]][u] \in Int /\ amount[m][u] \in Int
    BY <1>1 DEF Typed, TrafficTypeOK
<1>3. counter' = [counter EXCEPT ![tc[m]] = new]
    BY DEF ResetTraffic
<1>4. new \in [Users -> Int]
    BY <1>2
<1>5. /\ \A u \in us \cap Users : new[u] = counter[tc[m]][u] - amount[m][u]
      /\ \A u \in Users \ us : new[u] = counter[tc[m]][u]
    BY <1>2
<1> HIDE DEF new
<1> QED BY <1>1, <1>3, <1>4, <1>5

-----------------------------------------------------------------------------
(***************************************************************************)
(* The steps.                                                              *)
(***************************************************************************)
\* The list of users is no part of the books.
LEMMA RelistKeeps ==
    ASSUME TrafficInv, NEW u \in Users, Relist(u)
    PROVE  TrafficInv'
<1> USE DEF TrafficInv
<1>0. TagsKnown
    BY TagsSoFar
<1>1. UNCHANGED <<counter, gen, current, pc, tc, visited, amount, todo, batch, undelivered, panel, faults, carried, lost, twice, overlapped>>
    BY DEF Relist, stateVars, monitorVars, historyVars
<1>2. Typed'
    <2>1. TrafficTypeOK'
        BY <1>0, <1>1, BoundAssumption DEF TagsKnown, Gens, Typed, TrafficTypeOK, Stages, Holdings, Bounds, Records, Zero, Goto, Relist
    <2>2. Ledgers'
        BY <1>1 DEF Typed, TrafficTypeOK, Ledgers, Plus, Relist
    <2>3. Holdings'
        BY <1>1 DEF Typed, TrafficTypeOK, Holdings, Records, Relist
    <2>4. Bounds'
        BY <1>0, <1>1, BoundAssumption DEF Typed, TagsKnown, Bounds, Relist
    <2> QED BY <2>1, <2>2, <2>3, <2>4 DEF Typed
<1>3. Stages'
    BY <1>1 DEF Typed, TrafficTypeOK, Holdings, Stages, Relist, Goto
<1>4. Conserved'
    <2>1. \A o \in Monitors, v \in Users : Owed(o, v)' = Owed(o, v)
        BY <1>1 DEF Typed, TrafficTypeOK, Holdings, Stages, Owed, Goto, Relist
    <2> QED BY <1>1, <1>2, <2>1, BooksUntouched
<1>5. OneAtWork'
    <2>1. SUFFICES ASSUME ~overlapped'
                   PROVE  Solitary' /\ NothingNegative' /\ Covered'
        BY DEF OneAtWork
    <2>2. ~overlapped /\ Solitary /\ NothingNegative /\ Covered
        BY <1>1, <2>1 DEF OneAtWork
    <2>3. Solitary'
        BY <1>1, <2>2 DEF Typed, TrafficTypeOK, Solitary, Goto, Relist
    <2>4. NothingNegative'
        BY <1>1, <2>2 DEF Typed, TrafficTypeOK, Ledgers, NothingNegative, Relist
    <2>5. Covered'
        BY <1>0, <1>1, <2>2 DEF TagsKnown, Typed, TrafficTypeOK, Ledgers, Holdings, Stages, Covered, Outstanding, NothingNegative, Records, Goto, Relist
    <2> QED BY <2>3, <2>4, <2>5
<1> QED BY <1>2, <1>3, <1>4, <1>5

\* A new tag starts with counters of its own.
LEMMA DeleteCounterKeeps ==
    ASSUME TrafficInv, DeleteCounter
    PROVE  TrafficInv'
<1> USE DEF TrafficInv
<1>0. TagsKnown
    BY TagsSoFar
<1>1. UNCHANGED <<counter, listed, current, pc, tc, visited, amount, todo, batch, undelivered, panel, faults, carried, lost, twice, overlapped>>
    BY DEF DeleteCounter, stateVars, monitorVars, historyVars
<1>2. Typed'
    <2>1. TrafficTypeOK'
        BY <1>0, <1>1, BoundAssumption DEF TagsKnown, Gens, Typed, TrafficTypeOK, Stages, Holdings, Bounds, Records, Zero, Goto, DeleteCounter
    <2>2. Ledgers'
        BY <1>1 DEF Typed, TrafficTypeOK, Ledgers, Plus, DeleteCounter
    <2>3. Holdings'
        BY <1>1 DEF Typed, TrafficTypeOK, Holdings, Records, DeleteCounter
    <2>4. Bounds'
        BY <1>0, <1>1, BoundAssumption DEF Typed, TagsKnown, Bounds, DeleteCounter
    <2> QED BY <2>1, <2>2, <2>3, <2>4 DEF Typed
<1>3. Stages'
    BY <1>1 DEF Typed, TrafficTypeOK, Holdings, Stages, DeleteCounter, Goto
<1>4. Conserved'
    <2>1. \A o \in Monitors, u \in Users : Owed(o, u)' = Owed(o, u)
        BY <1>1 DEF Typed, TrafficTypeOK, Holdings, Stages, Owed, Goto, DeleteCounter
    <2> QED BY <1>1, <1>2, <2>1, BooksUntouched
<1>5. OneAtWork'
    <2>1. SUFFICES ASSUME ~overlapped'
                   PROVE  Solitary' /\ NothingNegative' /\ Covered'
        BY DEF OneAtWork
    <2>2. ~overlapped /\ Solitary /\ NothingNegative /\ Covered
        BY <1>1, <2>1 DEF OneAtWork
    <2>3. Solitary'
        BY <1>1, <2>2 DEF Typed, TrafficTypeOK, Solitary, Goto, DeleteCounter
    <2>4. NothingNegative'
        BY <1>1, <2>2 DEF Typed, TrafficTypeOK, Ledgers, NothingNegative, DeleteCounter
    <2>5. Covered'
        BY <1>0, <1>1, <2>2 DEF TagsKnown, Typed, TrafficTypeOK, Ledgers, Holdings, Stages, Covered, Outstanding, NothingNegative, Records, Goto, DeleteCounter
    <2> QED BY <2>3, <2>4, <2>5
<1> QED BY <1>2, <1>3, <1>4, <1>5

\* The monitor of another generation is idle when it becomes current.
LEMMA RestartKeeps ==
    ASSUME TrafficInv, Restart
    PROVE  TrafficInv'
<1> USE DEF TrafficInv
<1>0. TagsKnown
    BY TagsSoFar
<1>1. UNCHANGED <<counter, gen, listed, pc, tc, visited, amount, todo, batch, undelivered, panel, faults, carried, lost, twice, overlapped>>
    BY DEF Restart, stateVars, monitorVars, historyVars
<1>2. Typed'
    <2>1. TrafficTypeOK'
        BY <1>0, <1>1, BoundAssumption DEF TagsKnown, Gens, Typed, TrafficTypeOK, Stages, Holdings, Bounds, Records, Zero, Goto, Restart
    <2>2. Ledgers'
        BY <1>1 DEF Typed, TrafficTypeOK, Ledgers, Plus, Restart
    <2>3. Holdings'
        BY <1>1 DEF Typed, TrafficTypeOK, Holdings, Records, Restart
    <2>4. Bounds'
        BY <1>0, <1>1, BoundAssumption DEF Typed, TagsKnown, Bounds, Restart
    <2> QED BY <2>1, <2>2, <2>3, <2>4 DEF Typed
<1>3. Stages'
    BY <1>1 DEF Typed, TrafficTypeOK, Holdings, Stages, Restart, Goto
<1>4. Conserved'
    <2>1. \A o \in Monitors, u \in Users : Owed(o, u)' = Owed(o, u)
        BY <1>1 DEF Typed, TrafficTypeOK, Holdings, Stages, Owed, Goto, Restart
    <2> QED BY <1>1, <1>2, <2>1, BooksUntouched
<1>5. OneAtWork'
    <2>1. SUFFICES ASSUME ~overlapped'
                   PROVE  Solitary' /\ NothingNegative' /\ Covered'
        BY DEF OneAtWork
    <2>2. ~overlapped /\ Solitary /\ NothingNegative /\ Covered
        BY <1>1, <2>1 DEF OneAtWork
    <2>3. Solitary'
        BY <1>1, <2>2 DEF Typed, TrafficTypeOK, Solitary, Goto, Restart
    <2>4. NothingNegative'
        BY <1>1, <2>2 DEF Typed, TrafficTypeOK, Ledgers, NothingNegative, Restart
    <2>5. Covered'
        BY <1>0, <1>1, <2>2 DEF TagsKnown, Typed, TrafficTypeOK, Ledgers, Holdings, Stages, Covered, Outstanding, NothingNegative, Records, Goto, Restart
    <2> QED BY <2>3, <2>4, <2>5
<1> QED BY <1>2, <1>3, <1>4, <1>5

\* A second monitor that begins makes overlapped true.
LEMMA BeginKeeps ==
    ASSUME TrafficInv, NEW m \in Monitors, Begin(m)
    PROVE  TrafficInv'
<1> USE DEF TrafficInv
<1>0. TagsKnown
    BY TagsSoFar
<1>1. UNCHANGED <<counter, gen, listed, current, todo, batch, undelivered, panel, faults, churn, carried, lost, twice>>
    BY DEF Begin, stateVars, monitorVars, historyVars
<1>2. Typed'
    <2>1. TrafficTypeOK'
        BY <1>0, <1>1, BoundAssumption DEF TagsKnown, Gens, Typed, TrafficTypeOK, Stages, Holdings, Bounds, Records, Zero, Goto, Begin
    <2>2. Ledgers'
        BY <1>1 DEF Typed, TrafficTypeOK, Ledgers, Plus, Begin
    <2>3. Holdings'
        BY <1>1 DEF Typed, TrafficTypeOK, Holdings, Records, Begin
    <2>4. Bounds'
        BY <1>0, <1>1, BoundAssumption DEF Typed, TagsKnown, Bounds, Begin
    <2> QED BY <2>1, <2>2, <2>3, <2>4 DEF Typed
<1>3. Stages'
    BY <1>1 DEF Typed, TrafficTypeOK, Holdings, Stages, Begin, Goto
<1>4. Conserved'
    <2>1. \A o \in Monitors, u \in Users : Owed(o, u)' = Owed(o, u)
        BY <1>1 DEF Typed, TrafficTypeOK, Holdings, Stages, Owed, Goto, Begin
    <2> QED BY <1>1, <1>2, <2>1, BooksUntouched
<1>5. OneAtWork'
    <2>1. SUFFICES ASSUME ~overlapped'
                   PROVE  Solitary' /\ NothingNegative' /\ Covered'
        BY DEF OneAtWork
    <2>2. ~overlapped /\ \A o \in Monitors \ {m} : pc[o] = "idle"
        BY <2>1 DEF Begin, Bounds, Typed
    <2>3. NothingNegative /\ Covered
        BY <2>2 DEF OneAtWork
    <2>4. Solitary'
        BY <1>1, <2>2 DEF Typed, TrafficTypeOK, Solitary, Goto, Begin
    <2>5. NothingNegative'
        BY <1>1, <2>3 DEF NothingNegative
    <2>6. Covered'
        BY <1>1, <2>2, <2>3 DEF Typed, TrafficTypeOK, Holdings, Stages, Covered, Outstanding, NothingNegative, Zero, Goto, Begin
    <2> QED BY <2>4, <2>5, <2>6
<1> QED BY <1>2, <1>3, <1>4, <1>5

\* What is read is in the counter it was read from.
LEMMA DrainDeltasKeeps ==
    ASSUME TrafficInv, NEW m \in Monitors, DrainDeltas(m)
    PROVE  TrafficInv'
<1> USE DEF TrafficInv
<1>0. TagsKnown
    BY TagsSoFar
<1>1. UNCHANGED <<counter, gen, listed, current, pc, tc, todo, batch, undelivered, panel, faults, churn, carried, lost, twice, overlapped>>
    BY DEF DrainDeltas, stateVars, monitorVars, historyVars
<1>2. Typed'
    <2>1. PICK u \in listed : amount' = [amount EXCEPT ![m][u] = counter[tc[m]][u]]
        BY DEF DrainDeltas
    <2>2. u \in Users /\ counter[tc[m]][u] \in Int
        BY <1>0 DEF Typed, TrafficTypeOK, TagsKnown
    <2>3. amount' \in [Monitors -> [Users -> Int]] /\ \A o \in Monitors \ {m} : amount'[o] = amount[o]
        BY <2>1, <2>2 DEF Typed, TrafficTypeOK
    <2>4. todo[m] = {} /\ batch[m] = {} /\ undelivered[m] = {}
        BY DEF Stages, DrainDeltas
    <2>5. TrafficTypeOK'
        BY <1>1, <2>3, <2>4 DEF Typed, TrafficTypeOK, Records
    <2>6. Ledgers' /\ Holdings' /\ Bounds'
        BY <1>1 DEF Typed, Ledgers, Holdings, Bounds
    <2> QED BY <2>5, <2>6 DEF Typed
<1>3. Stages'
    BY <1>1 DEF Typed, TrafficTypeOK, Holdings, Stages, DrainDeltas, Goto
<1>4. Conserved'
    <2>1. \A o \in Monitors, u \in Users : Owed(o, u)' = Owed(o, u)
        BY <1>1 DEF Typed, TrafficTypeOK, Holdings, Stages, Owed, Goto, DrainDeltas
    <2> QED BY <1>1, <1>2, <2>1, BooksUntouched
<1>5. OneAtWork'
    <2>1. SUFFICES ASSUME ~overlapped'
                   PROVE  Solitary' /\ NothingNegative' /\ Covered'
        BY DEF OneAtWork
    <2>2. ~overlapped /\ Solitary /\ NothingNegative /\ Covered
        BY <1>1, <2>1 DEF OneAtWork
    <2>3. Solitary'
        BY <1>1, <2>2 DEF Typed, TrafficTypeOK, Solitary, Goto, DrainDeltas
    <2>4. NothingNegative'
        BY <1>1, <2>2 DEF Typed, TrafficTypeOK, Ledgers, NothingNegative, DrainDeltas
    <2>5. Covered'
        BY <1>0, <1>1, <2>2 DEF TagsKnown, Typed, TrafficTypeOK, Ledgers, Holdings, Stages, Covered, Outstanding, NothingNegative, Records, Goto, DrainDeltas
    <2> QED BY <2>3, <2>4, <2>5
<1> QED BY <1>2, <1>3, <1>4, <1>5

\* The records to report have an amount each.
LEMMA DrainedKeeps ==
    ASSUME TrafficInv, NEW m \in Monitors, Drained(m)
    PROVE  TrafficInv'
<1> USE DEF TrafficInv
<1>0. TagsKnown
    BY TagsSoFar
<1>1. UNCHANGED <<counter, gen, listed, current, tc, visited, amount, batch, undelivered, panel, faults, churn, carried, lost, twice, overlapped>>
    BY DEF Drained, stateVars, monitorVars, historyVars
<1>2. Typed'
    <2>1. TrafficTypeOK'
        BY <1>0, <1>1, BoundAssumption DEF TagsKnown, Gens, Typed, TrafficTypeOK, Stages, Holdings, Bounds, Records, Zero, Goto, Drained
    <2>2. Ledgers'
        BY <1>1 DEF Typed, TrafficTypeOK, Ledgers, Plus, Drained
    <2>3. Holdings'
        BY <1>1 DEF Typed, TrafficTypeOK, Holdings, Records, Drained
    <2>4. Bounds'
        BY <1>0, <1>1, BoundAssumption DEF Typed, TagsKnown, Bounds, Drained
    <2> QED BY <2>1, <2>2, <2>3, <2>4 DEF Typed
<1>3. Stages'
    BY <1>1 DEF Typed, TrafficTypeOK, Holdings, Stages, Drained, Goto
<1>4. Conserved'
    <2>1. \A o \in Monitors, u \in Users : Owed(o, u)' = Owed(o, u)
        BY <1>1 DEF Typed, TrafficTypeOK, Holdings, Stages, Owed, Goto, Drained
    <2> QED BY <1>1, <1>2, <2>1, BooksUntouched
<1>5. OneAtWork'
    <2>1. SUFFICES ASSUME ~overlapped'
                   PROVE  Solitary' /\ NothingNegative' /\ Covered'
        BY DEF OneAtWork
    <2>2. ~overlapped /\ Solitary /\ NothingNegative /\ Covered
        BY <1>1, <2>1 DEF OneAtWork
    <2>3. Solitary'
        BY <1>1, <2>2 DEF Typed, TrafficTypeOK, Solitary, Goto, Drained
    <2>4. NothingNegative'
        BY <1>1, <2>2 DEF Typed, TrafficTypeOK, Ledgers, NothingNegative, Drained
    <2>5. Covered'
        BY <1>0, <1>1, <2>2 DEF TagsKnown, Typed, TrafficTypeOK, Ledgers, Holdings, Stages, Covered, Outstanding, NothingNegative, Records, Goto, Drained
    <2> QED BY <2>3, <2>4, <2>5
<1> QED BY <1>2, <1>3, <1>4, <1>5

\* A batch leaves the records it is cut from.
LEMMA ChunkKeeps ==
    ASSUME TrafficInv, NEW m \in Monitors, Chunk(m)
    PROVE  TrafficInv'
<1> USE DEF TrafficInv
<1>0. TagsKnown
    BY TagsSoFar
<1>1. UNCHANGED <<counter, gen, listed, current, tc, visited, amount, undelivered, panel, faults, churn, carried, lost, twice, overlapped>>
    BY DEF Chunk, stateVars, monitorVars, historyVars
<1>2. Typed'
    <2>1. PICK b \in SUBSET todo[m] :
             batch' = [batch EXCEPT ![m] = b] /\ todo' = [todo EXCEPT ![m] = @ \ b]
        BY DEF Chunk
    <2>2. TrafficTypeOK'
        BY <1>1, <2>1 DEF Typed, TrafficTypeOK, Holdings, Records, Goto, Chunk
    <2>3. Ledgers' /\ Holdings' /\ Bounds'
        BY <1>1, <2>1 DEF Typed, Ledgers, Holdings, Bounds
    <2> QED BY <2>2, <2>3 DEF Typed
<1>3. Stages'
    BY <1>1 DEF Typed, TrafficTypeOK, Holdings, Stages, Chunk, Goto
<1>4. Conserved'
    <2>1. \A o \in Monitors, u \in Users : Owed(o, u)' = Owed(o, u)
        BY <1>1 DEF Typed, TrafficTypeOK, Holdings, Stages, Owed, Goto, Chunk
    <2> QED BY <1>1, <1>2, <2>1, BooksUntouched
<1>5. OneAtWork'
    <2>1. SUFFICES ASSUME ~overlapped'
                   PROVE  Solitary' /\ NothingNegative' /\ Covered'
        BY DEF OneAtWork
    <2>2. ~overlapped /\ Solitary /\ NothingNegative /\ Covered
        BY <1>1, <2>1 DEF OneAtWork
    <2>3. Solitary'
        BY <1>1, <2>2 DEF Typed, TrafficTypeOK, Solitary, Goto, Chunk
    <2>4. NothingNegative'
        BY <1>1, <2>2 DEF Typed, TrafficTypeOK, Ledgers, NothingNegative, Chunk
    <2>5. Covered'
        BY <1>0, <1>1, <2>2 DEF TagsKnown, Typed, TrafficTypeOK, Ledgers, Holdings, Stages, Covered, Outstanding, NothingNegative, Records, Goto, Chunk
    <2> QED BY <2>3, <2>4, <2>5
<1> QED BY <1>2, <1>3, <1>4, <1>5

\* A batch that was not pushed is left for HTTP.
LEMMA PushFailsKeeps ==
    ASSUME TrafficInv, NEW m \in Monitors, PushFails(m)
    PROVE  TrafficInv'
<1> USE DEF TrafficInv
<1>0. TagsKnown
    BY TagsSoFar
<1>1. UNCHANGED <<counter, gen, listed, current, tc, visited, amount, todo, panel, faults, churn, carried, lost, twice, overlapped>>
    BY DEF PushFails, stateVars, monitorVars, historyVars
<1>2. Typed'
    <2>1. TrafficTypeOK'
        BY <1>0, <1>1, BoundAssumption DEF TagsKnown, Gens, Typed, TrafficTypeOK, Stages, Holdings, Bounds, Records, Zero, Goto, PushFails
    <2>2. Ledgers'
        BY <1>1 DEF Typed, TrafficTypeOK, Ledgers, Plus, PushFails
    <2>3. Holdings'
        BY <1>1 DEF Typed, TrafficTypeOK, Holdings, Records, PushFails
    <2>4. Bounds'
        BY <1>0, <1>1, BoundAssumption DEF Typed, TagsKnown, Bounds, PushFails
    <2> QED BY <2>1, <2>2, <2>3, <2>4 DEF Typed
<1>3. Stages'
    BY <1>1 DEF Typed, TrafficTypeOK, Holdings, Stages, PushFails, Goto
<1>4. Conserved'
    <2>1. \A o \in Monitors, u \in Users : Owed(o, u)' = Owed(o, u)
        BY <1>1 DEF Typed, TrafficTypeOK, Holdings, Stages, Owed, Goto, PushFails
    <2> QED BY <1>1, <1>2, <2>1, BooksUntouched
<1>5. OneAtWork'
    <2>1. SUFFICES ASSUME ~overlapped'
                   PROVE  Solitary' /\ NothingNegative' /\ Covered'
        BY DEF OneAtWork
    <2>2. ~overlapped /\ Solitary /\ NothingNegative /\ Covered
        BY <1>1, <2>1 DEF OneAtWork
    <2>3. Solitary'
        BY <1>1, <2>2 DEF Typed, TrafficTypeOK, Solitary, Goto, PushFails
    <2>4. NothingNegative'
        BY <1>1, <2>2 DEF Typed, TrafficTypeOK, Ledgers, NothingNegative, PushFails
    <2>5. Covered'
        BY <1>0, <1>1, <2>2 DEF TagsKnown, Typed, TrafficTypeOK, Ledgers, Holdings, Stages, Covered, Outstanding, NothingNegative, Records, Goto, PushFails
    <2> QED BY <2>3, <2>4, <2>5
<1> QED BY <1>2, <1>3, <1>4, <1>5

\* A push that is billed and left for HTTP: the excess is on record.
LEMMA PushUnsureKeeps ==
    ASSUME TrafficInv, NEW m \in Monitors, PushUnsure(m)
    PROVE  TrafficInv'
<1> USE DEF TrafficInv
<1>0. TagsKnown
    BY TagsSoFar
<1>1. UNCHANGED <<counter, gen, listed, current, tc, visited, amount, todo, churn, carried, lost, overlapped>>
    BY DEF PushUnsure, stateVars, monitorVars, historyVars
<1>2. Typed'
    <2>1. TrafficTypeOK'
        BY <1>0, <1>1, BoundAssumption DEF TagsKnown, Gens, Typed, TrafficTypeOK, Stages, Holdings, Bounds, Records, Zero, Goto, PushUnsure
    <2>2. Ledgers'
        BY <1>1 DEF Typed, TrafficTypeOK, Ledgers, Plus, PushUnsure
    <2>3. Holdings'
        BY <1>1 DEF Typed, TrafficTypeOK, Holdings, Records, PushUnsure
    <2>4. Bounds'
        BY <1>0, <1>1, BoundAssumption DEF Typed, TagsKnown, Bounds, PushUnsure
    <2> QED BY <2>1, <2>2, <2>3, <2>4 DEF Typed
<1>3. Stages'
    BY <1>1 DEF Typed, TrafficTypeOK, Holdings, Stages, PushUnsure, Goto
<1>4. Conserved'
    <2>1. \A o \in Monitors \ {m}, u \in Users : Owed(o, u)' = Owed(o, u)
        BY <1>1 DEF Typed, TrafficTypeOK, Holdings, Stages, Owed, Goto, PushUnsure
    <2>2. PICK g \in Gens : TRUE
        BY DEF Typed, TrafficTypeOK
    <2>3. ASSUME NEW u \in Users PROVE Balanced(m, g, u)
        <3>1. amount[m][u] \in Int /\ counter[g][u] \in Int /\ carried[u] \in Int
              /\ twice[u] \in Int /\ panel[u] \in Int /\ lost[u] \in Int
            BY DEF Typed, TrafficTypeOK, Ledgers
        <3>2. Owed(m, u) = 0 /\ Owed(m, u)' = 0
            BY <1>1 DEF Typed, TrafficTypeOK, Owed, Goto, PushUnsure
        <3>3. panel'[u] - panel[u] = IF u \in batch[m] THEN amount[m][u] ELSE 0
            BY <3>1 DEF Plus, PushUnsure
        <3>4. twice'[u] - twice[u] = IF u \in batch[m] THEN amount[m][u] ELSE 0
            BY <3>1 DEF Plus, PushUnsure
        <3> QED BY <1>1, <3>1, <3>2, <3>3, <3>4 DEF Balanced
    <2> QED BY <1>1, <1>2, <2>1, <2>2, <2>3, BooksBalance
<1>5. OneAtWork'
    <2>1. SUFFICES ASSUME ~overlapped'
                   PROVE  Solitary' /\ NothingNegative' /\ Covered'
        BY DEF OneAtWork
    <2>2. ~overlapped /\ Solitary /\ NothingNegative /\ Covered
        BY <1>1, <2>1 DEF OneAtWork
    <2>3. Solitary'
        BY <1>1, <2>2 DEF Typed, TrafficTypeOK, Solitary, Goto, PushUnsure
    <2>4. NothingNegative'
        BY <1>1, <2>2 DEF Typed, TrafficTypeOK, Ledgers, NothingNegative, PushUnsure
    <2>5. Covered'
        BY <1>0, <1>1, <2>2 DEF TagsKnown, Typed, TrafficTypeOK, Ledgers, Holdings, Stages, Covered, Outstanding, NothingNegative, Records, Goto, PushUnsure
    <2> QED BY <2>3, <2>4, <2>5
<1> QED BY <1>2, <1>3, <1>4, <1>5

\* Every chunk was tried.
LEMMA PushedKeeps ==
    ASSUME TrafficInv, NEW m \in Monitors, Pushed(m)
    PROVE  TrafficInv'
<1> USE DEF TrafficInv
<1>0. TagsKnown
    BY TagsSoFar
<1>1. UNCHANGED <<counter, gen, listed, current, tc, visited, amount, todo, batch, undelivered, panel, faults, churn, carried, lost, twice, overlapped>>
    BY DEF Pushed, stateVars, monitorVars, historyVars
<1>2. Typed'
    <2>1. TrafficTypeOK'
        BY <1>0, <1>1, BoundAssumption DEF TagsKnown, Gens, Typed, TrafficTypeOK, Stages, Holdings, Bounds, Records, Zero, Goto, Pushed
    <2>2. Ledgers'
        BY <1>1 DEF Typed, TrafficTypeOK, Ledgers, Plus, Pushed
    <2>3. Holdings'
        BY <1>1 DEF Typed, TrafficTypeOK, Holdings, Records, Pushed
    <2>4. Bounds'
        BY <1>0, <1>1, BoundAssumption DEF Typed, TagsKnown, Bounds, Pushed
    <2> QED BY <2>1, <2>2, <2>3, <2>4 DEF Typed
<1>3. Stages'
    BY <1>1 DEF Typed, TrafficTypeOK, Holdings, Stages, Pushed, Goto
<1>4. Conserved'
    <2>1. \A o \in Monitors, u \in Users : Owed(o, u)' = Owed(o, u)
        BY <1>1 DEF Typed, TrafficTypeOK, Holdings, Stages, Owed, Goto, Pushed
    <2> QED BY <1>1, <1>2, <2>1, BooksUntouched
<1>5. OneAtWork'
    <2>1. SUFFICES ASSUME ~overlapped'
                   PROVE  Solitary' /\ NothingNegative' /\ Covered'
        BY DEF OneAtWork
    <2>2. ~overlapped /\ Solitary /\ NothingNegative /\ Covered
        BY <1>1, <2>1 DEF OneAtWork
    <2>3. Solitary'
        BY <1>1, <2>2 DEF Typed, TrafficTypeOK, Solitary, Goto, Pushed
    <2>4. NothingNegative'
        BY <1>1, <2>2 DEF Typed, TrafficTypeOK, Ledgers, NothingNegative, Pushed
    <2>5. Covered'
        BY <1>0, <1>1, <2>2 DEF TagsKnown, Typed, TrafficTypeOK, Ledgers, Holdings, Stages, Covered, Outstanding, NothingNegative, Records, Goto, Pushed
    <2> QED BY <2>3, <2>4, <2>5
<1> QED BY <1>2, <1>3, <1>4, <1>5

\* The amounts stay in the counters.
LEMMA ReportFailsKeeps ==
    ASSUME TrafficInv, NEW m \in Monitors, ReportFails(m)
    PROVE  TrafficInv'
<1> USE DEF TrafficInv
<1>0. TagsKnown
    BY TagsSoFar
<1>1. UNCHANGED <<counter, gen, listed, current, tc, visited, amount, todo, batch, panel, churn, carried, lost, twice, overlapped>>
    BY DEF ReportFails, stateVars, monitorVars, historyVars
<1>2. Typed'
    <2>1. TrafficTypeOK'
        BY <1>0, <1>1, BoundAssumption DEF TagsKnown, Gens, Typed, TrafficTypeOK, Stages, Holdings, Bounds, Records, Zero, Goto, ReportFails
    <2>2. Ledgers'
        BY <1>1 DEF Typed, TrafficTypeOK, Ledgers, Plus, ReportFails
    <2>3. Holdings'
        BY <1>1 DEF Typed, TrafficTypeOK, Holdings, Records, ReportFails
    <2>4. Bounds'
        BY <1>0, <1>1, BoundAssumption DEF Typed, TagsKnown, Bounds, ReportFails
    <2> QED BY <2>1, <2>2, <2>3, <2>4 DEF Typed
<1>3. Stages'
    BY <1>1 DEF Typed, TrafficTypeOK, Holdings, Stages, ReportFails, Goto
<1>4. Conserved'
    <2>1. \A o \in Monitors, u \in Users : Owed(o, u)' = Owed(o, u)
        BY <1>1 DEF Typed, TrafficTypeOK, Holdings, Stages, Owed, Goto, ReportFails
    <2> QED BY <1>1, <1>2, <2>1, BooksUntouched
<1>5. OneAtWork'
    <2>1. SUFFICES ASSUME ~overlapped'
                   PROVE  Solitary' /\ NothingNegative' /\ Covered'
        BY DEF OneAtWork
    <2>2. ~overlapped /\ Solitary /\ NothingNegative /\ Covered
        BY <1>1, <2>1 DEF OneAtWork
    <2>3. Solitary'
        BY <1>1, <2>2 DEF Typed, TrafficTypeOK, Solitary, Goto, ReportFails
    <2>4. NothingNegative'
        BY <1>1, <2>2 DEF Typed, TrafficTypeOK, Ledgers, NothingNegative, ReportFails
    <2>5. Covered'
        BY <1>0, <1>1, <2>2 DEF TagsKnown, Typed, TrafficTypeOK, Ledgers, Holdings, Stages, Covered, Outstanding, NothingNegative, Records, Goto, ReportFails
    <2> QED BY <2>3, <2>4, <2>5
<1> QED BY <1>2, <1>3, <1>4, <1>5

\* The panel bills what the monitor now owes.
LEMMA PushBatchKeeps ==
    ASSUME TrafficInv, NEW m \in Monitors, PushBatch(m)
    PROVE  TrafficInv'
<1> USE DEF TrafficInv
<1>0. TagsKnown
    BY TagsSoFar
<1>1. UNCHANGED <<counter, gen, listed, current, tc, visited, amount, todo, batch, undelivered, faults, churn, carried, lost, twice, overlapped>>
    BY DEF PushBatch, stateVars, monitorVars, historyVars
<1>2. Typed'
    <2>1. TrafficTypeOK'
        BY <1>0, <1>1, BoundAssumption DEF TagsKnown, Gens, Typed, TrafficTypeOK, Stages, Holdings, Bounds, Records, Zero, Goto, PushBatch
    <2>2. Ledgers'
        BY <1>1 DEF Typed, TrafficTypeOK, Ledgers, Plus, PushBatch
    <2>3. Holdings'
        BY <1>1 DEF Typed, TrafficTypeOK, Holdings, Records, PushBatch
    <2>4. Bounds'
        BY <1>0, <1>1, BoundAssumption DEF Typed, TagsKnown, Bounds, PushBatch
    <2> QED BY <2>1, <2>2, <2>3, <2>4 DEF Typed
<1>3. Stages'
    BY <1>1 DEF Typed, TrafficTypeOK, Holdings, Stages, PushBatch, Goto
<1>4. Conserved'
    <2>1. \A o \in Monitors \ {m}, u \in Users : Owed(o, u)' = Owed(o, u)
        BY <1>1 DEF Typed, TrafficTypeOK, Holdings, Stages, Owed, Goto, PushBatch
    <2>2. PICK g \in Gens : TRUE
        BY DEF Typed, TrafficTypeOK
    <2>3. ASSUME NEW u \in Users PROVE Balanced(m, g, u)
        <3>1. amount[m][u] \in Int /\ counter[g][u] \in Int /\ carried[u] \in Int
              /\ twice[u] \in Int /\ panel[u] \in Int /\ lost[u] \in Int
            BY DEF Typed, TrafficTypeOK, Ledgers
        <3>2. Owed(m, u) = 0
            BY DEF Owed, PushBatch
        <3>3. Owed(m, u)' = IF u \in batch[m] THEN amount[m][u] ELSE 0
            BY <1>1 DEF Typed, TrafficTypeOK, Owed, Goto, PushBatch
        <3>4. panel'[u] - panel[u] = IF u \in batch[m] THEN amount[m][u] ELSE 0
            BY <3>1 DEF Plus, PushBatch
        <3> QED BY <1>1, <3>1, <3>2, <3>3, <3>4 DEF Balanced
    <2> QED BY <1>1, <1>2, <2>1, <2>2, <2>3, BooksBalance
<1>5. OneAtWork'
    <2>1. SUFFICES ASSUME ~overlapped'
                   PROVE  Solitary' /\ NothingNegative' /\ Covered'
        BY DEF OneAtWork
    <2>2. ~overlapped /\ Solitary /\ NothingNegative /\ Covered
        BY <1>1, <2>1 DEF OneAtWork
    <2>3. Solitary'
        BY <1>1, <2>2 DEF Typed, TrafficTypeOK, Solitary, Goto, PushBatch
    <2>4. NothingNegative'
        BY <1>1, <2>2 DEF Typed, TrafficTypeOK, Ledgers, NothingNegative, PushBatch
    <2>5. Covered'
        BY <1>0, <1>1, <2>2 DEF TagsKnown, Typed, TrafficTypeOK, Ledgers, Holdings, Stages, Covered, Outstanding, NothingNegative, Records, Goto, PushBatch
    <2> QED BY <2>3, <2>4, <2>5
<1> QED BY <1>2, <1>3, <1>4, <1>5

\* What the network lost the monitor owes as if it had arrived.
LEMMA PushLostKeeps ==
    ASSUME TrafficInv, NEW m \in Monitors, PushLost(m)
    PROVE  TrafficInv'
<1> USE DEF TrafficInv
<1>0. TagsKnown
    BY TagsSoFar
<1>1. UNCHANGED <<counter, gen, listed, current, tc, visited, amount, todo, batch, undelivered, panel, churn, carried, twice, overlapped>>
    BY DEF PushLost, stateVars, monitorVars, historyVars
<1>2. Typed'
    <2>1. TrafficTypeOK'
        BY <1>0, <1>1, BoundAssumption DEF TagsKnown, Gens, Typed, TrafficTypeOK, Stages, Holdings, Bounds, Records, Zero, Goto, PushLost
    <2>2. Ledgers'
        BY <1>1 DEF Typed, TrafficTypeOK, Ledgers, Plus, PushLost
    <2>3. Holdings'
        BY <1>1 DEF Typed, TrafficTypeOK, Holdings, Records, PushLost
    <2>4. Bounds'
        BY <1>0, <1>1, BoundAssumption DEF Typed, TagsKnown, Bounds, PushLost
    <2> QED BY <2>1, <2>2, <2>3, <2>4 DEF Typed
<1>3. Stages'
    BY <1>1 DEF Typed, TrafficTypeOK, Holdings, Stages, PushLost, Goto
<1>4. Conserved'
    <2>1. \A o \in Monitors \ {m}, u \in Users : Owed(o, u)' = Owed(o, u)
        BY <1>1 DEF Typed, TrafficTypeOK, Holdings, Stages, Owed, Goto, PushLost
    <2>2. PICK g \in Gens : TRUE
        BY DEF Typed, TrafficTypeOK
    <2>3. ASSUME NEW u \in Users PROVE Balanced(m, g, u)
        <3>1. amount[m][u] \in Int /\ counter[g][u] \in Int /\ carried[u] \in Int
              /\ twice[u] \in Int /\ panel[u] \in Int /\ lost[u] \in Int
            BY DEF Typed, TrafficTypeOK, Ledgers
        <3>2. Owed(m, u) = 0
            BY DEF Owed, PushLost
        <3>3. Owed(m, u)' = IF u \in batch[m] THEN amount[m][u] ELSE 0
            BY <1>1 DEF Typed, TrafficTypeOK, Owed, Goto, PushLost
        <3>4. lost'[u] - lost[u] = IF u \in batch[m] THEN amount[m][u] ELSE 0
            BY <3>1 DEF Plus, PushLost
        <3> QED BY <1>1, <3>1, <3>2, <3>3, <3>4 DEF Balanced
    <2> QED BY <1>1, <1>2, <2>1, <2>2, <2>3, BooksBalance
<1>5. OneAtWork'
    <2>1. SUFFICES ASSUME ~overlapped'
                   PROVE  Solitary' /\ NothingNegative' /\ Covered'
        BY DEF OneAtWork
    <2>2. ~overlapped /\ Solitary /\ NothingNegative /\ Covered
        BY <1>1, <2>1 DEF OneAtWork
    <2>3. Solitary'
        BY <1>1, <2>2 DEF Typed, TrafficTypeOK, Solitary, Goto, PushLost
    <2>4. NothingNegative'
        <3>1. \A u \in batch[m] : 0 <= amount[m][u]
            BY <2>2 DEF Covered, Outstanding, PushLost
        <3> QED BY <1>1, <2>2, <3>1 DEF Typed, TrafficTypeOK, Ledgers, NothingNegative, Plus, PushLost
    <2>5. Covered'
        BY <1>0, <1>1, <2>2 DEF TagsKnown, Typed, TrafficTypeOK, Ledgers, Holdings, Stages, Covered, Outstanding, NothingNegative, Records, Goto, PushLost
    <2> QED BY <2>3, <2>4, <2>5
<1> QED BY <1>2, <1>3, <1>4, <1>5

\* The same for what was left for HTTP.
LEMMA ReportTrafficKeeps ==
    ASSUME TrafficInv, NEW m \in Monitors, ReportTraffic(m)
    PROVE  TrafficInv'
<1> USE DEF TrafficInv
<1>0. TagsKnown
    BY TagsSoFar
<1>1. UNCHANGED <<counter, gen, listed, current, tc, visited, amount, todo, batch, undelivered, faults, churn, carried, lost, twice, overlapped>>
    BY DEF ReportTraffic, stateVars, monitorVars, historyVars
<1>2. Typed'
    <2>1. TrafficTypeOK'
        BY <1>0, <1>1, BoundAssumption DEF TagsKnown, Gens, Typed, TrafficTypeOK, Stages, Holdings, Bounds, Records, Zero, Goto, ReportTraffic
    <2>2. Ledgers'
        BY <1>1 DEF Typed, TrafficTypeOK, Ledgers, Plus, ReportTraffic
    <2>3. Holdings'
        BY <1>1 DEF Typed, TrafficTypeOK, Holdings, Records, ReportTraffic
    <2>4. Bounds'
        BY <1>0, <1>1, BoundAssumption DEF Typed, TagsKnown, Bounds, ReportTraffic
    <2> QED BY <2>1, <2>2, <2>3, <2>4 DEF Typed
<1>3. Stages'
    BY <1>1 DEF Typed, TrafficTypeOK, Holdings, Stages, ReportTraffic, Goto
<1>4. Conserved'
    <2>1. \A o \in Monitors \ {m}, u \in Users : Owed(o, u)' = Owed(o, u)
        BY <1>1 DEF Typed, TrafficTypeOK, Holdings, Stages, Owed, Goto, ReportTraffic
    <2>2. PICK g \in Gens : TRUE
        BY DEF Typed, TrafficTypeOK
    <2>3. ASSUME NEW u \in Users PROVE Balanced(m, g, u)
        <3>1. amount[m][u] \in Int /\ counter[g][u] \in Int /\ carried[u] \in Int
              /\ twice[u] \in Int /\ panel[u] \in Int /\ lost[u] \in Int
            BY DEF Typed, TrafficTypeOK, Ledgers
        <3>2. Owed(m, u) = 0
            BY DEF Owed, ReportTraffic
        <3>3. Owed(m, u)' = IF u \in undelivered[m] THEN amount[m][u] ELSE 0
            BY <1>1 DEF Typed, TrafficTypeOK, Owed, Goto, ReportTraffic
        <3>4. panel'[u] - panel[u] = IF u \in undelivered[m] THEN amount[m][u] ELSE 0
            BY <3>1 DEF Plus, ReportTraffic
        <3> QED BY <1>1, <3>1, <3>2, <3>3, <3>4 DEF Balanced
    <2> QED BY <1>1, <1>2, <2>1, <2>2, <2>3, BooksBalance
<1>5. OneAtWork'
    <2>1. SUFFICES ASSUME ~overlapped'
                   PROVE  Solitary' /\ NothingNegative' /\ Covered'
        BY DEF OneAtWork
    <2>2. ~overlapped /\ Solitary /\ NothingNegative /\ Covered
        BY <1>1, <2>1 DEF OneAtWork
    <2>3. Solitary'
        BY <1>1, <2>2 DEF Typed, TrafficTypeOK, Solitary, Goto, ReportTraffic
    <2>4. NothingNegative'
        BY <1>1, <2>2 DEF Typed, TrafficTypeOK, Ledgers, NothingNegative, ReportTraffic
    <2>5. Covered'
        BY <1>0, <1>1, <2>2 DEF TagsKnown, Typed, TrafficTypeOK, Ledgers, Holdings, Stages, Covered, Outstanding, NothingNegative, Records, Goto, ReportTraffic
    <2> QED BY <2>3, <2>4, <2>5
<1> QED BY <1>2, <1>3, <1>4, <1>5

\* A repeated report bills what twice remembers.
LEMMA ReportRepeatedKeeps ==
    ASSUME TrafficInv, NEW m \in Monitors, ReportRepeated(m)
    PROVE  TrafficInv'
<1> USE DEF TrafficInv
<1>0. TagsKnown
    BY TagsSoFar
<1>1. UNCHANGED <<counter, gen, listed, current, pc, tc, visited, amount, todo, batch, undelivered, churn, carried, lost, overlapped>>
    BY DEF ReportRepeated, stateVars, monitorVars, historyVars
<1>2. Typed'
    <2>1. TrafficTypeOK'
        BY <1>0, <1>1, BoundAssumption DEF TagsKnown, Gens, Typed, TrafficTypeOK, Stages, Holdings, Bounds, Records, Zero, Goto, ReportRepeated
    <2>2. Ledgers'
        BY <1>1 DEF Typed, TrafficTypeOK, Ledgers, Plus, ReportRepeated
    <2>3. Holdings'
        BY <1>1 DEF Typed, TrafficTypeOK, Holdings, Records, ReportRepeated
    <2>4. Bounds'
        BY <1>0, <1>1, BoundAssumption DEF Typed, TagsKnown, Bounds, ReportRepeated
    <2> QED BY <2>1, <2>2, <2>3, <2>4 DEF Typed
<1>3. Stages'
    BY <1>1 DEF Typed, TrafficTypeOK, Holdings, Stages, ReportRepeated, Goto
<1>4. Conserved'
    <2>1. \A o \in Monitors \ {m}, u \in Users : Owed(o, u)' = Owed(o, u)
        BY <1>1 DEF Typed, TrafficTypeOK, Holdings, Stages, Owed, Goto, ReportRepeated
    <2>2. PICK g \in Gens : TRUE
        BY DEF Typed, TrafficTypeOK
    <2>3. ASSUME NEW u \in Users PROVE Balanced(m, g, u)
        <3>1. amount[m][u] \in Int /\ counter[g][u] \in Int /\ carried[u] \in Int
              /\ twice[u] \in Int /\ panel[u] \in Int /\ lost[u] \in Int
            BY DEF Typed, TrafficTypeOK, Ledgers
        <3>2. Owed(m, u) = 0 /\ Owed(m, u)' = 0
            BY <1>1 DEF Owed, ReportRepeated
        <3>3. panel'[u] - panel[u] = IF u \in undelivered[m] THEN amount[m][u] ELSE 0
            BY <3>1 DEF Plus, ReportRepeated
        <3>4. twice'[u] - twice[u] = IF u \in undelivered[m] THEN amount[m][u] ELSE 0
            BY <3>1 DEF Plus, ReportRepeated
        <3> QED BY <1>1, <3>1, <3>2, <3>3, <3>4 DEF Balanced
    <2> QED BY <1>1, <1>2, <2>1, <2>2, <2>3, BooksBalance
<1>5. OneAtWork'
    <2>1. SUFFICES ASSUME ~overlapped'
                   PROVE  Solitary' /\ NothingNegative' /\ Covered'
        BY DEF OneAtWork
    <2>2. ~overlapped /\ Solitary /\ NothingNegative /\ Covered
        BY <1>1, <2>1 DEF OneAtWork
    <2>3. Solitary'
        BY <1>1, <2>2 DEF Typed, TrafficTypeOK, Solitary, Goto, ReportRepeated
    <2>4. NothingNegative'
        BY <1>1, <2>2 DEF Typed, TrafficTypeOK, Ledgers, NothingNegative, ReportRepeated
    <2>5. Covered'
        BY <1>0, <1>1, <2>2 DEF TagsKnown, Typed, TrafficTypeOK, Ledgers, Holdings, Stages, Covered, Outstanding, NothingNegative, Records, Goto, ReportRepeated
    <2> QED BY <2>3, <2>4, <2>5
<1> QED BY <1>2, <1>3, <1>4, <1>5

\* What the monitor owed is subtracted, once.
LEMMA ResetBatchKeeps ==
    ASSUME TrafficInv, NEW m \in Monitors, ResetBatch(m)
    PROVE  TrafficInv'
<1> USE DEF TrafficInv
<1>0. TagsKnown
    BY TagsSoFar
<1>1. UNCHANGED <<gen, listed, current, tc, visited, amount, todo, undelivered, panel, faults, churn, carried, lost, twice, overlapped>>
    BY DEF ResetBatch, stateVars, monitorVars, historyVars, ResetTraffic
<1>2. Typed'
    <2>1. counter' \in [Gens -> [Users -> Int]]
        <3>1. ResetTraffic(m, batch[m])
            BY DEF ResetBatch
        <3> QED BY <1>0, <3>1, ResetSubtracts
    <2>2. TrafficTypeOK'
        BY <1>1, <2>1 DEF Typed, TrafficTypeOK, Holdings, Records, Goto, ResetBatch
    <2>3. Ledgers' /\ Holdings' /\ Bounds'
        BY <1>1 DEF Typed, Ledgers, Holdings, Bounds, ResetBatch
    <2> QED BY <2>2, <2>3 DEF Typed
<1>3. Stages'
    BY <1>1 DEF Typed, TrafficTypeOK, Holdings, Stages, ResetBatch, Goto, ResetTraffic
<1>4. Conserved'
    <2>1. \A o \in Monitors \ {m}, u \in Users : Owed(o, u)' = Owed(o, u)
        BY <1>1 DEF Typed, TrafficTypeOK, Holdings, Stages, Owed, Goto, ResetBatch, ResetTraffic
    <2>2. tc[m] \in Gens
        BY <1>0 DEF TagsKnown
    <2>3. \A h \in Gens \ {tc[m]}, u \in Users : counter'[h][u] = counter[h][u]
        BY <2>2 DEF Typed, TrafficTypeOK, ResetTraffic, ResetBatch
    <2>4. ASSUME NEW u \in Users PROVE Balanced(m, tc[m], u)
        <3>1. amount[m][u] \in Int /\ counter[tc[m]][u] \in Int /\ carried[u] \in Int
              /\ twice[u] \in Int /\ panel[u] \in Int /\ lost[u] \in Int
            BY <2>2 DEF Typed, TrafficTypeOK, Ledgers
        <3>2. Owed(m, u) = IF u \in batch[m] THEN amount[m][u] ELSE 0
            BY DEF Owed, ResetBatch
        <3>3. Owed(m, u)' = 0
            BY <1>1 DEF Typed, TrafficTypeOK, Owed, Goto, ResetBatch
        <3>4. counter'[tc[m]][u]
                 = counter[tc[m]][u] - (IF u \in batch[m] THEN amount[m][u] ELSE 0)
            BY <2>2 DEF Typed, TrafficTypeOK, ResetTraffic, ResetBatch
        <3> QED BY <1>1, <3>1, <3>2, <3>3, <3>4 DEF Balanced
    <2> QED BY <1>1, <1>2, <2>1, <2>2, <2>3, <2>4, BooksBalance
<1>5. OneAtWork'
    <2>1. SUFFICES ASSUME ~overlapped'
                   PROVE  Solitary' /\ NothingNegative' /\ Covered'
        BY DEF OneAtWork
    <2>2. ~overlapped /\ Solitary /\ NothingNegative /\ Covered
        BY <1>1, <2>1 DEF OneAtWork
    <2>3. Solitary'
        BY <1>1, <2>2 DEF Typed, TrafficTypeOK, Solitary, Goto, ResetBatch
    <2>4. ResetTraffic(m, batch[m])
        BY DEF ResetBatch
    <2>5. /\ counter' \in [Gens -> [Users -> Int]]
          /\ \A u \in batch[m] \cap Users :
               counter'[tc[m]][u] = counter[tc[m]][u] - amount[m][u]
          /\ \A g \in Gens, u \in Users :
               g # tc[m] \/ u \notin batch[m] => counter'[g][u] = counter[g][u]
        BY <1>0, <2>4, ResetSubtracts
    <2>6. \A u \in batch[m] : amount[m][u] <= counter[tc[m]][u]
        BY <2>2 DEF Covered, Outstanding, ResetBatch
    <2>7. batch[m] \subseteq Users /\ tc[m] \in Gens
        BY <1>0 DEF Typed, Holdings, TagsKnown
    <2>8. \A g \in Gens, u \in Users :
            counter[g][u] \in Int /\ counter'[g][u] \in Int /\ amount[m][u] \in Int
        BY <2>5 DEF Typed, TrafficTypeOK
    <2>9. NothingNegative'
        <3>1. ASSUME NEW g \in Gens, NEW u \in Users PROVE counter'[g][u] >= 0
            <4>1. counter[g][u] >= 0
                BY <2>2 DEF NothingNegative
            <4> QED BY <4>1, <2>5, <2>6, <2>7, <2>8
        <3> QED BY <1>1, <2>2, <3>1 DEF NothingNegative
    <2>10. Covered'
        <3>1. ASSUME NEW o \in Monitors, NEW u \in Outstanding(o)'
              PROVE  0 <= amount[o][u] /\ amount[o][u] <= counter'[tc[o]][u]
            <4>1. o = m
                BY <1>1, <2>2 DEF Typed, TrafficTypeOK, Holdings, Stages, Solitary, Outstanding, Goto, ResetBatch
            <4>2. u \in Outstanding(m) /\ u \in Users /\ u \notin batch[m]
                BY <1>1, <4>1 DEF Typed, TrafficTypeOK, Holdings, Stages, Outstanding, Goto, ResetBatch
            <4>3. 0 <= amount[m][u] /\ amount[m][u] <= counter[tc[m]][u]
                BY <2>2, <4>2 DEF Covered
            <4> QED BY <4>1, <4>2, <4>3, <2>5, <2>7
        <3> QED BY <1>1, <3>1 DEF Covered
    <2> QED BY <2>3, <2>9, <2>10
<1> QED BY <1>2, <1>3, <1>4, <1>5

\* The same for what was left for HTTP.
LEMMA ResetUndeliveredKeeps ==
    ASSUME TrafficInv, NEW m \in Monitors, ResetUndelivered(m)
    PROVE  TrafficInv'
<1> USE DEF TrafficInv
<1>0. TagsKnown
    BY TagsSoFar
<1>1. UNCHANGED <<gen, listed, current, tc, visited, amount, todo, batch, panel, faults, churn, carried, lost, twice, overlapped>>
    BY DEF ResetUndelivered, stateVars, monitorVars, historyVars, ResetTraffic
<1>2. Typed'
    <2>1. counter' \in [Gens -> [Users -> Int]]
        <3>1. ResetTraffic(m, undelivered[m])
            BY DEF ResetUndelivered
        <3> QED BY <1>0, <3>1, ResetSubtracts
    <2>2. TrafficTypeOK'
        BY <1>1, <2>1 DEF Typed, TrafficTypeOK, Holdings, Records, Goto, ResetUndelivered
    <2>3. Ledgers' /\ Holdings' /\ Bounds'
        BY <1>1 DEF Typed, Ledgers, Holdings, Bounds, ResetUndelivered
    <2> QED BY <2>2, <2>3 DEF Typed
<1>3. Stages'
    BY <1>1 DEF Typed, TrafficTypeOK, Holdings, Stages, ResetUndelivered, Goto, ResetTraffic
<1>4. Conserved'
    <2>1. \A o \in Monitors \ {m}, u \in Users : Owed(o, u)' = Owed(o, u)
        BY <1>1 DEF Typed, TrafficTypeOK, Holdings, Stages, Owed, Goto, ResetUndelivered, ResetTraffic
    <2>2. tc[m] \in Gens
        BY <1>0 DEF TagsKnown
    <2>3. \A h \in Gens \ {tc[m]}, u \in Users : counter'[h][u] = counter[h][u]
        BY <2>2 DEF Typed, TrafficTypeOK, ResetTraffic, ResetUndelivered
    <2>4. ASSUME NEW u \in Users PROVE Balanced(m, tc[m], u)
        <3>1. amount[m][u] \in Int /\ counter[tc[m]][u] \in Int /\ carried[u] \in Int
              /\ twice[u] \in Int /\ panel[u] \in Int /\ lost[u] \in Int
            BY <2>2 DEF Typed, TrafficTypeOK, Ledgers
        <3>2. Owed(m, u) = IF u \in undelivered[m] THEN amount[m][u] ELSE 0
            BY DEF Owed, ResetUndelivered
        <3>3. Owed(m, u)' = 0
            BY <1>1 DEF Typed, TrafficTypeOK, Owed, Goto, ResetUndelivered
        <3>4. counter'[tc[m]][u]
                 = counter[tc[m]][u] - (IF u \in undelivered[m] THEN amount[m][u] ELSE 0)
            BY <2>2 DEF Typed, TrafficTypeOK, ResetTraffic, ResetUndelivered
        <3> QED BY <1>1, <3>1, <3>2, <3>3, <3>4 DEF Balanced
    <2> QED BY <1>1, <1>2, <2>1, <2>2, <2>3, <2>4, BooksBalance
<1>5. OneAtWork'
    <2>1. SUFFICES ASSUME ~overlapped'
                   PROVE  Solitary' /\ NothingNegative' /\ Covered'
        BY DEF OneAtWork
    <2>2. ~overlapped /\ Solitary /\ NothingNegative /\ Covered
        BY <1>1, <2>1 DEF OneAtWork
    <2>3. Solitary'
        BY <1>1, <2>2 DEF Typed, TrafficTypeOK, Solitary, Goto, ResetUndelivered
    <2>4. ResetTraffic(m, undelivered[m])
        BY DEF ResetUndelivered
    <2>5. /\ counter' \in [Gens -> [Users -> Int]]
          /\ \A u \in undelivered[m] \cap Users :
               counter'[tc[m]][u] = counter[tc[m]][u] - amount[m][u]
          /\ \A g \in Gens, u \in Users :
               g # tc[m] \/ u \notin undelivered[m] => counter'[g][u] = counter[g][u]
        BY <1>0, <2>4, ResetSubtracts
    <2>6. \A u \in undelivered[m] : amount[m][u] <= counter[tc[m]][u]
        BY <2>2 DEF Covered, Outstanding, ResetUndelivered
    <2>7. undelivered[m] \subseteq Users /\ tc[m] \in Gens
        BY <1>0 DEF Typed, Holdings, TagsKnown
    <2>8. \A g \in Gens, u \in Users :
            counter[g][u] \in Int /\ counter'[g][u] \in Int /\ amount[m][u] \in Int
        BY <2>5 DEF Typed, TrafficTypeOK
    <2>9. NothingNegative'
        <3>1. ASSUME NEW g \in Gens, NEW u \in Users PROVE counter'[g][u] >= 0
            <4>1. counter[g][u] >= 0
                BY <2>2 DEF NothingNegative
            <4> QED BY <4>1, <2>5, <2>6, <2>7, <2>8
        <3> QED BY <1>1, <2>2, <3>1 DEF NothingNegative
    <2>10. Covered'
        <3>1. ASSUME NEW o \in Monitors, NEW u \in Outstanding(o)'
              PROVE  0 <= amount[o][u] /\ amount[o][u] <= counter'[tc[o]][u]
            <4>1. o = m
                BY <1>1, <2>2 DEF Typed, TrafficTypeOK, Holdings, Stages, Solitary, Outstanding, Goto, ResetUndelivered
            <4>2. u \in Outstanding(m) /\ u \in Users /\ u \notin undelivered[m]
                BY <1>1, <4>1 DEF Typed, TrafficTypeOK, Holdings, Stages, Outstanding, Goto, ResetUndelivered
            <4>3. 0 <= amount[m][u] /\ amount[m][u] <= counter[tc[m]][u]
                BY <2>2, <4>2 DEF Covered
            <4> QED BY <4>1, <4>2, <4>3, <2>5, <2>7
        <3> QED BY <1>1, <3>1 DEF Covered
    <2> QED BY <2>3, <2>9, <2>10
<1> QED BY <1>2, <1>3, <1>4, <1>5

\* A byte that is carried is counted.
LEMMA CarryKeeps ==
    ASSUME TrafficInv, NEW u \in Users, Carry(u)
    PROVE  TrafficInv'
<1> USE DEF TrafficInv
<1>0. TagsKnown
    BY TagsSoFar
<1>1. UNCHANGED <<gen, listed, current, pc, tc, visited, amount, todo, batch, undelivered, panel, faults, churn, lost, twice, overlapped>>
    BY DEF Carry, stateVars, monitorVars, historyVars
<1>2. Typed'
    <2>1. PICK g \in 0..gen : counter' = [counter EXCEPT ![g][u] = @ + 1]
        BY DEF Carry
    <2>2. g \in Gens
        BY <1>0, <2>1 DEF TagsKnown
    <2>3. counter' \in [Gens -> [Users -> Int]]
        BY <2>1, <2>2 DEF Typed, TrafficTypeOK
    <2>4. TrafficTypeOK'
        BY <1>1, <2>3 DEF Typed, TrafficTypeOK, Records
    <2>5. Ledgers' /\ Holdings' /\ Bounds'
        BY <1>1 DEF Typed, Ledgers, Holdings, Bounds, Carry
    <2> QED BY <2>4, <2>5 DEF Typed
<1>3. Stages'
    BY <1>1 DEF Typed, TrafficTypeOK, Holdings, Stages, Carry, Goto
<1>4. Conserved'
    <2>1. PICK g \in 0..gen : counter' = [counter EXCEPT ![g][u] = @ + 1]
        BY DEF Carry
    <2>2. g \in Gens
        BY <1>0, <2>1 DEF TagsKnown
    <2>3. PICK m \in Monitors : TRUE
        BY DEF Typed, TrafficTypeOK
    <2>4. \A o \in Monitors, v \in Users : Owed(o, v)' = Owed(o, v)
        BY <1>1 DEF Owed
    <2>5. \A h \in Gens \ {g}, v \in Users : counter'[h][v] = counter[h][v]
        BY <2>1, <2>2 DEF Typed, TrafficTypeOK
    <2>6. ASSUME NEW v \in Users PROVE Balanced(m, g, v)
        <3>1. counter[g][v] \in Int /\ carried[v] \in Int
              /\ twice[v] \in Int /\ panel[v] \in Int /\ lost[v] \in Int
            BY <2>2 DEF Typed, TrafficTypeOK, Ledgers
        <3>2. OwedAreInts
            BY OwedType
        <3>3. Owed(m, v) \in Int /\ Owed(m, v)' = Owed(m, v)
            BY <2>4, <3>2 DEF OwedAreInts
        <3>4. counter'[g][v] = counter[g][v] + (IF v = u THEN 1 ELSE 0)
            BY <2>1, <2>2, <3>1 DEF Typed, TrafficTypeOK
        <3>5. carried'[v] = carried[v] + (IF v = u THEN 1 ELSE 0)
            BY <3>1 DEF Typed, Ledgers, Carry
        <3> QED BY <1>1, <3>1, <3>3, <3>4, <3>5 DEF Balanced
    <2> QED BY <1>1, <1>2, <2>2, <2>4, <2>5, <2>6, BooksBalance
<1>5. OneAtWork'
    <2>1. SUFFICES ASSUME ~overlapped'
                   PROVE  Solitary' /\ NothingNegative' /\ Covered'
        BY DEF OneAtWork
    <2>2. ~overlapped /\ Solitary /\ NothingNegative /\ Covered
        BY <1>1, <2>1 DEF OneAtWork
    <2>3. PICK g \in 0..gen : counter' = [counter EXCEPT ![g][u] = @ + 1]
        BY DEF Carry
    <2>4. g \in Gens /\ \A m \in Monitors : tc[m] \in Gens
        BY <1>0, <2>3 DEF TagsKnown
    <2>5. \A h \in Gens, v \in Users : counter'[h][v] >= counter[h][v] /\ counter'[h][v] \in Int
        BY <2>3, <2>4 DEF Typed, TrafficTypeOK
    <2>6. Solitary'
        BY <1>1, <2>2 DEF Solitary
    <2>7. NothingNegative'
        BY <1>1, <2>2, <2>5 DEF Typed, TrafficTypeOK, NothingNegative
    <2>8. Covered'
        BY <1>1, <2>2, <2>4, <2>5 DEF Typed, TrafficTypeOK, Holdings, Covered, Outstanding
    <2> QED BY <2>6, <2>7, <2>8
<1> QED BY <1>2, <1>3, <1>4, <1>5

-----------------------------------------------------------------------------
\* Nothing is counted, carried or billed yet.
LEMMA TrafficInitInv == TrafficInit => TrafficInv
<1> SUFFICES ASSUME TrafficInit PROVE TrafficInv
    OBVIOUS
<1>1. Typed
    <2>1. 0 \in Gens
        BY BoundAssumption DEF Gens
    <2>2. Zero \in [Users -> Int] /\ \A u \in Users : Zero[u] = 0
        BY DEF Zero
    <2>3. TrafficTypeOK
        BY <2>1, <2>2 DEF TrafficInit, TrafficTypeOK, Records
    <2>4. Ledgers
        BY <2>2 DEF TrafficInit, Ledgers
    <2>5. Holdings
        BY DEF TrafficInit, Holdings
    <2>6. gen = 0 /\ churn = 0 /\ overlapped = FALSE
        BY DEF TrafficInit
    <2>7. churn \in 0..MaxChurn /\ gen <= churn
        BY <2>6, BoundAssumption
    <2>8. Bounds
        BY <2>6, <2>7 DEF Bounds
    <2> QED BY <2>3, <2>4, <2>5, <2>8 DEF Typed
<1>2. Stages
    BY DEF TrafficInit, Stages
<1>3. Conserved
    <2> SUFFICES ASSUME NEW u \in Users
                 PROVE  carried[u] + twice[u] = panel[u] + lost[u] + Counted(u) - Unreset(u)
        BY DEF Conserved
    <2> DEFINE c == [g \in Gens |-> counter[g][u]]
               o == [m \in Monitors |-> Owed(m, u)]
    <2>1. \A g \in Gens : c[g] = 0
        BY DEF TrafficInit, Zero
    <2>2. \A m \in Monitors : o[m] = 0
        BY DEF TrafficInit, Owed
    <2>3. Counted(u) = SumFunctionOnSet(c, Gens) /\ Unreset(u) = SumFunctionOnSet(o, Monitors)
        BY SumAll DEF Counted, Unreset
    <2> HIDE DEF c, o
    <2>4. Counted(u) = 0 /\ Unreset(u) = 0
        BY <2>1, <2>2, <2>3, SumOfZeros, GensFinite, MonitorsAssumption
    <2>5. carried[u] = 0 /\ twice[u] = 0 /\ panel[u] = 0 /\ lost[u] = 0
        BY DEF TrafficInit, Zero
    <2> QED BY <2>4, <2>5
<1>4. OneAtWork
    BY DEF TrafficInit, OneAtWork, Solitary, NothingNegative, Covered, Outstanding, Zero
<1> QED BY <1>1, <1>2, <1>3, <1>4 DEF TrafficInv

\* A step that changes nothing.
LEMMA TrafficStutters == TrafficInv /\ UNCHANGED trafficVars => TrafficInv'
<1> SUFFICES ASSUME TrafficInv, UNCHANGED trafficVars PROVE TrafficInv'
    OBVIOUS
<1> USE DEF trafficVars, stateVars, monitorVars, historyVars
<1>1. Typed'
    BY DEF TrafficInv, Typed, TrafficTypeOK, Records, Ledgers, Holdings, Bounds
<1>2. Stages' /\ OneAtWork'
    BY DEF TrafficInv, Stages, OneAtWork, Solitary, NothingNegative, Covered, Outstanding
<1>3. Conserved'
    <2>1. \A o \in Monitors, u \in Users : Owed(o, u)' = Owed(o, u)
        BY DEF Owed
    <2> QED BY <1>1, <2>1, BooksUntouched DEF TrafficInv
<1> QED BY <1>1, <1>2, <1>3 DEF TrafficInv

\* What a lone monitor has delivered and not subtracted is still in the counters.
LEMMA LoneMonitorOwesCounted ==
    ASSUME TrafficInv, ~overlapped, NEW u \in Users
    PROVE  /\ Unreset(u) \in Int /\ Counted(u) \in Int
           /\ Unreset(u) <= Counted(u)
<1> DEFINE c == [g \in Gens |-> counter[g][u]]
           o == [m \in Monitors |-> Owed(m, u)]
           z == [m \in Monitors |-> 0]
<1>1. Solitary /\ NothingNegative /\ Covered /\ Typed /\ TagsKnown /\ OwedAreInts
    BY TagsSoFar, OwedType DEF TrafficInv, OneAtWork
<1>2. c \in [Gens -> Int] /\ \A g \in Gens : c[g] >= 0
    BY <1>1 DEF Typed, TrafficTypeOK, NothingNegative
<1>3. o \in [Monitors -> Int] /\ z \in [Monitors -> Int] /\ \A m \in Monitors : z[m] = 0
    BY <1>1 DEF OwedAreInts
<1>4. Counted(u) = SumFunctionOnSet(c, Gens) /\ Unreset(u) = SumFunctionOnSet(o, Monitors)
    BY SumAll DEF Counted, Unreset
<1>5. \A g \in Gens : c[g] = counter[g][u]
    OBVIOUS
<1>6. \A m \in Monitors : o[m] = Owed(m, u)
    OBVIOUS
<1> HIDE DEF c, o, z
<1>7. Counted(u) \in Int /\ Counted(u) >= 0 /\ \A g \in Gens : Counted(u) >= counter[g][u]
    <2>1. SumFunctionOnSet(c, Gens) \in Int
        BY <1>2, GensFinite, SumSplitsOff DEF SplitsOff
    <2>2. SumFunctionOnSet(c, Gens) >= 0 /\ \A g \in Gens : SumFunctionOnSet(c, Gens) >= c[g]
        BY <1>2, GensFinite, SumCovers
    <2> QED BY <1>4, <1>5, <2>1, <2>2
<1>8. CASE \A m \in Monitors : Owed(m, u) = 0
    <2>1. Unreset(u) = 0
        BY <1>4, <1>6, <1>8, MonitorsAssumption, SumOfZeros
    <2> QED BY <1>7, <2>1
<1>9. CASE \E m \in Monitors : Owed(m, u) # 0
    <2>1. PICK m \in Monitors : Owed(m, u) # 0
        BY <1>9
    <2>2. pc[m] # "idle" /\ u \in Outstanding(m) /\ Owed(m, u) = amount[m][u]
        BY <2>1 DEF Owed, Outstanding
    <2>3. \A n \in Monitors \ {m} : Owed(n, u) = 0
        BY <1>1, <2>2 DEF Solitary, Owed
    <2>4. \A n \in Monitors \ {m} : o[n] = z[n]
        BY <1>3, <1>6, <2>3
    <2>5. SumFunctionOnSet(o, Monitors) = SumFunctionOnSet(z, Monitors) + o[m] - z[m]
        BY <1>3, <2>4, MonitorsAssumption, SumChanges
    <2>6. SumFunctionOnSet(z, Monitors) = 0
        BY <1>3, MonitorsAssumption, SumOfZeros
    <2>7. o[m] = amount[m][u] /\ z[m] = 0 /\ amount[m][u] \in Int
        BY <1>1, <1>3, <1>6, <2>2 DEF Typed, TrafficTypeOK
    <2>8. Unreset(u) = amount[m][u]
        BY <1>4, <2>5, <2>6, <2>7
    <2>9. amount[m][u] <= counter[tc[m]][u] /\ tc[m] \in Gens
        BY <1>1, <2>2 DEF Covered, TagsKnown
    <2>10. counter[tc[m]][u] <= Counted(u) /\ counter[tc[m]][u] \in Int
        BY <1>1, <1>7, <2>9 DEF Typed, TrafficTypeOK
    <2> QED BY <1>7, <2>7, <2>8, <2>9, <2>10
<1> QED BY <1>8, <1>9

\* Then a bill, short of what is delivered and not subtracted, is no more than was carried.
LEMMA HonestFromInv == TrafficInv => BillsAreHonest
<1> SUFFICES ASSUME TrafficInv PROVE BillsAreHonest
    OBVIOUS
<1>1. Conserved
    BY DEF TrafficInv
<1>2. ASSUME ~overlapped, NEW u \in Users PROVE panel[u] <= carried[u] + twice[u]
    <2>1. Unreset(u) \in Int /\ Counted(u) \in Int /\ Unreset(u) <= Counted(u)
        BY <1>2, LoneMonitorOwesCounted
    <2>2. lost[u] >= 0
        BY <1>2 DEF TrafficInv, OneAtWork, NothingNegative
    <2>3. carried[u] \in Int /\ twice[u] \in Int /\ panel[u] \in Int /\ lost[u] \in Int
        BY DEF TrafficInv, Typed, Ledgers
    <2>4. carried[u] + twice[u] = panel[u] + lost[u] + Counted(u) - Unreset(u)
        BY <1>1 DEF Conserved
    <2> QED BY <2>1, <2>2, <2>3, <2>4
<1> QED BY <1>1, <1>2 DEF BillsAreHonest, NeverOverbilled

\* The invariant holds whatever the monitors, users and bounds, and however pushes fail.
THEOREM TrafficInductive == TrafficSpec => []TrafficInv
<1>1. TrafficInit => TrafficInv
    BY TrafficInitInv
<1>2. TrafficInv /\ [TrafficNext]_trafficVars => TrafficInv'
    <2> SUFFICES ASSUME TrafficInv, [TrafficNext]_trafficVars PROVE TrafficInv'
        OBVIOUS
    <2>1. ASSUME NEW u \in Users, Carry(u) PROVE TrafficInv'
        BY <2>1, CarryKeeps
    <2>2. ASSUME NEW u \in Users, Relist(u) PROVE TrafficInv'
        BY <2>2, RelistKeeps
    <2>3. CASE DeleteCounter
        BY <2>3, DeleteCounterKeeps
    <2>4. CASE Restart
        BY <2>4, RestartKeeps
    <2>5. ASSUME NEW m \in Monitors, Step(m) PROVE TrafficInv'
        <3>1. CASE Begin(m)
            BY <3>1, BeginKeeps
        <3>2. CASE DrainDeltas(m)
            BY <3>2, DrainDeltasKeeps
        <3>3. CASE Drained(m)
            BY <3>3, DrainedKeeps
        <3>4. CASE Chunk(m)
            BY <3>4, ChunkKeeps
        <3>5. CASE Pushed(m)
            BY <3>5, PushedKeeps
        <3>6. CASE PushBatch(m)
            BY <3>6, PushBatchKeeps
        <3>7. CASE PushLost(m)
            BY <3>7, PushLostKeeps
        <3>8. CASE PushFails(m)
            BY <3>8, PushFailsKeeps
        <3>9. CASE ResetBatch(m)
            BY <3>9, ResetBatchKeeps
        <3>10. CASE ReportTraffic(m)
            BY <3>10, ReportTrafficKeeps
        <3>11. CASE ReportRepeated(m)
            BY <3>11, ReportRepeatedKeeps
        <3>12. CASE ReportFails(m)
            BY <3>12, ReportFailsKeeps
        <3>13. CASE ResetUndelivered(m)
            BY <3>13, ResetUndeliveredKeeps
        <3>14. CASE PushUnsure(m)
            BY <3>14, PushUnsureKeeps
        <3> QED BY <2>5, <3>1, <3>2, <3>3, <3>4, <3>5, <3>6, <3>7, <3>8, <3>9, <3>10, <3>11,
                   <3>12, <3>13, <3>14 DEF Step, Report
    <2>6. CASE UNCHANGED trafficVars
        BY <2>6, TrafficStutters
    <2> QED BY <2>1, <2>2, <2>3, <2>4, <2>5, <2>6 DEF TrafficNext, Node
<1> QED BY <1>1, <1>2, PTL DEF TrafficSpec

\* The books are of the right shape at every step: a monitor only holds users it has
\* read an amount for, each in one of its lists.
THEOREM TrafficTypeCorrect == TrafficSpec => []TrafficTypeOK
<1>1. TrafficInv => TrafficTypeOK
    BY DEF TrafficInv, Typed
<1> QED BY <1>1, TrafficInductive, PTL

\* No byte is dropped and none is invented, and while monitors take turns nobody is
\* billed for more than was carried or reported twice.
THEOREM BillsStayHonest == TrafficSpec => []BillsAreHonest
BY TrafficInductive, HonestFromInv, PTL
=============================================================================
