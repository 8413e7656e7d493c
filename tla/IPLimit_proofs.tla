---------------------------- MODULE IPLimit_proofs ----------------------------
(***************************************************************************)
(* Proofs that nodes sharing the hash of a subscription (limiter.go,       *)
(* ipLimitScript, GetOnlineIPs; manager.go, SubscriptionMonitor) keep to   *)
(* its limit and report what they recorded, for any number of nodes,       *)
(* addresses, connections and sweeps, and any number of faults.            *)
(***************************************************************************)
EXTENDS IPLimit, FiniteSetTheorems, TLAPS

(***************************************************************************)
(* The inductive invariant.  ConnectedWithinLimit speaks of connections    *)
(* and no step checks it: it follows from the hash being within the limit  *)
(* (HashWithinLimit) and accounting for every connection that is not       *)
(* forgotten (Accounted).  The script compares with the limit of its own   *)
(* node, so HashWithinLimit rests on HighestBounds.  RecordedIsReported    *)
(* needs IdleClaimsNothing: a sweep that reads forgets what it had claimed.*)
(***************************************************************************)
Types ==
    /\ fields \subseteq Fields
    /\ limit \in [Nodes -> Limits] /\ highest \in Limits
    /\ conn \in [Conns -> SUBSET Fields]
    /\ node \in [Sweepers -> Nodes \cup {NoNode}]
    /\ pc \in [Sweepers -> {"idle", "delete", "report"}]
    /\ claimed \in [Sweepers -> SUBSET Fields]
    /\ owed \subseteq Fields /\ dropped \subseteq Fields /\ forgotten \subseteq Conns

OneField == \A c \in Conns : conn[c] = {} \/ \E f \in Fields : conn[c] = {f}

IdleClaimsNothing == \A s \in Sweepers : pc[s] = "idle" => claimed[s] = {}

ClaimsAreOwn == \A s \in Sweepers : \A f \in claimed[s] : f[2] = node[s]

HighestBounds == highest # 0 => \A n \in Nodes : limit[n] # 0 /\ limit[n] <= highest

HashWithinLimit ==
    /\ IsFiniteSet(Addresses(fields))
    /\ highest # 0 => Cardinality(Addresses(fields)) <= highest

Accounted == \A c \in Conns \ forgotten : conn[c] \subseteq fields

IInv ==
    /\ Types
    /\ OneField
    /\ ClaimsAreOwn
    /\ IdleClaimsNothing
    /\ HighestBounds
    /\ HashWithinLimit
    /\ Accounted
    /\ RecordedIsReported

-----------------------------------------------------------------------------
(***************************************************************************)
(* The addresses of a set of fields                                        *)
(***************************************************************************)
\* A new field adds its address.
LEMMA AddressesOfAdded ==
  ASSUME NEW fs, NEW ip, NEW n
  PROVE  Addresses(fs \cup {<<ip, n>>}) = Addresses(fs) \cup {ip}
<1>1. <<ip, n>>[1] = ip
  OBVIOUS
<1> QED
  BY <1>1 DEF Addresses

\* Fewer fields have fewer addresses.
LEMMA AddressesOfSubset ==
  ASSUME NEW fs, NEW gs, gs \subseteq fs, IsFiniteSet(Addresses(fs))
  PROVE  /\ IsFiniteSet(Addresses(gs))
         /\ Cardinality(Addresses(gs)) \in Nat
         /\ Cardinality(Addresses(fs)) \in Nat
         /\ Cardinality(Addresses(gs)) <= Cardinality(Addresses(fs))
<1>1. Addresses(gs) \in SUBSET Addresses(fs)
  BY DEF Addresses
<1> QED
  BY <1>1, FS_Subset, FS_CardinalityType

\* A hash that only loses fields stays within an unchanged limit.
LEMMA FewerStayWithin ==
  ASSUME Types, HashWithinLimit, fields' \subseteq fields, highest' = highest
  PROVE  HashWithinLimit'
<1>1. highest \in Nat
  BY LimitAssumption DEF Types
<1> QED
  BY <1>1, AddressesOfSubset DEF HashWithinLimit

\* A step that loses no field but to a claim or to dropped, and no claim but to
\* dropped, loses nothing that is owed.
LEMMA ClaimedGrows ==
  ASSUME RecordedIsReported, owed' \subseteq owed, dropped \subseteq dropped',
         fields \subseteq fields' \cup dropped' \cup UNION {claimed'[t] : t \in Sweepers},
         \A t \in Sweepers : claimed[t] \subseteq claimed'[t] \cup dropped'
  PROVE  RecordedIsReported'
BY DEF RecordedIsReported

-----------------------------------------------------------------------------
(***************************************************************************)
(* The invariant holds at the start and is kept by every action            *)
(***************************************************************************)
LEMMA InitIInv == Init => IInv
<1> SUFFICES ASSUME Init PROVE IInv
  OBVIOUS
<1>1. PICK l \in Limits : limit = [n \in Nodes |-> l] /\ highest = l
  BY DEF Init
<1>2. l \in Nat
  BY LimitAssumption
<1>3. Types
  BY <1>1 DEF Init, Types
<1>4. OneField /\ ClaimsAreOwn /\ IdleClaimsNothing /\ Accounted /\ RecordedIsReported
  BY DEF Init, OneField, IdleClaimsNothing, ClaimsAreOwn, Accounted, RecordedIsReported
<1>5. HighestBounds
  BY <1>1, <1>2 DEF HighestBounds
<1>6. HashWithinLimit
  <2>1. Addresses(fields) = {}
    BY DEF Init, Addresses
  <2> QED
    BY <2>1, <1>1, <1>2, FS_EmptySet DEF HashWithinLimit
<1> QED
  BY <1>3, <1>4, <1>5, <1>6 DEF IInv

\* The script admits an address only below the node's limit, or one that is
\* counted already.
LEMMA AdmitWithinLimit ==
  ASSUME IInv, NEW ip \in IPs, NEW n \in Nodes, Allowed(ip, n),
         fields' = fields \cup {<<ip, n>>}, highest' = highest
  PROVE  HashWithinLimit'
<1> DEFINE A == Addresses(fields)
<1>1. Addresses(fields') = A \cup {ip}
  BY AddressesOfAdded
<1>2. Addresses(fields)' = Addresses(fields')
  BY DEF Addresses
<1>3. IsFiniteSet(A) /\ Cardinality(A) \in Nat
  BY FS_CardinalityType DEF IInv, HashWithinLimit
<1>4. /\ IsFiniteSet(A \cup {ip})
      /\ Cardinality(A \cup {ip}) = IF ip \in A THEN Cardinality(A) ELSE Cardinality(A) + 1
  BY <1>3, FS_AddElement
<1>5. highest \in Nat /\ limit[n] \in Nat
  BY LimitAssumption DEF IInv, Types
<1>6. ASSUME highest # 0 PROVE Cardinality(A \cup {ip}) <= highest
  <2>1. Cardinality(A) <= highest /\ limit[n] # 0 /\ limit[n] <= highest
    BY <1>6 DEF IInv, HashWithinLimit, HighestBounds
  <2>2. ip \in A \/ Cardinality(A) < limit[n]
    <3>1. <<ip, n>> \in fields => ip \in A
      <4>1. <<ip, n>>[1] = ip
        OBVIOUS
      <4> QED
        BY <4>1 DEF Addresses
    <3> QED
      BY <2>1, <3>1 DEF Allowed
  <2> HIDE DEF A
  <2> QED
    BY <1>3, <1>4, <1>5, <2>1, <2>2
<1> QED
  BY <1>1, <1>2, <1>4, <1>6 DEF HashWithinLimit

LEMMA CheckLimiterIInv == ASSUME IInv, NEW c \in Conns, CheckLimiter(c) PROVE IInv'
<1>1. PICK ip \in IPs, n \in Nodes :
        /\ conn' = [conn EXCEPT ![c] = {<<ip, n>>}]
        /\ Admit(c, ip, n) \/ AdmitUnchecked(c, ip) \/ AdmitIgnored(c, ip)
  BY DEF CheckLimiter
<1>2. <<ip, n>> \in Fields /\ UNCHANGED <<limitVars, sweepVars>>
  BY DEF CheckLimiter, Fields
<1>3. conn \in [Conns -> SUBSET Fields]
  BY DEF IInv, Types
<1>4. OneField' /\ ClaimsAreOwn' /\ IdleClaimsNothing' /\ HighestBounds'
  BY <1>1, <1>2, <1>3
     DEF IInv, OneField, ClaimsAreOwn, IdleClaimsNothing, HighestBounds, limitVars, sweepVars
<1>5. CASE Admit(c, ip, n)
  <2>1. fields' = fields \cup {<<ip, n>>} /\ forgotten' = forgotten \ {c}
    BY <1>5 DEF Admit
  <2>2. Types'
    BY <1>1, <1>2, <1>5 DEF IInv, Types, Admit, limitVars, sweepVars
  <2>3. HashWithinLimit'
    BY <1>2, <1>5, <2>1, AdmitWithinLimit DEF Admit, limitVars
  <2>4. Accounted'
    BY <1>1, <1>3, <2>1 DEF IInv, Accounted
  <2>5. RecordedIsReported'
    BY <1>2, <1>5 DEF IInv, RecordedIsReported, Admit, sweepVars
  <2> QED
    BY <1>4, <2>2, <2>3, <2>4, <2>5 DEF IInv
<1>6. CASE AdmitUnchecked(c, ip) \/ AdmitIgnored(c, ip)
  <2>1. UNCHANGED <<fields, owed, dropped>> /\ forgotten' = forgotten \cup {c}
    BY <1>6 DEF AdmitUnchecked, AdmitIgnored
  <2>2. Types'
    BY <1>1, <1>2, <2>1 DEF IInv, Types, limitVars, sweepVars
  <2>3. HashWithinLimit'
    BY <1>2, <2>1, FewerStayWithin DEF IInv, limitVars
  <2>4. Accounted'
    BY <1>1, <1>3, <2>1 DEF IInv, Accounted
  <2>5. RecordedIsReported'
    BY <1>2, <2>1 DEF IInv, RecordedIsReported, sweepVars
  <2> QED
    BY <1>4, <2>2, <2>3, <2>4, <2>5 DEF IInv
<1> QED
  BY <1>1, <1>5, <1>6

LEMMA DisconnectIInv == ASSUME IInv, NEW c \in Conns, Disconnect(c) PROVE IInv'
<1>1. /\ conn' = [conn EXCEPT ![c] = {}] /\ forgotten' = forgotten \ {c}
      /\ UNCHANGED <<fields, limit, highest, node, pc, claimed, owed, dropped>>
  BY DEF Disconnect, limitVars, sweepVars
<1>2. Types' /\ OneField'
  BY <1>1 DEF IInv, Types, OneField
<1>3. ClaimsAreOwn' /\ IdleClaimsNothing' /\ HighestBounds' /\ RecordedIsReported'
  BY <1>1 DEF IInv, IdleClaimsNothing, ClaimsAreOwn, HighestBounds, RecordedIsReported
<1>4. HashWithinLimit'
  BY <1>1, FewerStayWithin DEF IInv
<1>5. Accounted'
  BY <1>1 DEF IInv, Types, Accounted
<1> QED
  BY <1>2, <1>3, <1>4, <1>5 DEF IInv

\* highest only grows, or is lost to a node without a limit.
LEMMA UpdateLimiterIInv == ASSUME IInv, NEW n \in Nodes, UpdateLimiter(n) PROVE IInv'
<1>1. PICK l \in Limits :
        /\ limit' = [limit EXCEPT ![n] = l]
        /\ highest' = IF 0 \in {highest, l} THEN 0 ELSE IF l > highest THEN l ELSE highest
  BY DEF UpdateLimiter
<1>2. UNCHANGED <<fields, conn, node, pc, claimed, owed, dropped, forgotten>>
  BY DEF UpdateLimiter, sweepVars
<1>3. l \in Nat /\ highest \in Nat /\ limit \in [Nodes -> Nat]
  BY LimitAssumption DEF IInv, Types
<1>4. Types'
  <2>1. limit' \in [Nodes -> Limits] /\ highest' \in Limits
    BY <1>1 DEF IInv, Types
  <2> QED
    BY <1>2, <2>1 DEF IInv, Types
<1>5. /\ OneField' /\ ClaimsAreOwn' /\ IdleClaimsNothing' /\ Accounted'
      /\ RecordedIsReported'
  BY <1>2 DEF IInv, OneField, IdleClaimsNothing, ClaimsAreOwn, Accounted, RecordedIsReported
<1>6. highest' # 0 => highest # 0 /\ l # 0 /\ highest <= highest' /\ l <= highest'
  BY <1>1, <1>3
<1>7. HighestBounds'
  BY <1>1, <1>3, <1>6 DEF IInv, HighestBounds
<1>8. HashWithinLimit'
  <2>1. Addresses(fields)' = Addresses(fields) /\ Cardinality(Addresses(fields)) \in Nat
    BY <1>2, FS_CardinalityType DEF IInv, HashWithinLimit, Addresses
  <2>2. highest' \in Nat
    BY <1>1, <1>3
  <2> QED
    BY <1>3, <1>6, <2>1, <2>2 DEF IInv, HashWithinLimit
<1> QED
  BY <1>4, <1>5, <1>7, <1>8 DEF IInv

LEMMA ExpireIInv == IInv /\ Expire => IInv'
<1> SUFFICES ASSUME IInv, Expire PROVE IInv'
  OBVIOUS
<1>1. /\ fields' = {} /\ dropped' = dropped \cup fields
      /\ forgotten' = forgotten \cup OpenOn(fields)
      /\ UNCHANGED <<limit, highest, conn, node, pc, claimed, owed>>
  BY DEF Expire, limitVars, sweepVars
<1>2. Types'
  BY <1>1 DEF IInv, Types, OpenOn
<1>3. /\ OneField' /\ ClaimsAreOwn' /\ IdleClaimsNothing' /\ HighestBounds'
      /\ RecordedIsReported'
  BY <1>1 DEF IInv, OneField, IdleClaimsNothing, ClaimsAreOwn, HighestBounds, RecordedIsReported
<1>4. HashWithinLimit'
  BY <1>1, FewerStayWithin DEF IInv
<1>5. Accounted'
  BY <1>1 DEF IInv, Accounted, OpenOn
<1> QED
  BY <1>2, <1>3, <1>4, <1>5 DEF IInv

-----------------------------------------------------------------------------
(***************************************************************************)
(* Sweeps                                                                  *)
(***************************************************************************)
LEMMA ReadIInv == ASSUME IInv, NEW s \in Sweepers, Read(s) PROVE IInv'
<1>1. PICK n \in Nodes :
        /\ node' = [node EXCEPT ![s] = n]
        /\ claimed' = [claimed EXCEPT ![s] = Own(n)]
  BY DEF Read
<1>2. /\ pc' = [pc EXCEPT ![s] = "delete"]
      /\ UNCHANGED <<fields, limit, highest, conn, owed, dropped, forgotten>>
  BY DEF Read, limitVars
<1>3. Own(n) \subseteq fields /\ \A f \in Own(n) : f[2] = n
  BY DEF Own
<1>4. Types'
  BY <1>1, <1>2, <1>3 DEF IInv, Types
<1>5. OneField' /\ HighestBounds' /\ Accounted'
  BY <1>2 DEF IInv, OneField, HighestBounds, Accounted
<1>6. HashWithinLimit'
  BY <1>2, FewerStayWithin DEF IInv
<1>7. ClaimsAreOwn'
  BY <1>1, <1>3 DEF IInv, Types, ClaimsAreOwn
<1>8. IdleClaimsNothing'
  BY <1>1, <1>2 DEF IInv, Types, IdleClaimsNothing
<1>9. RecordedIsReported'
  <2>1. claimed[s] = {}
    BY DEF Read, IInv, IdleClaimsNothing
  <2>2. \A t \in Sweepers : claimed[t] \subseteq claimed'[t]
    BY <1>1, <2>1 DEF IInv, Types
  <2> QED
    BY <1>2, <2>2, ClaimedGrows DEF IInv
<1> QED
  BY <1>4, <1>5, <1>6, <1>7, <1>8, <1>9 DEF IInv

\* Deleting forgets the connections whose field it deletes; what was claimed
\* stays claimed until it is reported.
LEMMA DeleteIInv == ASSUME IInv, NEW s \in Sweepers, Delete(s) PROVE IInv'
<1>1. /\ fields' = fields \ claimed[s]
      /\ forgotten' = forgotten \cup OpenOn(claimed[s] \cap fields)
      /\ pc' = [pc EXCEPT ![s] = "report"]
      /\ UNCHANGED <<limit, highest, conn, node, claimed, owed, dropped>>
  BY DEF Delete, limitVars
<1>2. Types'
  BY <1>1 DEF IInv, Types, OpenOn
<1>3. OneField' /\ ClaimsAreOwn' /\ IdleClaimsNothing' /\ HighestBounds'
  BY <1>1 DEF IInv, Types, OneField, ClaimsAreOwn, IdleClaimsNothing, HighestBounds
<1>4. HashWithinLimit'
  BY <1>1, FewerStayWithin DEF IInv
<1>5. Accounted'
  <2> SUFFICES ASSUME NEW c \in Conns \ forgotten' PROVE conn'[c] \subseteq fields'
    BY DEF Accounted
  <2>1. conn[c] \subseteq fields /\ c \notin OpenOn(claimed[s] \cap fields)
    BY <1>1 DEF IInv, Accounted
  <2> QED
    BY <1>1, <2>1 DEF OpenOn
<1>6. RecordedIsReported'
  BY <1>1, ClaimedGrows DEF IInv
<1> QED
  BY <1>2, <1>3, <1>4, <1>5, <1>6 DEF IInv

LEMMA DeleteFailsIInv == ASSUME IInv, NEW s \in Sweepers, DeleteFails(s) PROVE IInv'
<1>1. /\ pc' = [pc EXCEPT ![s] = "report"]
      /\ UNCHANGED <<fields, limit, highest, conn, node, claimed, owed, dropped, forgotten>>
  BY DEF DeleteFails, limitVars
<1>2. Types'
  BY <1>1 DEF IInv, Types
<1>3. OneField' /\ ClaimsAreOwn' /\ IdleClaimsNothing' /\ HighestBounds' /\ Accounted'
  BY <1>1 DEF IInv, Types, OneField, ClaimsAreOwn, IdleClaimsNothing, HighestBounds, Accounted
<1>4. HashWithinLimit'
  BY <1>1, FewerStayWithin DEF IInv
<1>5. RecordedIsReported'
  BY <1>1 DEF IInv, RecordedIsReported
<1> QED
  BY <1>2, <1>3, <1>4, <1>5 DEF IInv

\* A sweep ends: what it claimed was reported, or dropped with its report.
LEMMA ReportIInv ==
  ASSUME IInv, NEW s \in Sweepers, ReportOnlineIPs(s) \/ ReportFails(s)
  PROVE  IInv'
<1>1. /\ claimed' = [claimed EXCEPT ![s] = {}]
      /\ node' = [node EXCEPT ![s] = NoNode]
      /\ pc' = [pc EXCEPT ![s] = "idle"]
      /\ UNCHANGED <<fields, limit, highest, conn, forgotten>>
  BY DEF ReportOnlineIPs, ReportFails, Done, limitVars
<1>2. \/ owed' = owed \ claimed[s] /\ dropped' = dropped
      \/ owed' = owed /\ dropped' = dropped \cup claimed[s]
  BY DEF ReportOnlineIPs, ReportFails
<1>3. Types'
  <2>1. claimed[s] \subseteq Fields
    BY DEF IInv, Types
  <2> QED
    BY <1>1, <1>2, <2>1 DEF IInv, Types
<1>4. OneField' /\ HighestBounds' /\ Accounted'
  BY <1>1 DEF IInv, OneField, HighestBounds, Accounted
<1>5. ClaimsAreOwn' /\ IdleClaimsNothing'
  BY <1>1 DEF IInv, Types, ClaimsAreOwn, IdleClaimsNothing
<1>6. HashWithinLimit'
  BY <1>1, FewerStayWithin DEF IInv
<1>7. RecordedIsReported'
  <2>1. \A t \in Sweepers \ {s} : claimed'[t] = claimed[t]
    BY <1>1 DEF IInv, Types
  <2>2. ASSUME NEW f \in owed' PROVE f \in fields' \cup dropped'
                                        \/ \E t \in Sweepers : f \in claimed'[t]
    <3>1. f \in owed /\ (f \in dropped' \/ f \notin claimed[s])
      BY <1>2
    <3>2. f \in fields \cup dropped \/ \E t \in Sweepers : f \in claimed[t]
      BY <3>1 DEF IInv, RecordedIsReported
    <3> QED
      BY <1>1, <1>2, <2>1, <3>1, <3>2
  <2> QED
    BY <2>2 DEF RecordedIsReported
<1> QED
  BY <1>3, <1>4, <1>5, <1>6, <1>7 DEF IInv

LEMMA StutterIInv ==
  ASSUME IInv, UNCHANGED <<fields, limitVars, conn, sweepVars, owed, dropped, forgotten>>
  PROVE  IInv'
<1>1. UNCHANGED <<fields, limit, highest, conn, node, pc, claimed, owed, dropped, forgotten>>
  BY DEF limitVars, sweepVars
<1>2. HashWithinLimit'
  BY <1>1, FewerStayWithin DEF IInv
<1>3. Types' /\ OneField' /\ ClaimsAreOwn' /\ IdleClaimsNothing'
  BY <1>1 DEF IInv, Types, OneField, ClaimsAreOwn, IdleClaimsNothing
<1>4. HighestBounds' /\ Accounted' /\ RecordedIsReported'
  BY <1>1 DEF IInv, HighestBounds, Accounted, RecordedIsReported
<1> QED
  BY <1>2, <1>3, <1>4 DEF IInv

-----------------------------------------------------------------------------
(***************************************************************************)
(* Theorems                                                                *)
(***************************************************************************)

\* Every state of every execution has the inductive invariant.
THEOREM Inductive == Spec => []IInv
<1>1. IInv /\ [Next]_vars => IInv'
  <2> SUFFICES ASSUME IInv, [Next]_vars PROVE IInv'
    OBVIOUS
  <2>1. ASSUME NEW c \in Conns, CheckLimiter(c) \/ Disconnect(c) PROVE IInv'
    BY <2>1, CheckLimiterIInv, DisconnectIInv
  <2>2. ASSUME NEW n \in Nodes, UpdateLimiter(n) PROVE IInv'
    BY <2>2, UpdateLimiterIInv
  <2>3. CASE Expire
    BY <2>3, ExpireIInv
  <2>4. ASSUME NEW s \in Sweepers, Sweep(s) PROVE IInv'
    <3>1. CASE ReadFails(s)
      BY <3>1, StutterIInv DEF ReadFails
    <3> QED
      BY <2>4, <3>1, ReadIInv, DeleteIInv, DeleteFailsIInv, ReportIInv DEF Sweep
  <2>5. CASE UNCHANGED vars
    BY <2>5, StutterIInv DEF vars
  <2> QED
    BY <2>1, <2>2, <2>3, <2>4, <2>5 DEF Next
<1> QED
  BY <1>1, InitIInv, PTL DEF Spec

\* Every variable keeps its type, each connection has at most one field, and a
\* sweep claims fields of its own node only.
THEOREM TypeCorrect == Spec => []TypeOK
<1>1. IInv => TypeOK
  <2> SUFFICES ASSUME IInv PROVE TypeOK
    OBVIOUS
  <2>1. \A c \in Conns : conn[c] \subseteq Fields /\ Cardinality(conn[c]) <= 1
    <3> SUFFICES ASSUME NEW c \in Conns
                 PROVE  conn[c] \subseteq Fields /\ Cardinality(conn[c]) <= 1
      OBVIOUS
    <3>1. conn[c] = {} \/ \E f \in Fields : conn[c] = {f}
      BY DEF IInv, OneField
    <3>2. Cardinality(conn[c]) = 0 \/ Cardinality(conn[c]) = 1
      BY <3>1, FS_EmptySet, FS_Singleton
    <3> QED
      BY <3>2 DEF IInv, Types
  <2>2. \A s \in Sweepers : claimed[s] \subseteq {f \in Fields : f[2] = node[s]}
    BY DEF IInv, Types, ClaimsAreOwn
  <2> QED
    BY <2>1, <2>2 DEF IInv, Types, TypeOK
<1> QED
  BY <1>1, Inductive, PTL

\* However many nodes race to admit, to sweep and to change their limits, the
\* connections that the hash accounts for come from no more addresses than the
\* highest limit.
THEOREM LimitHolds == Spec => []ConnectedWithinLimit
<1>1. IInv => ConnectedWithinLimit
  <2> SUFFICES ASSUME IInv, highest # 0
               PROVE  Cardinality(Addresses(UNION {conn[c] : c \in Conns \ forgotten}))
                        <= highest
    BY DEF ConnectedWithinLimit
  <2> DEFINE open == UNION {conn[c] : c \in Conns \ forgotten}
  <2>1. open \subseteq fields
    BY DEF IInv, Accounted
  <2>2. highest \in Nat
    BY LimitAssumption DEF IInv, Types
  <2>3. IsFiniteSet(Addresses(fields)) /\ Cardinality(Addresses(fields)) <= highest
    BY DEF IInv, HashWithinLimit
  <2> HIDE DEF open
  <2>4. Cardinality(Addresses(open)) <= highest
    BY <2>1, <2>2, <2>3, AddressesOfSubset
  <2> QED
    BY <2>4 DEF open
<1> QED
  BY <1>1, Inductive, PTL

\* No sweep, alone or overlapping another of its node, loses an address that was
\* recorded: it is in the hash or claimed until it is reported, unless its report
\* failed or its key expired.
THEOREM NothingUnreported == Spec => []RecordedIsReported
<1>1. IInv => RecordedIsReported
  BY DEF IInv
<1> QED
  BY <1>1, Inductive, PTL
===============================================================================
