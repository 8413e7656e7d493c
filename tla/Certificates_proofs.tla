-------------------------- MODULE Certificates_proofs --------------------------
(***************************************************************************)
(* Proofs that what a save or a challenge leaves behind is whole, for any  *)
(* number of nodes that share the files (helper/cert, node/selfsinged.go). *)
(***************************************************************************)
EXTENDS Certificates, FiniteSetTheorems, WellFoundedInduction, TLAPS

(***************************************************************************)
(* The inductive invariant: a node is in the part of the code of its mode; *)
(* one node at a time is between checkAndReuse and the rename of the .crt, *)
(* and the .key it wrote is its own; the files differ only while somebody  *)
(* is between its two writes; and, while nothing is damaged, one node at   *)
(* most is between the two writes of SaveResource.                         *)
(***************************************************************************)
Saving == {"check", "key", "crt"}
AtRest == {"down", "idle", "load"}
SelfLocs == AtRest \cup Saving \cup {"lock", "report"}
AcmeLocs == AtRest \cup {"exists", "stop", "order", "write crt", "write key", "start"}
LocsOf(self) == IF self THEN SelfLocs ELSE AcmeLocs

Placed == loc \in [Nodes -> LocsOf(SelfSigned)] /\ DOMAIN mine = Nodes

OneSaver ==
    /\ lock = {n \in Nodes : loc[n] \in Saving}
    /\ \A m, n \in Nodes : loc[m] \in Saving /\ loc[n] \in Saving => m = n

KeyWritten == \A n \in Nodes : loc[n] = "crt" => key = mine[n]

OneWriter ==
    ~damaged =>
        /\ \A m, n \in Nodes : loc[m] = "write key" /\ loc[n] = "write key" => m = n
        /\ \A n \in Nodes : loc[n] = "write key" => crt = mine[n]

PairOrWriter ==
    ~damaged => crt = key \/ \E n \in Nodes : loc[n] \in {"crt", "write key"}

IInv == Placed /\ OneSaver /\ KeyWritten /\ OneWriter /\ PairOrWriter /\ ServiceComesBack
-----------------------------------------------------------------------------
(***************************************************************************)
(* Steps that write no file.                                               *)
(***************************************************************************)
LEMMA InitIInv == Init => IInv
<1> SUFFICES ASSUME Init PROVE IInv
  OBVIOUS
<1>1. /\ loc = [n \in Nodes |-> "down"] /\ mine = [n \in Nodes |-> None]
      /\ crt = key /\ lock = {} /\ service = "up"
  BY DEF Init
<1>2. \A n \in Nodes : loc[n] = "down"
  BY <1>1
<1>3. "down" \in SelfLocs /\ "down" \in AcmeLocs /\ "down" \notin Saving
  BY DEF SelfLocs, AcmeLocs, AtRest, Saving
<1>4. Placed
  BY <1>1, <1>3 DEF Placed, LocsOf
<1>5. OneSaver /\ KeyWritten /\ OneWriter
  BY <1>1, <1>2, <1>3 DEF OneSaver, KeyWritten, OneWriter
<1>6. PairOrWriter /\ ServiceComesBack
  BY <1>1 DEF PairOrWriter, ServiceComesBack
<1> QED
  BY <1>4, <1>5, <1>6 DEF IInv

\* Where a node writes a file next, or holds saveMu.
Writing == Saving \cup {"write key"}

\* A node that goes from one place where it writes nothing to another.
Moves(n, l) ==
    /\ n \in Nodes /\ loc[n] \notin Writing /\ l \notin Writing /\ l \in LocsOf(SelfSigned)
    /\ loc' = [loc EXCEPT ![n] = l]
    /\ UNCHANGED <<mode, crt, key, lock, damaged>>
    /\ DOMAIN mine' = Nodes /\ \A m \in Nodes : m # n => mine'[m] = mine[m]

LEMMA MoveKeeps ==
  ASSUME IInv, NEW n, NEW l, Moves(n, l), ServiceComesBack'
  PROVE  IInv'
<1>1. n \in Nodes /\ loc' = [loc EXCEPT ![n] = l] /\ UNCHANGED <<mode, crt, key, lock, damaged>>
  BY DEF Moves
<1>2. Placed'
  BY <1>1 DEF IInv, Placed, Moves, SelfSigned
<1>3. loc'[n] = l /\ \A m \in Nodes : m # n => loc'[m] = loc[m] /\ mine'[m] = mine[m]
  BY <1>1 DEF IInv, Placed, Moves
<1>4. /\ \A m \in Nodes : loc'[m] \in Saving <=> loc[m] \in Saving
      /\ \A m \in Nodes : loc'[m] \in Writing \/ loc[m] \in Writing => loc'[m] = loc[m] /\ mine'[m] = mine[m]
  BY <1>3 DEF Moves, Writing
<1>5. \A m \in Nodes : /\ loc'[m] = "crt" <=> loc[m] = "crt"
                       /\ loc'[m] = "write key" <=> loc[m] = "write key"
                       /\ loc'[m] \in {"crt", "write key"} => mine'[m] = mine[m]
  BY <1>4 DEF Writing, Saving
<1>6. OneSaver'
  BY <1>1, <1>4 DEF IInv, OneSaver
<1>7. KeyWritten'
  BY <1>1, <1>5 DEF IInv, KeyWritten
<1>8. OneWriter'
  BY <1>1, <1>5 DEF IInv, OneWriter
<1>9. PairOrWriter'
  BY <1>1, <1>5 DEF IInv, PairOrWriter
<1> QED
  BY <1>2, <1>6, <1>7, <1>8, <1>9 DEF IInv

\* The places in between are where the code of the node's mode can be.
LEMMA PlaceFacts ==
  /\ \A self \in BOOLEAN : {"down", "idle", "load"} \subseteq LocsOf(self)
  /\ LocsOf(TRUE) = {"down", "idle", "load", "check", "key", "crt", "lock", "report"}
  /\ LocsOf(FALSE) = {"down", "idle", "load", "exists", "stop", "order", "write crt", "write key", "start"}
  /\ Saving = {"check", "key", "crt"} /\ Writing = {"check", "key", "crt", "write key"}
BY DEF LocsOf, SelfLocs, AcmeLocs, AtRest, Saving, Writing

LEMMA MonitorsKeep ==
  ASSUME IInv, NEW n \in Nodes, Build(n) \/ Rebuild(n) \/ Monitor(n)
  PROVE  IInv'
<1> DEFINE l == IF SelfSigned THEN "lock" ELSE IF Monitor(n) THEN "stop" ELSE "exists"
<1>1. /\ loc[n] \in {"down", "idle"} /\ loc' = [loc EXCEPT ![n] = l]
      /\ UNCHANGED <<mode, crt, key, lock, damaged, mine, service, stopped, abandoned>>
  <2>1. CASE Build(n) /\ ~Monitor(n)
    BY <2>1 DEF Build, Goto, Entry, settings, files, port
  <2>2. CASE Rebuild(n) /\ ~Monitor(n)
    BY <2>2 DEF Rebuild, Goto, Entry, files, port
  <2>3. CASE Monitor(n)
    BY <2>3 DEF Monitor, Goto, settings, files, port
  <2> QED
    BY <2>1, <2>2, <2>3
<1>2. l \in LocsOf(SelfSigned) /\ l \notin Writing
  BY PlaceFacts DEF SelfSigned
<1> HIDE DEF l
<1>3. Moves(n, l)
  BY <1>1, <1>2, PlaceFacts DEF Moves, IInv, Placed
<1>4. ServiceComesBack'
  BY <1>1 DEF IInv, ServiceComesBack
<1> QED
  BY <1>3, <1>4, MoveKeeps

LEMMA LoadKeeps == ASSUME IInv, NEW n \in Nodes, Load(n) PROVE IInv'
<1> DEFINE l == IF (crt = key /\ crt \in Ids) \/ n \in up THEN "idle" ELSE "down"
<1>1. /\ loc[n] = "load" /\ loc' = [loc EXCEPT ![n] = l]
      /\ UNCHANGED <<mode, crt, key, lock, damaged, mine, service, stopped, abandoned>>
  BY DEF Load, GiveUp, Goto, settings, files, port
<1>2. l \in {"idle", "down"}
  OBVIOUS
<1> HIDE DEF l
<1>3. Moves(n, l)
  BY <1>1, <1>2, PlaceFacts DEF Moves, IInv, Placed, SelfSigned
<1>4. ServiceComesBack'
  BY <1>1 DEF IInv, ServiceComesBack
<1> QED
  BY <1>3, <1>4, MoveKeeps

LEMMA ReportsKeep == ASSUME IInv, NEW n \in Nodes, Report(n) \/ ReportLost(n) PROVE IInv'
<1> DEFINE l == IF task[n] = "build" THEN "load" ELSE "idle"
<1>1. /\ loc[n] = "report" /\ loc' = [loc EXCEPT ![n] = l]
      /\ mine' = [mine EXCEPT ![n] = None]
      /\ UNCHANGED <<mode, crt, key, lock, damaged, service, stopped, abandoned>>
  BY DEF Report, ReportLost, AfterReport, Goto, settings, files, port
<1>2. l \in {"idle", "load"}
  OBVIOUS
<1> HIDE DEF l
<1>3. Moves(n, l)
  BY <1>1, <1>2, PlaceFacts DEF Moves, IInv, Placed, SelfSigned
<1>4. ServiceComesBack'
  BY <1>1 DEF IInv, ServiceComesBack
<1> QED
  BY <1>3, <1>4, MoveKeeps
\* At one of these places a node is an ACME node, and stays one.
LEMMA AcmePlace ==
  ASSUME IInv, NEW n \in Nodes, loc[n] \in {"exists", "stop", "order", "write crt", "write key", "start"}
  PROVE  /\ ~SelfSigned /\ LocsOf(SelfSigned) = LocsOf(FALSE)
         /\ \A m \in Nodes : loc[m] \notin {"check", "key", "crt"}
<1>1. loc[n] \in LocsOf(SelfSigned)
  BY DEF IInv, Placed
<1>2. ~SelfSigned
  BY <1>1, PlaceFacts DEF SelfSigned
<1>3. LocsOf(SelfSigned) = LocsOf(FALSE)
  BY <1>2 DEF LocsOf
<1> QED
  BY <1>2, <1>3, PlaceFacts DEF IInv, Placed

LEMMA OrdersKeep ==
  ASSUME IInv, NEW n \in Nodes, Exists(n) \/ StopServiceFails(n) \/ Order(n) \/ OrderFails(n)
  PROVE  IInv'
<1>1. /\ loc[n] \in {"exists", "stop", "order"}
      /\ \E l \in {"down", "idle", "load", "stop", "start", "write crt"} : loc' = [loc EXCEPT ![n] = l]
      /\ mine' = mine \/ mine' = [mine EXCEPT ![n] = Fresh]
      /\ UNCHANGED <<mode, crt, key, lock, damaged, service, stopped, abandoned>>
  <2>1. CASE Exists(n)
    BY <2>1 DEF Exists, Goto, settings, files, port
  <2>2. CASE StopServiceFails(n)
    BY <2>2 DEF StopServiceFails, GiveUp, Goto, settings, files, port
  <2>3. CASE Order(n)
    BY <2>3 DEF Order, Goto, settings, files, port
  <2>4. CASE OrderFails(n)
    BY <2>4 DEF OrderFails, Goto, settings, files, port
  <2> QED
    BY <2>1, <2>2, <2>3, <2>4
<1>2. PICK l \in {"down", "idle", "load", "stop", "start", "write crt"} : loc' = [loc EXCEPT ![n] = l]
  BY <1>1
<1>3. l \in LocsOf(SelfSigned) /\ l \notin Writing /\ loc[n] \notin Writing
  BY <1>1, AcmePlace, PlaceFacts
<1>4. Moves(n, l)
  BY <1>1, <1>2, <1>3 DEF Moves, IInv, Placed
<1>5. ServiceComesBack'
  BY <1>1 DEF IInv, ServiceComesBack
<1> QED
  BY <1>4, <1>5, MoveKeeps

\* Who stops the service is among those that will start it.
LEMMA StopServiceKeeps == ASSUME IInv, NEW n \in Nodes, StopService(n) PROVE IInv'
<1>1. /\ loc[n] = "stop" /\ loc' = [loc EXCEPT ![n] = "order"]
      /\ UNCHANGED <<mode, crt, key, lock, damaged, mine, abandoned>>
  BY DEF StopService, Goto, settings, files
<1>2. \/ service = "up" /\ stopped' = stopped \cup {n}
      \/ service' = service /\ stopped' = stopped
  BY DEF StopService
<1>3. Moves(n, "order")
  BY <1>1, AcmePlace, PlaceFacts DEF Moves, IInv, Placed
<1>4. ServiceComesBack'
  BY <1>1, <1>2 DEF IInv, ServiceComesBack
<1> QED
  BY <1>3, <1>4, MoveKeeps

\* Only the last of those that stopped it leaves no other, and it starts it.
LEMMA StartServicesKeep ==
  ASSUME IInv, NEW n \in Nodes, StartService(n) \/ StartServiceFails(n) PROVE IInv'
<1>1. /\ loc[n] = "start" /\ \E l \in {"load", "idle", "down"} : loc' = [loc EXCEPT ![n] = l]
      /\ mine' = [mine EXCEPT ![n] = None] /\ stopped' = stopped \ {n}
      /\ UNCHANGED <<mode, crt, key, lock, damaged>>
  BY DEF StartService, StartServiceFails, AfterStart, GiveUp, Goto, settings, files
<1>2. \/ service' = (IF n \in stopped THEN "up" ELSE service) /\ abandoned' = abandoned
      \/ abandoned' = TRUE
  BY DEF StartService, StartServiceFails
<1>3. PICK l \in {"load", "idle", "down"} : loc' = [loc EXCEPT ![n] = l]
  BY <1>1
<1>4. Moves(n, l)
  BY <1>1, <1>3, AcmePlace, PlaceFacts DEF Moves, IInv, Placed
<1>5. ServiceComesBack'
  BY <1>1, <1>2 DEF IInv, ServiceComesBack
<1> QED
  BY <1>4, <1>5, MoveKeeps

\* What the files, the places and the locks are does not change when a
\* certificate ages or sing-box looks at it.
LEMMA QuietKeeps ==
  ASSUME IInv, Age \/ (\E n \in Nodes : Reload(n)) \/ UNCHANGED vars
  PROVE  IInv'
<1>1. UNCHANGED <<mode, crt, key, lock, loc, mine, damaged, service, stopped, abandoned>>
  <2>1. CASE Age
    BY <2>1 DEF Age, port
  <2>2. CASE \E n \in Nodes : Reload(n)
    BY <2>2 DEF Reload, settings, files, port
  <2>3. CASE UNCHANGED vars
    BY <2>3 DEF vars, settings, files, port
  <2> QED
    BY <2>1, <2>2, <2>3
<1>2. Placed' /\ OneSaver' /\ KeyWritten'
  BY <1>1 DEF IInv, Placed, SelfSigned, OneSaver, KeyWritten
<1>3. OneWriter' /\ PairOrWriter' /\ ServiceComesBack'
  BY <1>1 DEF IInv, OneWriter, PairOrWriter, ServiceComesBack
<1> QED
  BY <1>2, <1>3 DEF IInv
-----------------------------------------------------------------------------
(***************************************************************************)
(* Save: under saveMu the .key and then the .crt.                          *)
(***************************************************************************)
LEMMA SelfPlace ==
  ASSUME IInv, NEW n \in Nodes, loc[n] \in {"lock", "check", "key", "crt"}
  PROVE  /\ SelfSigned /\ LocsOf(SelfSigned) = LocsOf(TRUE)
         /\ \A m \in Nodes : loc[m] # "write key"
<1>1. loc[n] \in LocsOf(SelfSigned)
  BY DEF IInv, Placed
<1>2. SelfSigned
  BY <1>1, PlaceFacts DEF SelfSigned
<1>3. LocsOf(SelfSigned) = LocsOf(TRUE)
  BY <1>2 DEF LocsOf
<1> QED
  BY <1>2, <1>3, PlaceFacts DEF IInv, Placed

LEMMA LocksKeep == ASSUME IInv, NEW n \in Nodes, Lock(n) \/ Check(n) PROVE IInv'
<1>1. /\ UNCHANGED <<mode, crt, key, damaged, service, stopped, abandoned>>
      /\ loc[n] \in {"lock", "check"}
  BY DEF Lock, Check, settings, files, port
<1>2. \/ loc[n] = "lock" /\ lock = {} /\ lock' = {n} /\ loc' = [loc EXCEPT ![n] = "check"]
      \/ loc[n] = "check" /\ lock' = lock \ {n} /\ loc' = [loc EXCEPT ![n] = "report"]
      \/ loc[n] = "check" /\ lock' = lock /\ loc' = [loc EXCEPT ![n] = "key"]
  BY DEF Lock, Check, Goto
<1>3. DOMAIN mine' = Nodes /\ \A m \in Nodes : m # n => mine'[m] = mine[m]
  BY DEF Lock, Check, IInv, Placed
<1>4. LocsOf(SelfSigned) = LocsOf(TRUE) /\ \A m \in Nodes : loc[m] # "write key"
  BY <1>1, SelfPlace
<1>5. /\ loc'[n] \in {"check", "report", "key"} /\ \A m \in Nodes : m # n => loc'[m] = loc[m]
  BY <1>2 DEF IInv, Placed
<1>6. Placed'
  <2>1. loc' \in [Nodes -> LocsOf(SelfSigned)]
    BY <1>2, <1>4, PlaceFacts DEF IInv, Placed
  <2> QED
    BY <1>1, <1>3, <2>1 DEF Placed, SelfSigned
<1>7. OneSaver'
  <2>1. CASE loc[n] = "lock"
    <3>1. lock = {} /\ lock' = {n} /\ loc'[n] = "check" /\ "check" \in Saving
      BY <1>2, <1>5, <2>1, PlaceFacts DEF IInv, Placed
    <3>2. \A m \in Nodes : loc[m] \notin Saving
      BY <3>1 DEF IInv, OneSaver
    <3> QED
      BY <1>5, <3>1, <3>2 DEF OneSaver
  <2>2. CASE loc[n] = "check" /\ loc'[n] = "key"
    <3>1. lock' = lock /\ \A m \in Nodes : loc'[m] \in Saving <=> loc[m] \in Saving
      BY <1>2, <1>5, <2>2, PlaceFacts DEF IInv, Placed
    <3> QED
      BY <3>1 DEF IInv, OneSaver
  <2>3. CASE loc[n] = "check" /\ loc'[n] = "report"
    <3>1. lock' = lock \ {n} /\ \A m \in Nodes : loc'[m] \in Saving <=> loc[m] \in Saving /\ m # n
      BY <1>2, <1>5, <2>3, PlaceFacts DEF IInv, Placed
    <3> QED
      BY <3>1 DEF IInv, OneSaver
  <2> QED
    BY <1>2, <2>1, <2>2, <2>3 DEF IInv, Placed
<1>8. KeyWritten'
  BY <1>1, <1>3, <1>5 DEF IInv, KeyWritten
<1>9. OneWriter'
  BY <1>4, <1>5 DEF OneWriter
<1>10. PairOrWriter'
  BY <1>1, <1>5 DEF IInv, PairOrWriter
<1>11. ServiceComesBack'
  BY <1>1 DEF IInv, ServiceComesBack
<1> QED
  BY <1>6, <1>7, <1>8, <1>9, <1>10, <1>11 DEF IInv

\* Whoever saves is alone between checkAndReuse and the end of Save.
LEMMA AloneSaving ==
  ASSUME IInv, NEW n \in Nodes, loc[n] \in {"check", "key", "crt"}
  PROVE  \A m \in Nodes : m # n => loc[m] \notin {"check", "key", "crt"}
BY DEF IInv, OneSaver, Saving

LEMMA SaveKeyKeeps == ASSUME IInv, NEW n \in Nodes, SaveKey(n) PROVE IInv'
<1>1. /\ loc[n] = "key" /\ loc' = [loc EXCEPT ![n] = "crt"] /\ key' = mine[n]
      /\ UNCHANGED <<mode, crt, lock, mine, service, stopped, abandoned>>
  BY DEF SaveKey, WriteKey, Goto, settings, port
<1>2. LocsOf(SelfSigned) = LocsOf(TRUE) /\ \A m \in Nodes : loc[m] # "write key"
  BY <1>1, SelfPlace
<1>3. loc'[n] = "crt" /\ \A m \in Nodes : m # n => loc'[m] = loc[m] /\ loc[m] \notin {"check", "key", "crt"}
  BY <1>1, AloneSaving DEF IInv, Placed
<1>4. Placed'
  <2>1. loc' \in [Nodes -> LocsOf(SelfSigned)]
    BY <1>1, <1>2, PlaceFacts DEF IInv, Placed
  <2> QED
    BY <1>1, <2>1 DEF IInv, Placed, SelfSigned
<1>5. OneSaver'
  <2>1. \A m \in Nodes : loc'[m] \in Saving <=> loc[m] \in Saving
    BY <1>1, <1>3 DEF Saving
  <2> QED
    BY <1>1, <2>1 DEF IInv, OneSaver
<1>6. KeyWritten'
  BY <1>1, <1>3 DEF KeyWritten
<1>7. OneWriter' /\ PairOrWriter'
  BY <1>2, <1>3 DEF OneWriter, PairOrWriter
<1>8. ServiceComesBack'
  BY <1>1 DEF IInv, ServiceComesBack
<1> QED
  BY <1>4, <1>5, <1>6, <1>7, <1>8 DEF IInv

\* The end of Save, and of a Save that fails: saveMu is free again.
LEMMA Unlocks ==
  ASSUME IInv, NEW n \in Nodes, loc[n] \in {"key", "crt"},
         NEW l \in {"report", "down", "idle"}, loc' = [loc EXCEPT ![n] = l],
         lock' = lock \ {n}, mode' = mode, DOMAIN mine' = Nodes
  PROVE  /\ Placed' /\ OneSaver' /\ KeyWritten' /\ OneWriter'
         /\ \A m \in Nodes : loc'[m] \notin {"crt", "write key"}
         /\ \A m \in Nodes : loc[m] = "crt" => m = n
<1>1. LocsOf(SelfSigned) = LocsOf(TRUE) /\ \A m \in Nodes : loc[m] # "write key"
  BY SelfPlace
<1>2. loc'[n] = l /\ \A m \in Nodes : m # n => loc'[m] = loc[m] /\ loc[m] \notin {"check", "key", "crt"}
  BY AloneSaving DEF IInv, Placed
<1>3. Placed'
  <2>1. loc' \in [Nodes -> LocsOf(SelfSigned)]
    BY <1>1, PlaceFacts DEF IInv, Placed
  <2> QED
    BY <2>1 DEF Placed, SelfSigned
<1>4. \A m \in Nodes : loc'[m] \notin {"check", "key", "crt"} /\ loc'[m] # "write key"
  BY <1>1, <1>2
<1>5. lock' = {}
  BY <1>2 DEF IInv, OneSaver, Saving
<1>6. OneSaver'
  BY <1>4, <1>5 DEF OneSaver, Saving
<1>7. KeyWritten' /\ OneWriter'
  BY <1>4 DEF KeyWritten, OneWriter
<1> QED
  BY <1>2, <1>3, <1>4, <1>6, <1>7

LEMMA SaveCrtKeeps == ASSUME IInv, NEW n \in Nodes, SaveCrt(n) PROVE IInv' /\ key' = crt'
<1>1. /\ loc[n] = "crt" /\ loc' = [loc EXCEPT ![n] = "report"] /\ lock' = lock \ {n}
      /\ crt' = mine[n]
      /\ UNCHANGED <<mode, key, mine, service, stopped, abandoned, damaged>>
  BY DEF SaveCrt, WriteCrt, Goto, settings, port
<1>2. key' = crt'
  BY <1>1 DEF IInv, KeyWritten
<1>3. Placed' /\ OneSaver' /\ KeyWritten' /\ OneWriter'
  BY <1>1, Unlocks DEF IInv, Placed
<1>4. PairOrWriter' /\ ServiceComesBack'
  BY <1>1, <1>2 DEF IInv, PairOrWriter, ServiceComesBack
<1> QED
  BY <1>2, <1>3, <1>4 DEF IInv

LEMMA SaveFailsKeeps == ASSUME IInv, NEW n \in Nodes, SaveFails(n) PROVE IInv'
<1> DEFINE l == IF n \in up THEN "idle" ELSE "down"
<1>1. /\ loc[n] \in {"key", "crt"} /\ loc' = [loc EXCEPT ![n] = l] /\ lock' = lock \ {n}
      /\ mine' = [mine EXCEPT ![n] = None] /\ damaged' = (damaged \/ loc[n] = "crt")
      /\ UNCHANGED <<mode, crt, key, service, stopped, abandoned>>
  BY DEF SaveFails, GiveUp, Goto, settings, files, port
<1>2. l \in {"report", "down", "idle"}
  OBVIOUS
<1> HIDE DEF l
<1>3. /\ Placed' /\ OneSaver' /\ KeyWritten' /\ OneWriter'
      /\ \A m \in Nodes : loc[m] = "crt" => m = n
  BY <1>1, <1>2, Unlocks DEF IInv, Placed
<1>4. PairOrWriter'
  <2>1. \A m \in Nodes : loc[m] # "write key"
    BY <1>1, SelfPlace
  <2>2. ~damaged' => ~damaged /\ \A m \in Nodes : loc[m] \notin {"crt", "write key"}
    BY <1>1, <1>3, <2>1
  <2> QED
    BY <1>1, <2>2 DEF IInv, PairOrWriter
<1>5. ServiceComesBack'
  BY <1>1 DEF IInv, ServiceComesBack
<1> QED
  BY <1>3, <1>4, <1>5 DEF IInv
-----------------------------------------------------------------------------
(***************************************************************************)
(* SaveResource: the .crt and then the .key, with nothing that keeps two   *)
(* nodes apart; and the end of the process.                                *)
(***************************************************************************)
LEMMA SaveResourceCrtKeeps == ASSUME IInv, NEW n \in Nodes, SaveResourceCrt(n) PROVE IInv'
<1>1. /\ loc[n] = "write crt" /\ loc' = [loc EXCEPT ![n] = "write key"] /\ crt' = mine[n]
      /\ damaged' = \E m \in Nodes \ {n} : loc[m] = "write key"
      /\ UNCHANGED <<mode, key, lock, mine, service, stopped, abandoned>>
  BY DEF SaveResourceCrt, WriteCrt, Goto, settings, port
<1>2. LocsOf(SelfSigned) = LocsOf(FALSE) /\ \A m \in Nodes : loc[m] \notin {"check", "key", "crt"}
  BY <1>1, AcmePlace
<1>3. loc'[n] = "write key" /\ \A m \in Nodes : m # n => loc'[m] = loc[m]
  BY <1>1 DEF IInv, Placed
<1>4. Placed'
  <2>1. loc' \in [Nodes -> LocsOf(SelfSigned)]
    BY <1>1, <1>2, PlaceFacts DEF IInv, Placed
  <2> QED
    BY <1>1, <2>1 DEF IInv, Placed, SelfSigned
<1>5. OneSaver' /\ KeyWritten'
  <2>1. \A m \in Nodes : loc'[m] \notin {"check", "key", "crt"}
    BY <1>2, <1>3
  <2> QED
    BY <1>1, <1>2, <2>1 DEF IInv, OneSaver, KeyWritten, Saving
<1>6. OneWriter'
  BY <1>1, <1>3 DEF OneWriter
<1>7. PairOrWriter' /\ ServiceComesBack'
  BY <1>1, <1>3 DEF IInv, PairOrWriter, ServiceComesBack
<1> QED
  BY <1>4, <1>5, <1>6, <1>7 DEF IInv

\* A save that ends, or fails: what is not whole then is damaged.
LEMMA SaveResourceKeyKeeps ==
  ASSUME IInv, NEW n \in Nodes, SaveResourceKey(n) \/ SaveResourceFails(n) PROVE IInv'
<1>1. /\ loc[n] \in {"write crt", "write key"} /\ loc' = [loc EXCEPT ![n] = "start"]
      /\ mine' = mine \/ mine' = [mine EXCEPT ![n] = None]
      /\ UNCHANGED <<mode, lock, service, stopped, abandoned>>
      /\ damaged => damaged'
      /\ \/ loc[n] = "write key" /\ key' = mine[n] /\ crt' = crt
         \/ loc[n] = "write crt" /\ key' = key /\ crt' = crt
         \/ damaged'
  <2>1. CASE SaveResourceKey(n)
    BY <2>1 DEF SaveResourceKey, WriteKey, Goto, settings, port
  <2>2. CASE SaveResourceFails(n)
    <3>1. /\ UNCHANGED <<mode, lock, service, stopped, abandoned>>
          /\ loc[n] \in {"write crt", "write key"} /\ loc' = [loc EXCEPT ![n] = "start"]
          /\ mine' = [mine EXCEPT ![n] = None]
      BY <2>2 DEF SaveResourceFails, Goto, settings, port
    <3>2. CASE loc[n] = "write crt"
      <4>1. crt' \in {crt, Torn} /\ key' = key /\ damaged' = (damaged \/ crt' = Torn)
        BY <2>2, <3>2 DEF SaveResourceFails
      <4> QED
        BY <3>1, <3>2, <4>1
    <3>3. CASE loc[n] = "write key"
      <4>1. crt' = crt /\ damaged' = (damaged \/ key' # mine[n])
        BY <2>2, <3>3 DEF SaveResourceFails
      <4> QED
        BY <3>1, <3>3, <4>1
    <3> QED
      BY <3>1, <3>2, <3>3
  <2> QED
    BY <2>1, <2>2
<1>2. LocsOf(SelfSigned) = LocsOf(FALSE) /\ \A m \in Nodes : loc[m] \notin {"check", "key", "crt"}
  BY <1>1, AcmePlace
<1>3. /\ loc'[n] = "start" /\ DOMAIN mine' = Nodes
      /\ \A m \in Nodes : m # n => loc'[m] = loc[m] /\ mine'[m] = mine[m]
  BY <1>1 DEF IInv, Placed
<1>4. Placed'
  <2>1. loc' \in [Nodes -> LocsOf(SelfSigned)]
    BY <1>1, <1>2, PlaceFacts DEF IInv, Placed
  <2> QED
    BY <1>1, <1>3, <2>1 DEF Placed, SelfSigned
<1>5. OneSaver' /\ KeyWritten'
  <2>1. \A m \in Nodes : loc'[m] \notin {"check", "key", "crt"}
    BY <1>2, <1>3
  <2> QED
    BY <1>1, <1>2, <2>1 DEF IInv, OneSaver, KeyWritten, Saving
<1>6. ~damaged' => ~damaged /\ crt' = crt
  BY <1>1
<1>7. OneWriter'
  <2>1. \A m \in Nodes : loc'[m] = "write key" => loc[m] = "write key" /\ m # n /\ mine'[m] = mine[m]
    BY <1>3
  <2> QED
    BY <1>6, <2>1 DEF IInv, OneWriter
<1>8. PairOrWriter'
  <2> SUFFICES ASSUME ~damaged' PROVE crt' = key' \/ \E m \in Nodes : loc'[m] \in {"crt", "write key"}
    BY DEF PairOrWriter
  <2>1. CASE loc[n] = "write key" /\ key' = mine[n]
    BY <1>1, <1>6, <2>1 DEF IInv, OneWriter
  <2>2. CASE loc[n] = "write crt" /\ key' = key
    BY <1>1, <1>3, <1>6, <2>2 DEF IInv, PairOrWriter
  <2> QED
    BY <1>1, <2>1, <2>2
<1>9. ServiceComesBack'
  BY <1>1 DEF IInv, ServiceComesBack
<1> QED
  BY <1>4, <1>5, <1>7, <1>8, <1>9 DEF IInv

LEMMA CrashKeeps == ASSUME IInv, Crash PROVE IInv'
<1>1. /\ loc' = [n \in Nodes |-> "down"] /\ mine' = [n \in Nodes |-> None] /\ lock' = {}
      /\ abandoned' = (abandoned \/ stopped # {}) /\ UNCHANGED <<mode, service>>
  BY DEF Crash, settings
<1>2. \A n \in Nodes : loc'[n] = "down"
  BY <1>1
<1>3. Placed'
  <2>1. "down" \in LocsOf(SelfSigned)
    BY PlaceFacts DEF SelfSigned
  <2> QED
    BY <1>1, <2>1 DEF Placed, SelfSigned
<1>4. OneSaver' /\ KeyWritten' /\ OneWriter'
  BY <1>1, <1>2, PlaceFacts DEF OneSaver, KeyWritten, OneWriter
<1>5. PairOrWriter'
  <2>1. /\ damaged' = (damaged \/ crt' = Torn \/ \E n \in Nodes : loc[n] \in {"crt", "write key"})
        /\ crt' = crt \/ crt' = Torn
        /\ key' = key \/ \E n \in Nodes : loc[n] = "write key"
    BY DEF Crash
  <2> QED
    BY <2>1 DEF IInv, PairOrWriter
<1>6. ServiceComesBack'
  BY <1>1 DEF IInv, ServiceComesBack
<1> QED
  BY <1>3, <1>4, <1>5, <1>6 DEF IInv
-----------------------------------------------------------------------------
(***************************************************************************)
(* The theorems                                                            *)
(***************************************************************************)
LEMMA StepKeeps == IInv /\ [Next]_vars => IInv'
<1> SUFFICES ASSUME IInv, [Next]_vars PROVE IInv'
  OBVIOUS
<1>1. ASSUME NEW n \in Nodes, Build(n) \/ Rebuild(n) \/ Monitor(n) PROVE IInv'
  BY <1>1, MonitorsKeep
<1>2. ASSUME NEW n \in Nodes, Step(n) PROVE IInv'
  <2>1. CASE Load(n) \/ Report(n) \/ ReportLost(n)
    BY <2>1, LoadKeeps, ReportsKeep
  <2>2. CASE Lock(n) \/ Check(n) \/ SaveKey(n) \/ SaveCrt(n) \/ SaveFails(n)
    BY <2>2, LocksKeep, SaveKeyKeeps, SaveCrtKeeps, SaveFailsKeeps
  <2>3. CASE Exists(n) \/ StopService(n) \/ StopServiceFails(n) \/ Order(n) \/ OrderFails(n)
    BY <2>3, OrdersKeep, StopServiceKeeps
  <2>4. CASE SaveResourceCrt(n) \/ SaveResourceKey(n) \/ SaveResourceFails(n)
    BY <2>4, SaveResourceCrtKeeps, SaveResourceKeyKeeps
  <2>5. CASE StartService(n) \/ StartServiceFails(n)
    BY <2>5, StartServicesKeep
  <2> QED
    BY <1>2, <2>1, <2>2, <2>3, <2>4, <2>5 DEF Step
<1>3. CASE Crash
  BY <1>3, CrashKeeps
<1>4. CASE Age \/ (\E n \in Nodes : Reload(n)) \/ UNCHANGED vars
  BY <1>4, QuietKeeps
<1> QED
  BY <1>1, <1>2, <1>3, <1>4 DEF Next

THEOREM Inductive == Spec => []IInv
<1> QED
  BY InitIInv, StepKeeps, PTL DEF Spec

\* While nobody saves the two files are a pair, and a service stopped for a
\* challenge runs again, unless a history variable says which fault or overlap
\* the code has no answer to (self_signed.go:99-111, certs_storage.go:35-58,
\* cert.go:113-122).
THEOREM SavesAreWhole == Spec => []NothingHalfDone
<1>1. IInv => PairAtRest
  BY DEF IInv, PairOrWriter, PairAtRest
<1>2. IInv => NothingHalfDone
  BY <1>1 DEF IInv, NothingHalfDone
<1> QED
  BY <1>2, Inductive, PTL

\* Whatever reloads on a change of a self-signed .crt finds the key that belongs
\* to it, whoever else saves and wherever the process died before
\* (self_signed.go:103).
THEOREM CrtFollowsKey == Spec => ReloadFindsMatch
<1>1. IInv /\ [Next]_vars => [SelfSigned /\ crt' # crt => key' = crt']_vars
  <2> SUFFICES ASSUME IInv, Next, SelfSigned, crt' # crt PROVE key' = crt'
    OBVIOUS
  <2>1. \A n \in Nodes : loc[n] # "write crt"
    BY AcmePlace
  <2>2. ASSUME NEW n \in Nodes, Build(n) \/ Rebuild(n) \/ Monitor(n) \/ Reload(n) PROVE FALSE
    BY <2>2 DEF Build, Rebuild, Monitor, Reload, files
  <2>3. ASSUME NEW n \in Nodes, Step(n) PROVE key' = crt'
    <3>1. CASE SaveCrt(n)
      BY <3>1, SaveCrtKeeps
    <3>2. CASE SaveResourceCrt(n)
      BY <2>1, <3>2 DEF SaveResourceCrt
    <3>3. CASE Load(n) \/ Lock(n) \/ Check(n) \/ SaveKey(n) \/ SaveFails(n) \/ Report(n) \/ ReportLost(n)
      BY <3>3 DEF Load, Lock, Check, SaveKey, SaveFails, Report, ReportLost, AfterReport, WriteKey, files
    <3>4. CASE Exists(n) \/ StopService(n) \/ StopServiceFails(n) \/ Order(n) \/ OrderFails(n)
      BY <3>4 DEF Exists, StopService, StopServiceFails, Order, OrderFails, files
    <3>5. CASE SaveResourceKey(n) \/ StartService(n) \/ StartServiceFails(n)
      BY <3>5 DEF SaveResourceKey, StartService, StartServiceFails, AfterStart, WriteKey, files
    <3>6. CASE SaveResourceFails(n)
      BY <2>1, <3>6 DEF SaveResourceFails
    <3> QED
      BY <2>3, <3>1, <3>2, <3>3, <3>4, <3>5, <3>6 DEF Step
  <2>4. CASE Age
    BY <2>4 DEF Age
  <2>5. CASE Crash
    BY <2>1, <2>5 DEF Crash
  <2> QED
    BY <2>2, <2>3, <2>4, <2>5 DEF Next
<1> QED
  BY <1>1, Inductive, PTL DEF Spec, ReloadFindsMatch

-----------------------------------------------------------------------------
(***************************************************************************)
(* The types.  A certificate that is nowhere yet exists because the files  *)
(* and the nodes hold fewer than there are; lock is part of OneSaver, and  *)
(* stopped is empty where nothing is self-signed because Placed keeps the  *)
(* ACME places from a self-signed node.                                    *)
(***************************************************************************)
LEMMA LeastExists ==
  ASSUME NEW S, S \subseteq Nat, S # {}
  PROVE  Min(S) \in S
<1>1. PICK x \in S : \A y \in S : ~(<<y, x>> \in OpToRel(<, Nat))
  BY NatLessThanWellFounded, WFMin
<1>2. ASSUME NEW y \in S PROVE x <= y
  <2>1. y \in Nat /\ x \in Nat
    OBVIOUS
  <2>2. ~(<<y, x>> \in OpToRel(<, Nat))
    BY <1>1
  <2>3. ~(y < x)
    BY <2>1, <2>2, Zenon DEF OpToRel
  <2> QED
    BY <2>1, <2>3
<1> QED
  BY <1>2 DEF Min

LEMMA FewHeld ==
  ASSUME NEW f \in [Nodes -> Int]
  PROVE  LET T == {f[n] : n \in Nodes} IN IsFiniteSet(T) /\ Cardinality(T) <= Cardinality(Nodes)
<1> DEFINE T == {f[n] : n \in Nodes}
<1>1. f \in Surjection(Nodes, T)
  BY DEF Surjection
<1> HIDE DEF T
<1>2. IsFiniteSet(T) /\ Cardinality(T) <= Cardinality(Nodes)
  BY <1>1, IdsAssumption, FS_Surjection
<1> QED
  BY <1>2 DEF T

LEMMA FreshExists ==
  ASSUME NEW f \in [Nodes -> Int], NEW a \in Int, NEW b \in Int
  PROVE  Min(Ids \ ({a, b} \cup {f[n] : n \in Nodes})) \in Ids
<1> DEFINE T == {f[n] : n \in Nodes}
           held == {a, b} \cup T
<1>1. IsFiniteSet(T) /\ Cardinality(T) <= Cardinality(Nodes)
  BY FewHeld
<1>2. IsFiniteSet(Ids) /\ Cardinality(Ids) = MaxIds /\ Ids \subseteq Nat
  BY BoundAssumption, FS_Interval DEF Ids
<1> HIDE DEF T
<1>3. IsFiniteSet(held) /\ Cardinality(held) < MaxIds
  <2>1. /\ IsFiniteSet(T \cup {a})
        /\ Cardinality(T \cup {a}) = IF a \in T THEN Cardinality(T) ELSE Cardinality(T) + 1
    BY <1>1, FS_AddElement
  <2>2. /\ IsFiniteSet((T \cup {a}) \cup {b})
        /\ Cardinality((T \cup {a}) \cup {b}) =
             IF b \in T \cup {a} THEN Cardinality(T \cup {a}) ELSE Cardinality(T \cup {a}) + 1
    BY <2>1, FS_AddElement
  <2>3. held = (T \cup {a}) \cup {b}
    OBVIOUS
  <2>4. Cardinality(T) \in Nat /\ Cardinality(Nodes) \in Nat
    BY <1>1, IdsAssumption, FS_CardinalityType
  <2>5. Cardinality(held) <= Cardinality(T) + 2
    <3>1. Cardinality(T \cup {a}) \in Nat /\ Cardinality(T \cup {a}) <= Cardinality(T) + 1
      BY <2>1, <2>4, FS_CardinalityType
    <3>2. \/ Cardinality(held) = Cardinality(T \cup {a})
          \/ Cardinality(held) = Cardinality(T \cup {a}) + 1
      BY <2>2, <2>3
    <3> HIDE DEF held
    <3> QED
      BY <2>4, <3>1, <3>2
  <2>6. Cardinality(held) \in Nat /\ IsFiniteSet(held)
    BY <2>2, <2>3, FS_CardinalityType
  <2> HIDE DEF held
  <2> QED
    BY <1>1, <2>4, <2>5, <2>6, IdsAssumption, BoundAssumption
<1>4. Ids \ held # {}
  <2>1. SUFFICES ASSUME Ids \subseteq held PROVE FALSE
    OBVIOUS
  <2> HIDE DEF held
  <2>2. Cardinality(Ids) <= Cardinality(held) /\ Cardinality(held) \in Nat
    BY <1>3, <2>1, FS_Subset, FS_CardinalityType
  <2> QED
    BY <1>2, <1>3, <2>2, BoundAssumption
<1>5. Min(Ids \ held) \in Ids \ held
  <2> HIDE DEF held
  <2> QED
    BY <1>2, <1>4, LeastExists
<1> QED
  BY <1>5 DEF T

LEMMA FreshIsAnId ==
  ASSUME crt \in Files, key \in Files, mine \in [Nodes -> Ids \cup {None}]
  PROVE  Fresh \in Ids
<1>1. mine \in [Nodes -> Int] /\ crt \in Int /\ key \in Int
  BY BoundAssumption DEF Files, Ids, None, Torn
<1> QED
  BY <1>1, FreshExists DEF Fresh

\* The conjuncts of TypeOK about the files and what the nodes hold of them.
FilesTyped ==
  /\ crt \in Files /\ key \in Files /\ names \in Names /\ due \in BOOLEAN
  /\ mine \in [Nodes -> Ids \cup {None}] /\ want \in [Nodes -> Names]

\* Those about the inbounds and the controllers.
EngineTyped ==
  /\ serving \in [Nodes -> {"none", "crt", "other"}] /\ pinned \subseteq Nodes
  /\ up \subseteq Nodes /\ changed \subseteq up
  /\ \A n \in Nodes : serving[n] # "none" => n \in up

\* And the rest, but for lock, which OneSaver is about.
CountsTyped ==
  /\ stopped \subseteq Nodes /\ (stopped # {} => ~SelfSigned)
  /\ faults \in 0..MaxFaults /\ events \in 0..MaxEvents

Types == FilesTyped /\ EngineTyped /\ CountsTyped

LEMMA InitTypes == Init => Types
<1> SUFFICES ASSUME Init PROVE Types
  OBVIOUS
<1>1. (CHOOSE w \in Names : TRUE) \in Names
  BY NamesAssumption
<1>2. FilesTyped
  BY <1>1 DEF Init, FilesTyped, Files, None
<1>3. EngineTyped /\ CountsTyped
  BY BoundAssumption DEF Init, EngineTyped, CountsTyped
<1> QED
  BY <1>2, <1>3 DEF Types

LEMMA FilesStayTyped ==
  ASSUME IInv, Types, [Next]_vars
  PROVE  FilesTyped'
<1> USE DEF Types, FilesTyped
<1>0. Fresh \in Ids /\ Ids \subseteq Files /\ None \in Files /\ Torn \in Files
  BY FreshIsAnId DEF Files
<1>1. ASSUME NEW n \in Nodes, Build(n) \/ Monitor(n) \/ Reload(n) \/ Load(n) \/ Lock(n) PROVE FilesTyped'
  BY <1>1 DEF Build, Monitor, Reload, Load, Lock, settings, files
<1>2. ASSUME NEW n \in Nodes, Rebuild(n) PROVE FilesTyped'
  BY <1>2 DEF Rebuild, files
<1>3. ASSUME NEW n \in Nodes, Check(n) PROVE FilesTyped'
  BY <1>0, <1>3 DEF Check, Reusable, settings, files
<1>4. ASSUME NEW n \in Nodes, SaveKey(n) \/ SaveCrt(n) \/ SaveFails(n) PROVE FilesTyped'
  BY <1>0, <1>4 DEF SaveKey, SaveCrt, SaveFails, WriteKey, WriteCrt, settings, files
<1>5. ASSUME NEW n \in Nodes, Report(n) \/ ReportLost(n) PROVE FilesTyped'
  BY <1>5 DEF Report, ReportLost, AfterReport, settings, files
<1>6. ASSUME NEW n \in Nodes, Exists(n) \/ StopService(n) \/ StopServiceFails(n) \/ OrderFails(n)
      PROVE  FilesTyped'
  BY <1>6 DEF Exists, StopService, StopServiceFails, OrderFails, settings, files
<1>7. ASSUME NEW n \in Nodes, Order(n) PROVE FilesTyped'
  BY <1>0, <1>7 DEF Order, settings, files
<1>8. ASSUME NEW n \in Nodes, SaveResourceCrt(n) \/ SaveResourceKey(n) PROVE FilesTyped'
  BY <1>0, <1>8 DEF SaveResourceCrt, SaveResourceKey, WriteKey, WriteCrt, settings, files
<1>9. ASSUME NEW n \in Nodes, StartService(n) \/ StartServiceFails(n) PROVE FilesTyped'
  BY <1>9 DEF StartService, StartServiceFails, AfterStart, settings, files
<1>13. ASSUME NEW n \in Nodes, SaveResourceFails(n) PROVE FilesTyped'
  <2>1. /\ crt' \in {crt, Torn} /\ key' \in {key, Torn, mine[n]}
        /\ mine' = [mine EXCEPT ![n] = None] /\ UNCHANGED <<names, due, want>>
    BY <1>13 DEF SaveResourceFails, settings
  <2> QED
    BY <1>0, <2>1
<1>10. CASE Age
  BY <1>10 DEF Age
<1>11. CASE Crash
  BY <1>0, <1>11 DEF Crash, settings
<1>12. CASE UNCHANGED vars
  BY <1>12 DEF vars, settings, files
<1> QED
  BY <1>1, <1>2, <1>3, <1>4, <1>5, <1>6, <1>7, <1>8, <1>9, <1>10, <1>11, <1>12, <1>13 DEF Next, Step

LEMMA EngineStaysTyped ==
  ASSUME Types, [Next]_vars
  PROVE  EngineTyped'
<1> USE DEF Types, EngineTyped
<1>1. ASSUME NEW n \in Nodes, Build(n) \/ Monitor(n) \/ Lock(n) \/ Check(n) \/ SaveFails(n) PROVE EngineTyped'
  BY <1>1 DEF Build, Monitor, Lock, Check, SaveFails, engine
<1>2. ASSUME NEW n \in Nodes, Rebuild(n) PROVE EngineTyped'
  BY <1>2 DEF Rebuild
<1>3. ASSUME NEW n \in Nodes, Load(n) PROVE EngineTyped'
  BY <1>3 DEF Load
<1>4. ASSUME NEW n \in Nodes, Reload(n) PROVE EngineTyped'
  BY <1>4 DEF Reload
<1>5. ASSUME NEW n \in Nodes, SaveKey(n) \/ SaveCrt(n) PROVE EngineTyped'
  BY <1>5 DEF SaveKey, SaveCrt, WriteKey, WriteCrt, engine
<1>6. ASSUME NEW n \in Nodes, Report(n) \/ ReportLost(n) PROVE EngineTyped'
  BY <1>6 DEF Report, ReportLost, AfterReport
<1>7. ASSUME NEW n \in Nodes, Exists(n) \/ StopService(n) \/ StopServiceFails(n) \/ Order(n) \/ OrderFails(n)
      PROVE  EngineTyped'
  <2>1. UNCHANGED <<up, serving, pinned, changed>>
    BY <1>7 DEF Exists, StopService, StopServiceFails, Order, OrderFails, engine
  <2> QED
    BY <2>1
<1>8. ASSUME NEW n \in Nodes, SaveResourceCrt(n) \/ SaveResourceKey(n) PROVE EngineTyped'
  BY <1>8 DEF SaveResourceCrt, SaveResourceKey, WriteKey, WriteCrt, engine
<1>9. ASSUME NEW n \in Nodes, StartService(n) \/ StartServiceFails(n) PROVE EngineTyped'
  BY <1>9 DEF StartService, StartServiceFails, AfterStart, engine
<1>13. ASSUME NEW n \in Nodes, SaveResourceFails(n) PROVE EngineTyped'
  <2>1. /\ \/ UNCHANGED <<serving, pinned>>
           \/ /\ serving' = [m \in Nodes |-> IF serving[m] = "none" THEN "none" ELSE "other"]
              /\ pinned' = {}
        /\ up' = up /\ changed' \in {changed, up}
    BY <1>13 DEF SaveResourceFails
  <2> QED
    BY <2>1
<1>10. CASE Age
  BY <1>10 DEF Age, engine
<1>11. CASE Crash
  BY <1>11 DEF Crash
<1>12. CASE UNCHANGED vars
  BY <1>12 DEF vars, engine
<1> QED
  BY <1>1, <1>2, <1>3, <1>4, <1>5, <1>6, <1>7, <1>8, <1>9, <1>10, <1>11, <1>12, <1>13 DEF Next, Step

LEMMA CountsStayTyped ==
  ASSUME IInv, Types, [Next]_vars
  PROVE  CountsTyped'
<1> USE BoundAssumption DEF Types, CountsTyped, SelfSigned, Fault, Event
<1>1. ASSUME NEW n \in Nodes, Build(n) \/ Monitor(n) \/ Reload(n) \/ Load(n) \/ Lock(n) \/ Check(n)
      PROVE  CountsTyped'
  BY <1>1 DEF Build, Monitor, Reload, Load, Lock, Check, settings, port
<1>2. ASSUME NEW n \in Nodes, Rebuild(n) PROVE CountsTyped'
  BY <1>2 DEF Rebuild, port
<1>3. ASSUME NEW n \in Nodes, SaveKey(n) \/ SaveCrt(n) \/ SaveFails(n) PROVE CountsTyped'
  BY <1>3 DEF SaveKey, SaveCrt, SaveFails, settings, port
<1>4. ASSUME NEW n \in Nodes, Report(n) \/ ReportLost(n) PROVE CountsTyped'
  BY <1>4 DEF Report, ReportLost, AfterReport, settings, port
<1>5. ASSUME NEW n \in Nodes, StopService(n) PROVE CountsTyped'
  <2>1. ~SelfSigned
    BY <1>5, AcmePlace DEF StopService
  <2> QED
    BY <1>5, <2>1 DEF StopService, settings
<1>6. ASSUME NEW n \in Nodes, Exists(n) \/ StopServiceFails(n) \/ Order(n) \/ OrderFails(n) PROVE CountsTyped'
  <2>1. UNCHANGED <<stopped, mode, events>> /\ (faults' = faults \/ Fault)
    BY <1>6 DEF Exists, StopServiceFails, Order, OrderFails, settings, port
  <2> QED
    BY <2>1
<1>7. ASSUME NEW n \in Nodes, SaveResourceCrt(n) \/ SaveResourceKey(n) \/ SaveResourceFails(n)
      PROVE  CountsTyped'
  <2>1. UNCHANGED <<stopped, mode, events>> /\ (faults' = faults \/ Fault)
    BY <1>7 DEF SaveResourceCrt, SaveResourceKey, SaveResourceFails, settings, port
  <2> QED
    BY <2>1
<1>8. ASSUME NEW n \in Nodes, StartService(n) \/ StartServiceFails(n) PROVE CountsTyped'
  BY <1>8 DEF StartService, StartServiceFails, AfterStart, settings
<1>9. CASE Age
  BY <1>9 DEF Age, port
<1>10. CASE Crash
  <2>1. stopped' = {} /\ UNCHANGED <<mode, events>> /\ Fault
    BY <1>10 DEF Crash, settings
  <2> QED
    BY <2>1
<1>11. CASE UNCHANGED vars
  BY <1>11 DEF vars, settings, port
<1> QED
  BY <1>1, <1>2, <1>3, <1>4, <1>5, <1>6, <1>7, <1>8, <1>9, <1>10, <1>11 DEF Next, Step

\* The types of the files and of what the nodes and the panel know of them.
THEOREM TypeCorrect == Spec => []TypeOK
<1>1. Types /\ IInv => TypeOK
  BY DEF Types, FilesTyped, EngineTyped, CountsTyped, IInv, OneSaver, Saving, TypeOK
<1>2. IInv /\ Types /\ [Next]_vars => Types'
  BY FilesStayTyped, EngineStaysTyped, CountsStayTyped DEF Types
<1> QED
  BY <1>1, <1>2, InitTypes, Inductive, PTL DEF Spec

=============================================================================
