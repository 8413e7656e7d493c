---------------------------- MODULE Certificates ----------------------------
(***************************************************************************)
(* The certificate files of nodes that share a name: GenerateTLSCert, Save *)
(* and checkAndReuse (helper/cert/self_signed.go) with SelfSignedCertFile  *)
(* (node/selfsinged.go), and HTTPCert, RenewCert, Run, Renew and           *)
(* SaveResource (helper/cert), as getCertFile calls them when an inbound is*)
(* built and certMonitor or selfSignedCertMonitor periodically.            *)
(*                                                                         *)
(* A certificate and its key are one number in the two files; what matters *)
(* is whether they agree, which names the certificate carries and whether  *)
(* it is about to expire.  sing-box loads the pair when an inbound is      *)
(* created and watches the files; a pair that does not match leaves the one*)
(* in use.  The process may stop between any two steps.                    *)
(***************************************************************************)
EXTENDS Integers, FiniteSetsExt

CONSTANTS
    Nodes,      \* nodes of this process with the same server name
    Names,      \* sets of names a node's certificate can be wanted for
    MaxIds,     \* bound on the certificates in the files and being saved
    MaxEvents,  \* bound on expiries and changed settings
    MaxFaults   \* bound on crashes and failed writes, orders, commands, reports

ASSUME BoundAssumption ==
    MaxIds \in Nat \ {0} /\ MaxEvents \in Nat /\ MaxFaults \in Nat
\* Certificates do not run out: the two files and the nodes hold fewer.
ASSUME IdsAssumption == IsFiniteSet(Nodes) /\ Cardinality(Nodes) + 2 < MaxIds
ASSUME NamesAssumption == Names # {}

None == 0
Torn == -1
Ids == 1..MaxIds
Files == {None, Torn} \cup Ids

VARIABLES
    mode,       \* CertMode of the nodes: "self-signed" or "http"
    sameName,   \* is ServerName the CertDomainName?
    want,       \* the names each node asks for
    crt, key,   \* the two files
    names, due, \* the names in the .crt, and is it about to expire?
    lock,       \* who holds saveMu
    service,    \* what listens on the challenge port: "up" or "down"
    loc, task,  \* where each node is, and in which of "build" and "monitor"
    mine,       \* the certificate GeneratedCert, or an order, holds
    stopped,    \* nodes that stopped the service
    up,         \* nodes whose controller runs
    serving,    \* each node's inbound: "none", or the certificate of the .crt or another
    changed,    \* nodes whose file changes sing-box has not looked at yet
    pinned,     \* nodes of which the panel has the hash of the .crt
    events, faults,
    damaged,    \* history: a save was cut short or overlapped another
    abandoned   \* history: the service could not be started, or by nobody

settings == <<mode, sameName, want, events>>
files == <<crt, key, names, due>>
engine == <<up, serving, pinned>>
port == <<service, stopped, abandoned>>
vars == <<settings, files, lock, port, loc, task, mine, engine, changed, faults, damaged>>

SelfSigned == mode = "self-signed"

Init ==
    /\ mode \in {"self-signed", "http"}
    /\ sameName \in BOOLEAN /\ (SelfSigned => sameName)
    /\ want \in [Nodes -> Names] /\ (~SelfSigned => \A n \in Nodes : want[n] = CHOOSE w \in Names : TRUE)
    /\ crt = None /\ key = None /\ due = FALSE
    /\ names = CHOOSE w \in Names : TRUE
    /\ lock = {} /\ service = "up"
    /\ loc = [n \in Nodes |-> "down"] /\ task = [n \in Nodes |-> "build"]
    /\ mine = [n \in Nodes |-> None]
    /\ stopped = {} /\ up = {} /\ changed = {} /\ pinned = {}
    /\ serving = [n \in Nodes |-> "none"]
    /\ events = 0 /\ faults = 0 /\ damaged = FALSE /\ abandoned = FALSE

Goto(n, l) == loc' = [loc EXCEPT ![n] = l]
Fault == faults < MaxFaults /\ faults' = faults + 1
Event == events < MaxEvents /\ events' = events + 1

\* A certificate that is nowhere yet.
Fresh == Min(Ids \ ({crt, key} \cup {mine[n] : n \in Nodes}))

\* Where an attempt ends: an inbound without a certificate is not built.
GiveUp(n) == Goto(n, IF n \in up THEN "idle" ELSE "down")

-----------------------------------------------------------------------------
(***************************************************************************)
(* The node manager and the monitors.                                      *)
(***************************************************************************)
Entry == IF SelfSigned THEN "lock" ELSE "exists"

Build(n) ==
    /\ loc[n] = "down" \/ (loc[n] = "idle" /\ serving[n] = "none")
    /\ Goto(n, Entry) /\ task' = [task EXCEPT ![n] = "build"]
    /\ UNCHANGED <<settings, files, lock, port, mine, engine, changed, faults, damaged>>

\* New settings from the panel rebuild the inbound.
Rebuild(n) ==
    /\ loc[n] = "idle" /\ n \in up /\ Event
    /\ want' \in {[want EXCEPT ![n] = w] : w \in Names}
    /\ serving' = [serving EXCEPT ![n] = "none"]
    /\ Goto(n, Entry) /\ task' = [task EXCEPT ![n] = "build"]
    /\ UNCHANGED <<mode, sameName, files, lock, port, mine, up, pinned, changed, faults, damaged>>

Monitor(n) ==
    /\ loc[n] = "idle" /\ n \in up
    /\ Goto(n, IF SelfSigned THEN "lock" ELSE "stop")
    /\ task' = [task EXCEPT ![n] = "monitor"]
    /\ UNCHANGED <<settings, files, lock, port, mine, engine, changed, faults, damaged>>

\* Inbound.Create reads both files, outside saveMu.
Load(n) ==
    /\ loc[n] = "load"
    /\ IF crt = key /\ crt \in Ids
         THEN /\ serving' = [serving EXCEPT ![n] = "crt"]
              /\ up' = up \cup {n} /\ Goto(n, "idle")
         ELSE GiveUp(n) /\ UNCHANGED <<serving, up>>
    /\ changed' = changed \ {n}
    /\ UNCHANGED <<settings, files, lock, port, task, mine, pinned, faults, damaged>>

Reload(n) ==
    /\ n \in changed
    /\ changed' = changed \ {n}
    /\ serving' = IF crt = key /\ crt \in Ids /\ serving[n] # "none"
                    THEN [serving EXCEPT ![n] = "crt"] ELSE serving
    /\ UNCHANGED <<settings, files, lock, port, loc, task, mine, up, pinned, faults, damaged>>

Age ==
    /\ crt \in Ids /\ ~due /\ Event
    /\ due' = TRUE
    /\ UNCHANGED <<mode, sameName, want, crt, key, names, lock, port, loc, task, mine,
                   engine, changed, faults, damaged>>

-----------------------------------------------------------------------------
(***************************************************************************)
(* Save and the report of its hashes (self-signed).                        *)
(***************************************************************************)
\* Mutant: saves are not serialised.
LockShared(n) ==
    /\ loc[n] = "lock"
    /\ lock' = lock \cup {n} /\ Goto(n, "check")
    /\ UNCHANGED <<settings, files, port, task, mine, engine, changed, faults, damaged>>

Lock(n) ==
    /\ loc[n] = "lock" /\ lock = {}
    /\ lock' = {n} /\ Goto(n, "check")
    /\ UNCHANGED <<settings, files, port, task, mine, engine, changed, faults, damaged>>

\* Mutant: expiry is not looked at.
ReusableForever(n) == crt \in Ids /\ crt = key /\ names = want[n]

Reusable(n) == crt \in Ids /\ crt = key /\ names = want[n] /\ ~due

\* Mutant: a certificate that is kept is not reported again.
CheckReportsNew(n) ==
    /\ loc[n] = "check"
    /\ mine' = [mine EXCEPT ![n] = IF Reusable(n) THEN None ELSE Fresh]
    /\ lock' = IF Reusable(n) THEN lock \ {n} ELSE lock
    /\ Goto(n, IF ~Reusable(n) THEN "key" ELSE IF task[n] = "build" THEN "load" ELSE "idle")
    /\ UNCHANGED <<settings, files, port, task, engine, changed, faults, damaged>>

\* checkAndReuse.  What is kept replaces what was generated.
Check(n) ==
    /\ loc[n] = "check"
    /\ mine' = [mine EXCEPT ![n] = IF Reusable(n) THEN crt ELSE Fresh]
    /\ lock' = IF Reusable(n) THEN lock \ {n} ELSE lock
    /\ Goto(n, IF Reusable(n) THEN "report" ELSE "key")
    /\ UNCHANGED <<settings, files, port, task, engine, changed, faults, damaged>>

WriteKey(n) ==
    /\ key' = mine[n]
    /\ UNCHANGED <<crt, names, due, engine>>

WriteCrt(n) ==
    /\ crt' = mine[n] /\ names' = want[n] /\ due' = FALSE
    /\ serving' = [m \in Nodes |-> IF serving[m] = "none" THEN "none" ELSE "other"]
    /\ pinned' = {}
    /\ UNCHANGED <<key, up>>

\* Mutant: the .crt is written before the .key.
SaveKeyAfterCrt(n) ==
    /\ loc[n] = "key"
    /\ WriteCrt(n) /\ damaged' = FALSE
    /\ changed' = up /\ Goto(n, "crt")
    /\ UNCHANGED <<settings, lock, port, task, mine, faults>>

SaveKey(n) ==
    /\ loc[n] = "key"
    /\ WriteKey(n) /\ damaged' = FALSE
    /\ changed' = up /\ Goto(n, "crt")
    /\ UNCHANGED <<settings, lock, port, task, mine, faults>>

SaveCrt(n) ==
    /\ loc[n] = "crt"
    /\ WriteCrt(n)
    /\ changed' = up /\ lock' = lock \ {n} /\ Goto(n, "report")
    /\ UNCHANGED <<settings, port, task, mine, faults, damaged>>

\* Mutant: an error path that keeps the mutex.
SaveFailsLocked(n) ==
    /\ loc[n] \in {"key", "crt"}
    /\ Fault
    /\ damaged' = (damaged \/ loc[n] = "crt")
    /\ GiveUp(n)
    /\ mine' = [mine EXCEPT ![n] = None]
    /\ UNCHANGED <<settings, files, lock, port, task, engine, changed>>

\* A file that cannot be replaced stays as it was (writeFileAtomic).
SaveFails(n) ==
    /\ loc[n] \in {"key", "crt"}
    /\ Fault
    /\ damaged' = (damaged \/ loc[n] = "crt")
    /\ lock' = lock \ {n} /\ GiveUp(n)
    /\ mine' = [mine EXCEPT ![n] = None]
    /\ UNCHANGED <<settings, files, port, task, engine, changed>>

\* reportPinnedCA, over the session or else over HTTP: kept certificates too.
AfterReport(n) ==
    /\ Goto(n, IF task[n] = "build" THEN "load" ELSE "idle")
    /\ mine' = [mine EXCEPT ![n] = None]
    /\ UNCHANGED <<settings, files, lock, port, task, up, serving, changed, damaged>>

Report(n) ==
    /\ loc[n] = "report"
    /\ pinned' = IF mine[n] = crt THEN pinned \cup {n} ELSE pinned \ {n}
    /\ AfterReport(n)
    /\ UNCHANGED faults

ReportLost(n) ==
    /\ loc[n] = "report"
    /\ Fault
    /\ AfterReport(n)
    /\ UNCHANGED pinned

-----------------------------------------------------------------------------
(***************************************************************************)
(* HTTPCert and RenewCert (ACME).                                          *)
(***************************************************************************)
\* checkCertFile: that the files exist is all it looks at.
Exists(n) ==
    /\ loc[n] = "exists"
    /\ Goto(n, IF crt # None /\ key # None THEN "load" ELSE "stop")
    /\ UNCHANGED <<settings, files, lock, port, task, mine, engine, changed, faults, damaged>>

\* getServiceOnPort and stopService.
StopService(n) ==
    /\ loc[n] = "stop"
    /\ IF service = "up"
         THEN service' = "down" /\ stopped' = stopped \cup {n}
         ELSE UNCHANGED <<service, stopped>>
    /\ Goto(n, "order")
    /\ UNCHANGED <<settings, files, lock, abandoned, task, mine, engine, changed, faults, damaged>>

StopServiceFails(n) ==
    /\ loc[n] = "stop" /\ service = "up"
    /\ Fault /\ GiveUp(n)
    /\ UNCHANGED <<settings, files, lock, port, task, mine, engine, changed, damaged>>

\* renewForDomains reads the certificate of ServerName; Run has none to read.
\* With a file it cannot read it panics, as every failure here does.
Order(n) ==
    /\ loc[n] = "order"
    /\ IF task[n] = "monitor" /\ ~(sameName /\ crt \in Ids /\ due)
         THEN Goto(n, "start") /\ UNCHANGED mine
         ELSE mine' = [mine EXCEPT ![n] = Fresh] /\ Goto(n, "write crt")
    /\ UNCHANGED <<settings, files, lock, port, task, engine, changed, faults, damaged>>

OrderFails(n) ==
    /\ loc[n] = "order"
    /\ Fault /\ Goto(n, "start")
    /\ UNCHANGED <<settings, files, lock, port, task, mine, engine, changed, damaged>>

\* SaveResource truncates and writes in place, and nothing keeps two apart.
SaveResourceCrt(n) ==
    /\ loc[n] = "write crt"
    /\ WriteCrt(n)
    /\ damaged' = \E m \in Nodes \ {n} : loc[m] = "write key"
    /\ changed' = up /\ Goto(n, "write key")
    /\ UNCHANGED <<settings, lock, port, task, mine, faults>>

\* Mutant: the key of the first order is kept.
SaveResourceKeyOnce(n) ==
    /\ loc[n] = "write key"
    /\ IF key = None THEN WriteKey(n) ELSE UNCHANGED <<files, engine>>
    /\ changed' = up /\ Goto(n, "start")
    /\ UNCHANGED <<settings, lock, port, task, mine, faults, damaged>>

SaveResourceKey(n) ==
    /\ loc[n] = "write key"
    /\ WriteKey(n)
    /\ changed' = up /\ Goto(n, "start")
    /\ UNCHANGED <<settings, lock, port, task, mine, faults, damaged>>

\* A write that fails leaves the file as it was, if it could not be opened, or
\* torn.  The .crt may be whole by then and the .key not begun (the issuer's
\* certificate comes between them), or both whole (the .json comes last).
SaveResourceFails(n) ==
    /\ \/ /\ loc[n] = "write crt" /\ crt' \in {crt, Torn} /\ key' = key
          /\ damaged' = (damaged \/ crt' = Torn)
       \/ /\ loc[n] = "write key" /\ key' \in {key, Torn, mine[n]} /\ crt' = crt
          /\ damaged' = (damaged \/ key' # mine[n])
    /\ IF crt' = Torn
         THEN /\ serving' = [m \in Nodes |-> IF serving[m] = "none" THEN "none" ELSE "other"]
              /\ pinned' = {}
         ELSE UNCHANGED <<serving, pinned>>
    /\ changed' = IF crt' = crt /\ key' = key THEN changed ELSE up
    /\ Fault
    /\ mine' = [mine EXCEPT ![n] = None] /\ Goto(n, "start")
    /\ UNCHANGED <<settings, names, due, lock, port, task, up>>

\* The deferred startService.  When a certificate was obtained and saved,
\* checkCertFile has found the files; on an error there is nothing to load.
AfterStart(n) ==
    /\ mine' = [mine EXCEPT ![n] = None]
    /\ stopped' = stopped \ {n}
    /\ IF task[n] = "build" /\ mine[n] # None THEN Goto(n, "load") ELSE GiveUp(n)
    /\ UNCHANGED <<settings, files, lock, task, engine, changed, damaged>>

\* Mutant: the service is started again only after an order.
StartServiceAfterOrder(n) ==
    /\ loc[n] = "start"
    /\ service' = IF n \in stopped /\ mine[n] # None THEN "up" ELSE service
    /\ AfterStart(n)
    /\ UNCHANGED <<abandoned, faults>>

StartService(n) ==
    /\ loc[n] = "start"
    /\ service' = IF n \in stopped THEN "up" ELSE service
    /\ AfterStart(n)
    /\ UNCHANGED <<abandoned, faults>>

StartServiceFails(n) ==
    /\ loc[n] = "start" /\ n \in stopped
    /\ Fault /\ abandoned' = TRUE
    /\ AfterStart(n)
    /\ UNCHANGED service

-----------------------------------------------------------------------------
\* The process dies and is started again.  An ACME file being written may be torn.
Crash ==
    /\ Fault
    /\ crt' \in {crt} \cup (IF \E n \in Nodes : loc[n] = "write crt" THEN {Torn} ELSE {})
    /\ key' \in {key} \cup (IF \E n \in Nodes : loc[n] = "write key" THEN {Torn} ELSE {})
    /\ damaged' = (damaged \/ crt' = Torn \/ \E n \in Nodes : loc[n] \in {"crt", "write key"})
    /\ abandoned' = (abandoned \/ stopped # {})
    /\ stopped' = {} /\ lock' = {} /\ up' = {} /\ changed' = {}
    /\ loc' = [n \in Nodes |-> "down"]
    /\ task' = [n \in Nodes |-> "build"]
    /\ mine' = [n \in Nodes |-> None] /\ serving' = [n \in Nodes |-> "none"]
    /\ pinned' = IF crt' = crt THEN pinned ELSE {}
    /\ UNCHANGED <<settings, names, due, service>>

Step(n) ==
    \/ Load(n) \/ Lock(n) \/ Check(n) \/ SaveKey(n) \/ SaveCrt(n) \/ SaveFails(n)
    \/ Report(n) \/ ReportLost(n)
    \/ Exists(n) \/ StopService(n) \/ StopServiceFails(n) \/ Order(n) \/ OrderFails(n)
    \/ SaveResourceCrt(n) \/ SaveResourceKey(n) \/ SaveResourceFails(n)
    \/ StartService(n) \/ StartServiceFails(n)

Next ==
    \/ \E n \in Nodes : Build(n) \/ Rebuild(n) \/ Monitor(n) \/ Reload(n) \/ Step(n)
    \/ Age \/ Crash

\* A call goes on, file changes are noticed, and the monitor is a task of its own
\* that repeated builds do not keep from ticking.
Fairness ==
    \A n \in Nodes :
        /\ WF_vars(Step(n)) /\ WF_vars(Reload(n))
        /\ SF_vars(Monitor(n)) /\ SF_vars(Lock(n))

Spec == Init /\ [][Next]_vars /\ Fairness

-----------------------------------------------------------------------------
(***************************************************************************)
(* Properties                                                              *)
(***************************************************************************)

TypeOK ==
    /\ crt \in Files /\ key \in Files /\ names \in Names /\ due \in BOOLEAN
    /\ mine \in [Nodes -> Ids \cup {None}]
    /\ serving \in [Nodes -> {"none", "crt", "other"}] /\ pinned \subseteq Nodes
    /\ up \subseteq Nodes /\ changed \subseteq up /\ stopped \subseteq Nodes
    /\ lock = {n \in Nodes : loc[n] \in {"check", "key", "crt"}}
    /\ \A n \in Nodes : serving[n] # "none" => n \in up
    /\ stopped # {} => ~SelfSigned
    /\ faults \in 0..MaxFaults /\ events \in 0..MaxEvents

\* "Whatever reloads on the .crt change then finds the matching key"
\* (self_signed.go:103), whoever else saves and wherever the process died before.
ReloadFindsMatch == [][SelfSigned /\ crt' # crt => key' = crt']_vars

\* While nobody saves, the files are a pair, unless a save was cut short (a
\* self-signed one heals the files later) or two ACME saves overlapped.
PairAtRest ==
    (~damaged /\ \A n \in Nodes : loc[n] \notin {"key", "crt", "write crt", "write key"})
        => crt = key

\* What was stopped for a challenge runs again when the call is over, however it
\* ended (cert.go:103), unless starting it failed or the process died.
ServiceComesBack ==
    service = "down" => abandoned \/ stopped # {}

\* Both: what a save or a challenge leaves behind is whole, or the model's faults
\* and overlaps, which the code has no answer to, say why not.
NothingHalfDone == PairAtRest /\ ServiceComesBack

\* A certificate about to expire is replaced while a controller runs: always when
\* self-signed; an ACME one if it can be read and ServerName is its name.
Renewable == SelfSigned \/ (sameName /\ crt \in Ids)

ExpiringIsRenewed == [](due /\ Renewable => <>(~due \/ up = {} \/ ~Renewable))

\* Nodes that want the same names end up with the panel pinning the certificate
\* each serves, whichever of them made it and whatever was lost before.
PinsSettle ==
    SelfSigned => (<>[](\A m, n \in Nodes : want[m] = want[n])
                     => <>[](\A n \in up : serving[n] # "none" => serving[n] = "crt" /\ n \in pinned))
=============================================================================
