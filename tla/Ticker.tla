------------------------------- MODULE Ticker -------------------------------
(***************************************************************************)
(* What a Periodic (helper/scheduler/periodic.go) promises its owner,      *)
(* without timers, goroutines or locks.  The owner turns the ticker on and *)
(* off; each switch begins a new epoch.  While it is on, executions of     *)
(* the current epoch follow one another without ever overlapping and       *)
(* without ever ceasing.  Once it is off, an execution that had been       *)
(* committed to may still be under way, but no other execution of that     *)
(* epoch begins.                                                           *)
(***************************************************************************)
EXTENDS Naturals

VARIABLES
    on,         \* the owner wants executions
    epoch,      \* number of switches so far
    inflight    \* epochs with an execution under way

vars == <<on, epoch, inflight>>

Init ==
    /\ on = FALSE
    /\ epoch = 0
    /\ inflight = {}

TurnOn ==
    /\ ~on
    /\ on' = TRUE
    /\ epoch' = epoch + 1
    /\ UNCHANGED inflight

TurnOff ==
    /\ on' = FALSE
    /\ epoch' = epoch + 1
    /\ UNCHANGED inflight

Begin ==
    /\ on
    /\ epoch \notin inflight
    /\ inflight' = inflight \cup {epoch}
    /\ UNCHANGED <<on, epoch>>

End(e) ==
    /\ e \in inflight
    /\ inflight' = inflight \ {e}
    /\ UNCHANGED <<on, epoch>>

Next ==
    \/ TurnOn
    \/ TurnOff
    \/ Begin
    \/ \E e \in inflight : End(e)

(***************************************************************************)
(* The safety half is what the proof module refines; the fairness half     *)
(* says that a ticker left on begins again and again.                      *)
(***************************************************************************)
SafeSpec == Init /\ [][Next]_vars

Spec == SafeSpec /\ WF_vars(Begin)
=============================================================================
