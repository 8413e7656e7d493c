------------------------------ MODULE Listener ------------------------------
(***************************************************************************)
(* What a client sees of a node, whatever chain of inbounds serves it: the *)
(* public port of one tag that is open or not, and the users that get      *)
(* through it.  It is the inbound of Reconcile.tla with its steps taken    *)
(* apart: AddNode opens the port with nobody admitted, only the user calls *)
(* change who is admitted, and RemoveNode shuts it.                        *)
(***************************************************************************)
CONSTANTS Tags, Users

VARIABLES
    call,       \* "none", "remove", "build" or "users": what the node is doing
    open,       \* the tag whose port accepts connections, or "none"
    admits      \* the users a connection to it may be of

vars == <<call, open, admits>>

Init ==
    /\ call = "none"
    /\ open \in Tags \cup {"none"}
    /\ admits \in SUBSET Users
    /\ open = "none" => admits = {}

\* The calls follow one another; each may be cut short by an error.
Proceed ==
    /\ call' \in {"none", "remove", "build", "users"}
    /\ UNCHANGED <<open, admits>>

Open ==
    /\ call = "build" /\ open = "none"
    /\ open' \in Tags /\ admits' = {}
    /\ call' \in {"build", "users"}

Shut ==
    /\ call = "remove"
    /\ open' = "none" /\ admits' = {}
    /\ call' \in {"remove", "build", "none"}

Change ==
    /\ call = "users" /\ open # "none"
    /\ admits' \in SUBSET Users
    /\ call' \in {"users", "none"}
    /\ UNCHANGED open

Next == Proceed \/ Open \/ Shut \/ Change

Spec == Init /\ [][Next]_vars
=============================================================================
