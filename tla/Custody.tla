------------------------------ MODULE Custody -------------------------------
(***************************************************************************)
(* What the daemon promises about the cleanup of one container: from the   *)
(* moment a start takes it in hand until its end is recorded there is      *)
(* exactly one who answers for it, first the start and then the waiter     *)
(* goroutine it leaves behind; a daemon that comes back answers for what   *)
(* it finds Running.  How locks, channels and shims bring this about is    *)
(* module Lifecycle's affair (ImplementsCustody there).                    *)
(***************************************************************************)
VARIABLES
    online,     \* the daemon serves requests
    state,      \* the container's state in its memory
    owner       \* who will clean up

custodyVars == <<online, state, owner>>

Init == online = TRUE /\ state = "created" /\ owner = "nobody"

\* A start takes the container, never a running one.
Take ==
    /\ online /\ owner = "nobody"
    /\ state # "running"
    /\ owner' = "start"
    /\ UNCHANGED <<online, state>>

\* A start that failed has cleaned up itself.
GiveUp ==
    /\ online /\ owner = "start"
    /\ state # "running"
    /\ owner' = "nobody"
    /\ UNCHANGED <<online, state>>

Mark ==
    /\ online /\ owner = "start"
    /\ state # "running"
    /\ state' = "running"
    /\ UNCHANGED <<online, owner>>

HandOver ==
    /\ online /\ owner = "start"
    /\ state = "running"
    /\ owner' = "waiter"
    /\ UNCHANGED <<online, state>>

Finish ==
    /\ online /\ owner = "waiter"
    /\ state = "running"
    /\ state' = "stopped"
    /\ owner' = "nobody"
    /\ UNCHANGED online

\* What was in memory is gone with the process.
Die == online /\ online' = FALSE /\ state' = "unknown" /\ owner' = "nobody"

Recover ==
    /\ ~online /\ online' = TRUE
    /\ \/ state' = "running" /\ owner' = "waiter"
       \/ state' \in {"created", "stopped"} /\ owner' = "nobody"

Next == Take \/ GiveUp \/ Mark \/ HandOver \/ Finish \/ Die \/ Recover

Spec == Init /\ [][Next]_custodyVars
=============================================================================
