-------------------------------- MODULE Shim --------------------------------
(***************************************************************************)
(* The host side of ONE container: the shim process of each start of it,   *)
(* the container's init process, and the two names every start shares:     *)
(* the socket path /run/litcontainer/shim/<id>/shim.sock and the runtime   *)
(* state directory that runc keeps for the id.                             *)
(*                                                                         *)
(* A generation is one start of the container.  The names do not carry the *)
(* generation, the processes do, and what one generation does to a name is *)
(* what this module is about.  The daemon's half is module Lifecycle.      *)
(***************************************************************************)
EXTENDS Naturals

CONSTANT MaxGen         \* bound: how many generations a behaviour may start

ASSUME MaxGenAssumption == MaxGen \in Nat \ {0}

Gens == 1 .. MaxGen

VARIABLES
    shim,       \* [Gens -> ShimStates], the shim process of each generation
    init,       \* [Gens -> InitStates], the container's init process
    doomed,     \* generations whose init a Stop handler is going to SIGKILL
    sock,       \* generation listening behind the socket path, 0 = no file
    rstate      \* generation recorded in runc's state.json, 0 = no file

shimVars == <<shim, init, doomed, sock, rstate>>

\* "dismissed": Delete was received, "closing": the listener is closed.
ShimStates == {"none", "up", "dismissed", "closing", "dead", "lost"}
InitStates == {"none", "running", "exited"}

ShimTypeOK ==
    /\ shim \in [Gens -> ShimStates]
    /\ init \in [Gens -> InitStates]
    /\ doomed \subseteq Gens
    /\ sock \in {0} \cup Gens
    /\ rstate \in {0} \cup Gens

ShimInit ==
    /\ shim = [g \in Gens |-> "none"]
    /\ init = [g \in Gens |-> "none"]
    /\ doomed = {}
    /\ sock = 0
    /\ rstate = 0

\* Dialling the socket path reaches the shim of generation g.
Dials(g) == g \in Gens /\ sock = g /\ shim[g] \in {"up", "dismissed"}

Reachable == \E g \in Gens : Dials(g)

\* A request to g may end without an answer: its shim is lost, or it closed
\* its listener with the connection not yet accepted.
Hangup(g) == shim[g] \in {"closing", "dead", "lost"}

-----------------------------------------------------------------------------
(* What the daemon's startShim brings about.                               *)

\* The shim replaces the socket file, runc creates and starts init, and the
\* shim reports READY.
SpawnReady(g) ==
    /\ shim' = [shim EXCEPT ![g] = "up"]
    /\ init' = [init EXCEPT ![g] = "running"]
    /\ sock' = g
    /\ rstate' = g
    /\ UNCHANGED doomed

\* No READY because the shim failed before runc created init.  The daemon
\* removes the shim directory, the socket in it included.
SpawnRefused(g) ==
    /\ shim' = [shim EXCEPT ![g] = "dead"]
    /\ sock' = 0
    /\ UNCHANGED <<init, doomed, rstate>>

\* No READY within the deadline although init is already created: the daemon
\* SIGKILLs the shim and removes its directory; init and runc's state stay.
SpawnTimeout(g) ==
    /\ shim' = [shim EXCEPT ![g] = "dead"]
    /\ init' = [init EXCEPT ![g] = "running"]
    /\ sock' = 0
    /\ rstate' = g
    /\ UNCHANGED doomed

-----------------------------------------------------------------------------
(* Requests the shim serves.                                               *)

\* Stop: unless init has exited, signal it and SIGKILL it after the timeout.
HandleStop(g) ==
    /\ doomed' = doomed \cup {h \in {g} : init[h] = "running"}
    /\ UNCHANGED <<shim, init, sock, rstate>>

\* Kill: a signal may or may not be one that ends init; a fatal one does.
HandleKill(g) ==
    \/ HandleStop(g)
    \/ UNCHANGED shimVars

\* Delete: close deleteCh once and answer; nothing is waited for.
HandleDelete(g) ==
    /\ shim' = [shim EXCEPT ![g] = "dismissed"]
    /\ UNCHANGED <<init, doomed, sock, rstate>>

-----------------------------------------------------------------------------
(* Steps of the processes themselves.                                      *)

\* init ends, on its own or because of a signal; the shim (its subreaper)
\* reaps it and closes doneCh.
InitExit(g) ==
    /\ init[g] = "running"
    /\ init' = [init EXCEPT ![g] = "exited"]
    /\ doomed' = doomed \ {g}
    /\ UNCHANGED <<shim, sock, rstate>>

\* Mutant: the shim does not wait for Delete.
ShutdownAtOnce(g) ==
    /\ shim[g] \in {"up", "dismissed"}
    /\ init[g] = "exited"
    /\ shim' = [shim EXCEPT ![g] = "closing"]
    /\ sock' = 0
    /\ UNCHANGED <<init, doomed, rstate>>

\* After init's exit and a Delete: Shutdown closes the listener, and closing
\* a unix listener unlinks its path, whoever has bound that path since.
Shutdown(g) ==
    /\ shim[g] = "dismissed"
    /\ init[g] = "exited"
    /\ shim' = [shim EXCEPT ![g] = "closing"]
    /\ sock' = 0
    /\ UNCHANGED <<init, doomed, rstate>>

\* `runc delete` without --force keeps the state of a live pid, dies of a nil
\* spec when the bundle is gone, and removes the state otherwise; then the socket
\* path and the shim directory are removed.
ShimExit(g, bundle) ==
    /\ shim[g] = "closing"
    /\ shim' = [shim EXCEPT ![g] = "dead"]
    /\ rstate' = IF rstate \in Gens /\ (init[rstate] = "running" \/ ~bundle)
                 THEN rstate ELSE 0
    /\ sock' = 0
    /\ UNCHANGED <<init, doomed>>

\* The shim process is lost (OOM kill, operator) and leaves its files behind.
ShimLost(g) ==
    /\ shim[g] \in {"up", "dismissed", "closing"}
    /\ shim' = [shim EXCEPT ![g] = "lost"]
    /\ doomed' = doomed \ {g}
    /\ UNCHANGED <<init, sock, rstate>>
=============================================================================
