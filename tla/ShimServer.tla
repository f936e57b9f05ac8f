----------------------------- MODULE ShimServer ------------------------------
(***************************************************************************)
(* The program that owns one container through its life.  Driver "shim" is *)
(* cmd/litcontainer-shim/main.go with its server (internal/shim/server.go):*)
(* runc create, runc start, READY; then requests over the socket, each     *)
(* connection with a goroutine that the WaitGroup counts; then, when init  *)
(* is reaped and Delete was asked for, shutdown and runc delete.  Driver   *)
(* "run" is the foreground command of internal/cli/runtime.go.             *)
(*                                                                         *)
(* Exec sessions are followed from the output of the command to what the   *)
(* client reads: two copiers put frames on the connection, the exit frame  *)
(* comes last (handleExec, Client.Exec, ExecContainer, DemuxExec).  A      *)
(* stream carries at most one chunk; module LogStream has the framing.     *)
(***************************************************************************)
EXTENDS Runc, FiniteSets

CONSTANTS
    Conns,          \* connections to the socket in a behaviour
    Sessions,       \* those that ask for an exec
    Requests,       \* what the others ask for
    Drivers,
    MaxWire         \* bound: frames the socket buffers

ASSUME ShimServerAssumption ==
    /\ Sessions \subseteq Conns
    /\ Requests \subseteq {"wait", "stop", "kill", "delete"}
    /\ Drivers \subseteq {"shim", "run"}
    /\ MaxWire \in Nat \ {0}

VARIABLES
    driver,     \* which of the two programs this is
    main,       \* where its main goroutine is
    done,       \* doneCh is closed: the exit is recorded
    deleteCh,   \* deleteCh is closed
    conn,       \* what the handler of each connection is doing
    proc,       \* the exec session's process
    wrote,      \* the streams it has written its chunk to
    sent,       \* those whose chunk a copier has framed
    wire,       \* the frames on the connection
    got,        \* the streams whose chunk the client has
    result      \* what the client's DemuxExec returned

srvVars == <<done, deleteCh, conn, proc, wrote, sent, wire, got, result>>
execVars == <<proc, wrote, sent, wire, got, result>>
vars == <<runcVars, driver, main, srvVars>>

Streams == {"out", "err"}
Handling == {"reading", "wait", "stop", "exec"}     \* counted by wg

TypeOK ==
    /\ RuncTypeOK
    /\ driver \in Drivers
    /\ main \in {"create", "start", "abort", "serve", "shutdown", "delete",
                 "wait", "cleanup", "end", "killed"}
    /\ {done, deleteCh} \subseteq BOOLEAN
    /\ conn \in [Conns -> Handling \cup {"none", "backlog", "closed"}]
    /\ proc \in [Conns -> {"none", "runs", "ended"}]
    /\ {wrote, sent, got} \subseteq [Conns -> SUBSET Streams]
    /\ \A c \in Conns : Len(wire[c]) <= MaxWire
    /\ result \in [Conns -> {"none", "code", "lost"}]

Init ==
    /\ RuncInit
    /\ driver \in Drivers /\ main = "create"
    /\ done = FALSE /\ deleteCh = FALSE
    /\ conn = [c \in Conns |-> "none"] /\ proc = conn /\ result = conn
    /\ wrote = [c \in Conns |-> {}] /\ sent = wrote /\ got = wrote
    /\ wire = [c \in Conns |-> <<>>]

Main(from, to) == main = from /\ main' = to
Is(d) == driver = d /\ UNCHANGED driver

-----------------------------------------------------------------------------
(* The main goroutine.                                                     *)

\* runcCreate returned; readInitPid finds what create wrote.  A failed create
\* ends the program, whose own cleanup is create's.
AfterCreate ==
    /\ \/ create = "done" /\ Main("create", "start") /\ StartLoad("main")
       \/ create = "failed" /\ Main("create", "end") /\ UNCHANGED runcVars
    /\ UNCHANGED <<driver, srvVars>>

\* runcStart returned: READY, and the server's goroutines are launched.
ShimStarted ==
    /\ Is("shim") /\ Main("start", "serve")
    /\ Goes("main", "ok", "idle")
    /\ UNCHANGED <<Setup, host, srvVars>>

\* runcStart failed: `delete` without force, whose result is ignored.
ShimAborts ==
    /\ Is("shim") /\ Main("start", "abort")
    /\ cmd["main"] = "error"
    /\ \/ /\ disk = "none" \/ init \in Present
          /\ UNCHANGED cmd
       \/ /\ disk # "none" /\ init \notin Present
          /\ cmd' = [cmd EXCEPT !["main"] = "cleanup"]
    /\ UNCHANGED <<Setup, host, srvVars>>

ShimAborted ==
    /\ Is("shim") /\ Main("abort", "end") /\ cmd["main"] \in Idle
    /\ UNCHANGED <<runcVars, srvVars>>

\* Mutant: the exit is reported when init is still a zombie.
DoneUnreaped ==
    /\ Is("shim") /\ main = "serve" /\ UNCHANGED main
    /\ init = "zombie" /\ ~done
    /\ done' = TRUE
    /\ UNCHANGED <<runcVars, deleteCh, conn, execVars>>

\* WaitInit: wait4 reaps init, setExit closes doneCh.  wait4 has no other way
\* to fail than for a pid that is not a child of the shim, and init is one from
\* create's end on: without setSubreaper the shim does not come this far.
WaitInit ==
    /\ Is("shim") /\ main = "serve" /\ UNCHANGED main
    /\ init = "zombie" /\ init' = "gone" /\ done' = TRUE
    /\ UNCHANGED <<Setup, cmd, fifo, byte, disk, cgroup, member, bundle>>
    /\ UNCHANGED <<deleteCh, conn, execVars>>

\* <-Done, <-DeleteCh, then Shutdown closes the listener: what waits in the
\* backlog is reset.
BeginShutdown ==
    /\ Is("shim") /\ Main("serve", "shutdown")
    /\ done /\ deleteCh
    /\ conn' = [c \in Conns |-> IF conn[c] = "backlog" THEN "closed" ELSE conn[c]]
    /\ UNCHANGED <<runcVars, done, deleteCh, execVars>>

\* Shutdown's wg.Wait returned; runc delete.
ShutDown ==
    /\ Is("shim") /\ Main("shutdown", "delete")
    /\ \A c \in Conns : conn[c] \notin Handling
    /\ DeleteLoad("main", FALSE)
    /\ UNCHANGED srvVars

ShimEnds ==
    /\ Is("shim") /\ Main("delete", "end") /\ cmd["main"] \in Idle
    /\ UNCHANGED <<runcVars, srvVars>>

\* The daemon waits five seconds for READY, then kills the shim; the runc it
\* had started goes on by itself.
Deadline ==
    /\ "deadline" \in Faults
    /\ Is("shim") /\ main \in {"create", "start", "abort"} /\ main' = "killed"
    /\ UNCHANGED <<runcVars, srvVars>>

\* Zombies of a program that has ended are reaped by process 1.
Adopt ==
    /\ main \in {"end", "killed"} /\ create \in {"done", "failed"}
    /\ InitGoes("zombie", "gone") /\ UNCHANGED <<byte, driver, main, srvVars>>

\* `run`: as create and start, in one process that is init's parent.
RunStarted ==
    /\ Is("run") /\ Main("start", "wait") /\ cmd["main"] = "ok"
    /\ UNCHANGED <<runcVars, srvVars>>

\* initCmd.Wait returned: exit code 0, and the container is deleted; else, or
\* if start failed, every registered cleanup runs.
RunWaited ==
    /\ Is("run")
    /\ \/ /\ Main("wait", "delete") /\ init = "zombie" /\ init' = "gone"
          /\ cmd' = [cmd EXCEPT !["main"] = IF disk = "none" THEN "error"
                                            ELSE "cleanup"]
          /\ UNCHANGED create
       \/ /\ Main("wait", "cleanup") /\ init = "zombie" /\ init' = "gone"
          /\ create' = "undo" /\ UNCHANGED cmd
       \/ /\ Main("start", "cleanup") /\ cmd["main"] = "error"
          /\ create' = "undo" /\ UNCHANGED <<cmd, init>>
    /\ UNCHANGED <<undo, boot, hooked, fifo, byte, disk, cgroup, member, bundle>>
    /\ UNCHANGED srvVars

RunEnds ==
    /\ Is("run")
    /\ \/ Main("delete", "end") /\ cmd["main"] \in Idle
       \/ Main("cleanup", "end") /\ create = "failed"
    /\ UNCHANGED <<runcVars, srvVars>>

\* ContainerRemove deletes the bundle of a container that is marked Stopped,
\* which it is from before the daemon's Delete.
RemoveBundle ==
    /\ "bundle" \in Faults /\ deleteCh /\ done
    /\ bundle /\ bundle' = FALSE
    /\ UNCHANGED <<Setup, cmd, init, fifo, byte, disk, cgroup, member>>
    /\ UNCHANGED <<driver, main, srvVars>>

Driver ==
    \/ AfterCreate \/ ShimStarted \/ ShimAborts \/ ShimAborted \/ WaitInit
    \/ BeginShutdown \/ ShutDown \/ ShimEnds \/ RunStarted \/ RunWaited \/ RunEnds

-----------------------------------------------------------------------------
(* Connections.                                                            *)

Conn(c, from, to) == conn[c] = from /\ conn' = [conn EXCEPT ![c] = to]
Listening == driver = "shim" /\ main = "serve"

Dial(c) ==
    /\ Listening
    /\ Conn(c, "none", "backlog")
    /\ UNCHANGED <<runcVars, driver, main, done, deleteCh, execVars>>

\* Serve: Accept, wg.Add, a goroutine.
Accept(c) ==
    /\ Listening
    /\ Conn(c, "backlog", "reading")
    /\ UNCHANGED <<runcVars, driver, main, done, deleteCh, execVars>>

Kill == init' = IF init \in Alive THEN "zombie" ELSE init
HostButInit == <<fifo, byte, disk, cgroup, member, bundle>>

\* handleConn has read the request.  State, kill and delete are answered at
\* once, as is an exec that comes too late, and the connection is closed.
Request(c, r) ==
    /\ r \in IF c \in Sessions THEN {"exec"} ELSE Requests
    /\ r = "exec" => done
    /\ Conn(c, "reading",
            IF r = "wait" \/ (r = "stop" /\ ~done) THEN r ELSE "closed")
    /\ IF r = "kill" /\ ~done THEN Kill ELSE UNCHANGED init
    /\ deleteCh' = (deleteCh \/ r = "delete")
    /\ UNCHANGED <<Setup, cmd, HostButInit, driver, main, done, execVars>>

\* handleExec while init has not ended: the command is started and the client
\* told; or the pipes or the start fail; or the client has gone when it is to
\* be told, and the process is killed: the one that joins the namespaces,
\* perhaps after it has forked the command, which then goes on by itself.
Exec(c) ==
    /\ c \in Sessions /\ ~done
    /\ \/ Conn(c, "reading", "exec") /\ proc' = [proc EXCEPT ![c] = "runs"]
          /\ UNCHANGED result
       \/ Conn(c, "reading", "closed") /\ UNCHANGED <<proc, result>>
       \/ /\ Conn(c, "reading", "closed")
          /\ proc' \in {[proc EXCEPT ![c] = p] : p \in {"runs", "ended"}}
          /\ result' = [result EXCEPT ![c] = "lost"]
    /\ UNCHANGED <<runcVars, driver, main, done, deleteCh>>
    /\ UNCHANGED <<wrote, sent, wire, got>>

\* handleWait and handleStop answer when doneCh is closed.
Answer(c) ==
    /\ done
    /\ Conn(c, "wait", "closed") \/ Conn(c, "stop", "closed")
    /\ UNCHANGED <<runcVars, driver, main, done, deleteCh, execVars>>

\* handleStop's SIGTERM, or its SIGKILL after the time-out.
StopKills(c) ==
    /\ conn[c] = "stop" /\ init \in Alive
    /\ Kill
    /\ UNCHANGED <<Setup, cmd, HostButInit, driver, main, srvVars>>

\* The client goes away before it has sent a request, or from a session.
Hangup(c) ==
    /\ \/ Conn(c, "reading", "closed") /\ UNCHANGED execVars
       \/ /\ conn[c] = "exec" /\ result[c] = "none"
          /\ result' = [result EXCEPT ![c] = "lost"]
          /\ UNCHANGED <<conn, proc, wrote, sent, wire, got>>
    /\ UNCHANGED <<runcVars, driver, main, done, deleteCh>>

-----------------------------------------------------------------------------
(* Exec.                                                                   *)

NotExec == <<runcVars, driver, main, done, deleteCh>>

ProcWrites(c, s) ==
    /\ proc[c] = "runs" /\ s \notin wrote[c]
    /\ wrote' = [wrote EXCEPT ![c] = @ \cup {s}]
    /\ UNCHANGED <<NotExec, conn, proc, sent, wire, got, result>>

\* By itself, or with the pid namespace when init is dead.
ProcEnds(c) ==
    /\ proc[c] = "runs"
    /\ proc' = [proc EXCEPT ![c] = "ended"]
    /\ UNCHANGED <<NotExec, conn, wrote, sent, wire, got, result>>

\* Mutant: a write that the client's absence fails is tried again.
CopyStuck(c, s) ==
    /\ conn[c] = "exec" /\ s \in wrote[c] \ sent[c]
    /\ sent' = [sent EXCEPT ![c] = @ \cup {s}]
    /\ result[c] = "none" /\ Len(wire[c]) < MaxWire
    /\ wire' = [wire EXCEPT ![c] = Append(@, s)]
    /\ UNCHANGED <<NotExec, conn, proc, wrote, got, result>>

\* A copier reads a chunk and writes the frame; with the client gone the write
\* fails and the chunk is lost.
Copy(c, s) ==
    /\ conn[c] = "exec" /\ s \in wrote[c] \ sent[c]
    /\ sent' = [sent EXCEPT ![c] = @ \cup {s}]
    /\ \/ /\ result[c] = "none" /\ Len(wire[c]) < MaxWire
          /\ wire' = [wire EXCEPT ![c] = Append(@, s)]
       \/ result[c] = "lost" /\ UNCHANGED wire
    /\ UNCHANGED <<NotExec, conn, proc, wrote, got, result>>

\* Mutant: wg.Add(1), only one of the copiers is waited for.
WriteExitEarly(c) ==
    /\ proc[c] = "ended" /\ "out" \in sent[c] \cup (Streams \ wrote[c])
    /\ Conn(c, "exec", "closed")
    /\ \/ /\ result[c] = "none" /\ Len(wire[c]) < MaxWire
          /\ wire' = [wire EXCEPT ![c] = Append(@, "exit")]
       \/ result[c] = "lost" /\ UNCHANGED wire
    /\ UNCHANGED <<NotExec, proc, wrote, sent, got, result>>

\* Both copiers have met the end of their stream (wg.Wait), cmd.Wait has
\* returned: the exit frame, and the connection is closed.
WriteExit(c) ==
    /\ proc[c] = "ended" /\ sent[c] = wrote[c]
    /\ Conn(c, "exec", "closed")
    /\ \/ /\ result[c] = "none" /\ Len(wire[c]) < MaxWire
          /\ wire' = [wire EXCEPT ![c] = Append(@, "exit")]
       \/ result[c] = "lost" /\ UNCHANGED wire
    /\ UNCHANGED <<NotExec, proc, wrote, sent, got, result>>

\* DemuxExec: the frames in order, until the exit frame gives the code.
Receive(c) ==
    /\ wire[c] # <<>> /\ result[c] = "none"
    /\ wire' = [wire EXCEPT ![c] = Tail(@)]
    /\ IF Head(wire[c]) = "exit"
       THEN result' = [result EXCEPT ![c] = "code"] /\ UNCHANGED got
       ELSE got' = [got EXCEPT ![c] = @ \cup {Head(wire[c])}] /\ UNCHANGED result
    /\ UNCHANGED <<NotExec, conn, proc, wrote, sent>>

-----------------------------------------------------------------------------
Runtime == (Create \/ CreateFails \/ InitStep \/ InitFails \/ UserExit)
           /\ UNCHANGED <<driver, main, srvVars>>
Commands == (Operator \/ \E p \in Callers : Command(p))
            /\ UNCHANGED <<driver, main, srvVars>>

Asks(c) == Exec(c) \/ \E r \in Requests \cup {"exec"} : Request(c, r)
Handler(c) == Accept(c) \/ Answer(c) \/ StopKills(c) \/ WriteExit(c)
              \/ \E s \in Streams : Copy(c, s)

Next ==
    \/ Runtime \/ Commands \/ Driver \/ Adopt
    \/ Deadline \/ RemoveBundle
    \/ \E c \in Conns :
          \/ Dial(c) \/ Hangup(c) \/ Handler(c) \/ ProcEnds(c) \/ Receive(c)
          \/ Asks(c)
          \/ \E s \in Streams : ProcWrites(c, s)
    \/ main \in {"end", "killed"} /\ UNCHANGED vars     \* the program has ended

\* The scheduler runs every process and goroutine; the kernel kills what is in
\* a dead init's pid namespace; a client that has dialled sends its request
\* and reads its stream, or goes away.  No command is obliged to end, no
\* operator to act, nothing to fail.
Fairness ==
    /\ WF_vars((Create \/ CreateFails) /\ UNCHANGED <<driver, main, srvVars>>)
    /\ WF_vars((InitStep \/ InitFails) /\ UNCHANGED <<driver, main, srvVars>>)
    /\ \A p \in Callers : WF_vars(Command(p) /\ UNCHANGED <<driver, main, srvVars>>)
    /\ WF_vars(Driver)
    /\ \A c \in Conns :
          /\ WF_vars(Handler(c))
          /\ WF_vars(Receive(c))
          /\ WF_vars(Asks(c) \/ Hangup(c))
          /\ WF_vars(init \notin Alive /\ ProcEnds(c))

Spec == Init /\ [][Next]_vars /\ Fairness
-----------------------------------------------------------------------------
(* Properties.                                                             *)

\* The container's command runs only inside its cgroup, with its limits set
\* and its hooks run, even if an operator starts it while create is at work:
\* setupContainer sends the bootstrap after all that.
UserIsConfined == init = "user" => member /\ hooked

\* A live init is on record, so that somebody can delete it; setupContainer's
\* cleanups and deleteContainer remove state.json only when init is dead.
LiveInitIsRecorded ==
    init \in Alive /\ create \notin {"fork", "state", "undo"} => disk # "none"

\* Gone: no process, no state.json, no fifo, no cgroup.
NothingLeft == init \notin Alive /\ disk = "none" /\ ~fifo /\ ~cgroup

\* A failed create, and a failed `run`, leave nothing on the host: the cgroup
\* can only be removed because the cleanups kill init first.
FailedCreateLeavesNothing ==
    create = "failed" /\ cmd["op"] = "idle" => NothingLeft

\* When the program has ended after init's exit nothing is left, unless the
\* bundle was removed meanwhile: by the time the runtime's delete looks, the
\* zombie has been reaped.
EndLeavesNothing ==
    main = "end" /\ (done \/ driver = "run") /\ bundle /\ cmd["op"] = "idle" =>
        NothingLeft

\* The client of an exec has all the output when it gets the exit code.
ExecComplete == \A c \in Conns : result[c] = "code" => got[c] = wrote[c]

\* The start of a container returns, unless its init dies first or is started
\* by the operator, whose command found the status "created" too.
StartReturns ==
    cmd["main"] = "blocked" ~>
        cmd["main"] # "blocked" \/ init \notin {"forked", "open", "ready"}

\* A shim that was told to delete goes away: every handler it waits for ends.
ShutdownReturns == main = "shutdown" ~> main = "end"

\* main.go's comment: init has been created, so its state must be deleted.
FailedStartIsDeleted ==
    driver = "shim" /\ main = "end" /\ create = "done" => disk = "none"
=============================================================================
