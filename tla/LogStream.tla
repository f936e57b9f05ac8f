------------------------------ MODULE LogStream ------------------------------
(***************************************************************************)
(* The log of one container, from the pipes of its init through the shim's *)
(* forwarders, which frame it into container.log, to clients of the logs   *)
(* request, which take the frames apart again (internal/stdcopy/           *)
(* stdcopy.go, cmd/litcontainer-shim/main.go, internal/daemon/container.go,*)
(* internal/client/container.go).  The log is appended to over all runs of *)
(* the container, each with a shim of its own.                             *)
(*                                                                         *)
(* The log is a sequence of headers and bytes; what a write that fails, or *)
(* is cut off, has written of a header or payload is not followed.         *)
(***************************************************************************)
EXTENDS Naturals, SequencesExt

CONSTANTS
    Requests,       \* logs requests
    Streams,        \* what a container writes to: stdout and stderr
    Chunk,          \* items that one read of the log returns at most
    MaxBytes,       \* bound: bytes that the runs say together
    MaxRuns         \* bound: runs of the container

ASSUME LogStreamAssumption ==
    /\ {Chunk, MaxBytes, MaxRuns} \subseteq Nat \ {0}
    /\ Streams # {}

Runs == 1 .. MaxRuns
Pipes == Runs \X Streams         \* the two pipes of each run

VARIABLES
    run,        \* the present run, 0 before the first
    init,       \* of each run: "none", "running", "exited"
    shim,       \* of each run: "none", "up", "deleted" (told to go), "gone"
    waiter,     \* of each run: what the daemon's waiter is about to do
    named,      \* the socket's path leads to the present shim
    said,       \* bytes init has written to each pipe
    fwd,        \* forwarder of each pipe: where it is, first and last byte held
    log,        \* container.log
    state,      \* Config.State
    req,        \* each logs request: where it is, whether it follows, what it
                \* has sent; history: what the log held when the state it saw
                \* was set
    stopLen,    \* history: length of the log when Stopped was last set
    torn        \* history: a write to the log has failed in a frame, or a shim
                \* went, or a run began, while a shim was in the middle of a
                \* frame or might still begin one

daemon == <<waiter, named, state, stopLen>>
vars == <<run, init, shim, said, fwd, log, daemon, req, torn>>

Header(s, n) == [stream |-> s, len |-> n]
Byte(r, s, i) == [run |-> r, of |-> s, num |-> i]
IsHeader(x) == "len" \in DOMAIN x

TypeOK ==
    /\ run \in 0 .. MaxRuns
    /\ init \in [Runs -> {"none", "running", "exited"}]
    /\ shim \in [Runs -> {"none", "up", "deleted", "gone"}]
    /\ waiter \in [Runs -> {"none", "dial", "wait", "mark", "delete", "done"}]
    /\ named \in BOOLEAN
    /\ said \in [Pipes -> 0 .. MaxBytes]
    /\ fwd \in [Pipes ->
               [at : {"read", "lock", "payload", "done"}, done : 0 .. MaxBytes, upto : 0 .. MaxBytes]]
    /\ \A x \in ToSet(log) :
         \/ x \in [stream : Streams, len : 1 .. MaxBytes]
         \/ x \in [run : Runs, of : Streams, num : 1 .. MaxBytes]
    /\ state \in {"Created", "Running", "Stopped"}
    /\ req \in [Requests -> [at : {"idle", "read", "check", "drain", "done"}, follow : BOOLEAN, pos : Nat, owed : Nat]]
    /\ stopLen \in 0 .. Len(log) /\ torn \in BOOLEAN

Init ==
    /\ run = 0
    /\ init = [r \in Runs |-> "none"] /\ shim = init /\ waiter = init
    /\ named = FALSE
    /\ said = [p \in Pipes |-> 0]
    /\ fwd = [p \in Pipes |-> [at |-> "read", done |-> 0, upto |-> 0]]
    /\ log = <<>> /\ state = "Created"
    /\ req = [q \in Requests |-> [at |-> "idle", follow |-> FALSE, pos |-> 0, owed |-> 0]]
    /\ stopLen = 0 /\ torn = FALSE

Closed == [at |-> "done", done |-> 0, upto |-> 0]
Locked(r) == \E p \in Pipes : p[1] = r /\ fwd[p].at = "payload"
Alive(r) == shim[r] \in {"up", "deleted"}

-----------------------------------------------------------------------------
(* A run: the daemon's start and waiter, init, and the end of the shim.  (A *)
(* start that fails, and a daemon that dies, are module Lifecycle's.)       *)

\* opMu excludes a start while another has not marked the container.  An
\* earlier shim may not have gone yet; its forwarders and the new ones then
\* write frames under different mutexes.
Start ==
    /\ run < MaxRuns /\ state # "Running" /\ (run > 0 => waiter[run] # "none")
    /\ run' = run + 1 /\ named' = TRUE
    /\ init' = [init EXCEPT ![run + 1] = "running"]
    /\ shim' = [shim EXCEPT ![run + 1] = "up"]
    /\ torn' = (torn \/ \E p \in Pipes : Alive(p[1]) /\ fwd[p].at # "done")
    /\ UNCHANGED <<said, fwd, log, waiter, state, stopLen, req>>

\* READY was read; what init wrote before is in the log while the state still
\* says Created or Stopped.
MarkRunning ==
    /\ run > 0 /\ waiter[run] = "none"
    /\ state' = "Running" /\ waiter' = [waiter EXCEPT ![run] = "dial"]
    /\ UNCHANGED <<run, init, shim, said, fwd, log, named, stopLen, req, torn>>

Say(p) ==
    /\ init[p[1]] = "running" /\ SumFunction(said) < MaxBytes
    /\ said' = [said EXCEPT ![p] = @ + 1]
    /\ UNCHANGED <<run, init, shim, fwd, log, daemon, req, torn>>

Exit(r) ==
    /\ init[r] = "running" /\ init' = [init EXCEPT ![r] = "exited"]
    /\ UNCHANGED <<run, shim, said, fwd, log, daemon, req, torn>>

\* The waiter dials the socket and gets its answer when init has exited; if an
\* earlier shim has unlinked the path, it gives up at once.
Wait(r) ==
    /\ \/ waiter[r] = "dial" /\ waiter' = [waiter EXCEPT ![r] = IF named THEN "wait" ELSE "mark"]
       \/ waiter[r] = "wait" /\ init[r] = "exited" /\ waiter' = [waiter EXCEPT ![r] = "mark"]
    /\ UNCHANGED <<run, init, shim, said, fwd, log, named, state, stopLen, req, torn>>

\* cleanupContainer.
MarkStopped(r) ==
    /\ waiter[r] = "mark" /\ waiter' = [waiter EXCEPT ![r] = "delete"]
    /\ state' = "Stopped" /\ stopLen' = Len(log)
    /\ UNCHANGED <<run, init, shim, said, fwd, log, named, req, torn>>

\* Delete goes to whoever listens behind the path, a later run's shim included.
Delete(r) ==
    /\ waiter[r] = "delete" /\ waiter' = [waiter EXCEPT ![r] = "done"]
    /\ shim' = IF named /\ shim[run] = "up" THEN [shim EXCEPT ![run] = "deleted"] ELSE shim
    /\ UNCHANGED <<run, init, said, fwd, log, named, state, stopLen, req, torn>>

\* main returns without waiting for the forwarders: what they hold and what is
\* still in the pipes is lost, be it the payload of a header already written.
ShimEnds(r) ==
    /\ shim[r] = "deleted" /\ init[r] = "exited"
    /\ shim' = [shim EXCEPT ![r] = "gone"] /\ named' = FALSE
    /\ torn' = (torn \/ Locked(r))
    /\ fwd' = [p \in Pipes |-> IF p[1] = r THEN Closed ELSE fwd[p]]
    /\ UNCHANGED <<run, init, said, log, waiter, state, stopLen, req>>

-----------------------------------------------------------------------------
(* The forwarders, two goroutines of the shim that share one Writer.mu. *)

\* io.Copy takes what the pipe holds, or ends once it is closed.
Forward(p) ==
    /\ Alive(p[1]) /\ fwd[p].at = "read"
    /\ \/ /\ fwd[p].done < said[p]
          /\ fwd' = [fwd EXCEPT ![p] = [@ EXCEPT !.at = "lock", !.upto = said[p]]]
       \/ /\ fwd[p].done = said[p] /\ init[p[1]] = "exited"
          /\ fwd' = [fwd EXCEPT ![p] = Closed]
    /\ UNCHANGED <<run, init, shim, said, log, daemon, req, torn>>

\* Mutant: Write does not take the mutex.
WriteHeaderUnlocked(p) ==
    /\ Alive(p[1]) /\ fwd[p].at = "lock"
    /\ log' = Append(log, Header(p[2], fwd[p].upto - fwd[p].done))
    /\ fwd' = [fwd EXCEPT ![p].at = "payload"]
    /\ UNCHANGED <<run, init, shim, said, daemon, req, torn>>

\* Write takes the mutex and writes the header,
WriteHeader(p) ==
    /\ Alive(p[1]) /\ fwd[p].at = "lock" /\ ~Locked(p[1])
    /\ log' = Append(log, Header(p[2], fwd[p].upto - fwd[p].done))
    /\ fwd' = [fwd EXCEPT ![p].at = "payload"]
    /\ UNCHANGED <<run, init, shim, said, daemon, req, torn>>

\* then the payload, and releases it.
WritePayload(p) ==
    LET f == fwd[p] IN
    /\ Alive(p[1]) /\ f.at = "payload"
    /\ log' = log \o [i \in 1 .. f.upto - f.done |-> Byte(p[1], p[2], f.done + i)]
    /\ fwd' = [fwd EXCEPT ![p] = [at |-> "read", done |-> f.upto, upto |-> f.upto]]
    /\ UNCHANGED <<run, init, shim, said, daemon, req, torn>>

\* Either write may fail, when the disk is full; the first perhaps before it
\* has written a byte.  io.Copy ends, and the forwarder closes its pipe.
WriteFails(p) ==
    /\ Alive(p[1])
    /\ \/ fwd[p].at = "payload" /\ torn' = TRUE
       \/ fwd[p].at = "lock" /\ ~Locked(p[1]) /\ torn' \in {torn, TRUE}
    /\ fwd' = [fwd EXCEPT ![p] = Closed]
    /\ UNCHANGED <<run, init, shim, said, log, daemon, req>>

-----------------------------------------------------------------------------
(* ContainerLogsStream. *)

Answers(q, answered) ==
    /\ req' = [req EXCEPT ![q] = answered]
    /\ UNCHANGED <<run, init, shim, said, fwd, log, daemon, torn>>

Open(q) ==
    /\ req[q].at = "idle" /\ run > 0
    /\ \E f \in BOOLEAN : Answers(q, [req[q] EXCEPT !.at = "read", !.follow = f])

\* tailLog, and drainLog's loop, send what they read;
Read(q) ==
    /\ req[q].at \in {"read", "drain"} /\ req[q].pos < Len(log)
    /\ Answers(q, [req[q] EXCEPT !.pos = IF @ + Chunk < Len(log) THEN @ + Chunk ELSE Len(log)])

\* at the end of the file a request that does not follow, or has drained, is
\* done; another looks at the state next.
Eof(q) ==
    /\ req[q].at \in {"read", "drain"} /\ req[q].pos = Len(log)
    /\ Answers(q, [req[q] EXCEPT !.at = IF @ = "read" /\ req[q].follow THEN "check" ELSE "done"])

\* Mutant: the request ends as soon as the container does.
CheckWithoutDrain(q) ==
    /\ req[q].at = "check"
    /\ IF state # "Running" THEN Answers(q, [req[q] EXCEPT !.at = "done", !.owed = stopLen])
                            ELSE Answers(q, [req[q] EXCEPT !.at = "read"])

\* A container that is not running is read once more to the end; otherwise the
\* request sleeps and reads on, until its client goes.
Check(q) ==
    /\ req[q].at = "check"
    /\ IF state # "Running" THEN Answers(q, [req[q] EXCEPT !.at = "drain", !.owed = stopLen])
                            ELSE Answers(q, [req[q] EXCEPT !.at = "read"])

Next ==
    \/ Start \/ MarkRunning
    \/ \E r \in Runs :
         \/ Exit(r) \/ Wait(r) \/ MarkStopped(r) \/ Delete(r) \/ ShimEnds(r)
    \/ \E p \in Pipes : Say(p) \/ Forward(p) \/ WriteHeader(p) \/ WritePayload(p)
                          \/ WriteFails(p)
    \/ \E q \in Requests : Open(q) \/ Read(q) \/ Eof(q) \/ Check(q)

Spec == Init /\ [][Next]_vars

-----------------------------------------------------------------------------
(* Demux, the client's end: what it has read so far, what is left of the    *)
(* present frame, and whether it has lost track of the frames.              *)

Opened == [need |-> 0, stream |-> CHOOSE s \in Streams : TRUE,     \* the first header says
           lost |-> FALSE, written |-> [s \in Streams |-> <<>>]]

Demux(d, x) ==
    IF d.lost THEN d
    ELSE IF IsHeader(x) <=> d.need > 0 THEN [d EXCEPT !.lost = TRUE]
    ELSE IF IsHeader(x) THEN [d EXCEPT !.need = x.len, !.stream = x.stream]
    ELSE [d EXCEPT !.need = @ - 1, !.written[d.stream] = Append(@, x)]

Demultiplex(received) ==
    LET after[n \in 0 .. Len(received)] ==
          IF n = 0 THEN Opened ELSE Demux(after[n - 1], received[n])
    IN  after[Len(received)]

-----------------------------------------------------------------------------
\* y is the next byte of its stream after x, in the same run or a later one.
Succeeds(y, x) == y.run > x.run \/ (y.run = x.run /\ y.num = x.num + 1)

\* Every client that has been sent part of the log reads each stream's bytes as
\* that stream, in order and without a gap inside a run, whatever the two
\* forwarders interleave and however reads cut the frames.
FramesIntact ==
    torn \/ \A q \in Requests :
        LET d == Demultiplex(SubSeq(log, 1, req[q].pos)) IN
        /\ ~d.lost
        /\ \A s \in Streams : LET w == d.written[s] IN
             /\ \A i \in 1 .. Len(w) : w[i].of = s
             /\ \A i \in 1 .. Len(w) - 1 : Succeeds(w[i + 1], w[i])

\* A follower that has been let go was sent all the log held when the container
\* was marked Stopped: lines written between its last read and the end of the
\* container are not lost to it.
FollowerGotAll ==
    \A q \in Requests : req[q].follow /\ req[q].at = "done" => req[q].pos >= req[q].owed
=============================================================================
