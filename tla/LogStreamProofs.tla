--------------------------- MODULE LogStreamProofs ---------------------------
(***************************************************************************)
(* Proofs about LogStream, for any requests, runs, bytes and sizes of a    *)
(* read.                                                                   *)
(***************************************************************************)
EXTENDS LogStream, SequenceTheorems, WellFoundedInduction, TLAPS

Index == 1 .. Len(log)

Headers == [stream : Streams, len : Nat \ {0}]
Bytes == [run : Runs, of : Streams, num : Nat \ {0}]
Item == Headers \cup Bytes

(* The types, without the bounds of a model.                               *)

Request ==
    [at : {"idle", "read", "check", "drain", "done"}, follow : BOOLEAN, pos : Nat, owed : Nat]

ReqTypes == req \in [Requests -> Request]

RunTypes ==
    /\ run \in 0 .. MaxRuns
    /\ shim \in [Runs -> {"none", "up", "deleted", "gone"}]
    /\ torn \in BOOLEAN /\ stopLen \in Nat

PipeTypes ==
    /\ said \in [Pipes -> Nat]
    /\ fwd \in [Pipes -> [at : {"read", "lock", "payload", "done"}, done : Nat, upto : Nat]]
    /\ \A p \in Pipes : fwd[p].at \in {"lock", "payload"} => fwd[p].done < fwd[p].upto

Types == ReqTypes /\ RunTypes /\ PipeTypes /\ log \in Seq(Item)

(* A request has not passed the end of the log, and owes its client what   *)
(* the log held at some time.                                              *)

ReqInv ==
    /\ stopLen <= Len(log)
    /\ \A q \in Requests :
         /\ req[q].pos <= Len(log) /\ req[q].owed <= Len(log)
         /\ req[q].at = "done" /\ req[q].follow => req[q].pos >= req[q].owed

(* Forwarders work in the present run only, unless something was torn.     *)

ShimInv ==
    \A p \in Pipes :
      /\ shim[p[1]] = "none" <=> p[1] > run
      /\ shim[p[1]] = "none" => fwd[p].at = "read"
      /\ shim[p[1]] = "gone" => fwd[p].at = "done"
      /\ ~torn /\ p[1] < run => fwd[p].at = "done"

(* What a forwarder has written is in the log, in order.                   *)

Said(p, n) == Byte(p[1], p[2], n)

\* The bytes of a pipe are in the log in the order they were said and without a
\* gap (torn or not), and those of an earlier run come first unless a shim was
\* cut off or overlapped the next run.
StreamsInOrder ==
    /\ \A p \in Pipes, n \in Nat \ {0}, i \in Index :
         log[i] = Said(p, n) /\ n > 1 => \E j \in 1 .. i - 1 : log[j] = Said(p, n - 1)
    /\ \A p \in Pipes : \A m, n \in Nat \ {0} : \A i, j \in Index :
         i < j /\ log[i] = Said(p, m) /\ log[j] = Said(p, n) => m < n
    /\ ~torn => \A p, q \in Pipes : \A m, n \in Nat \ {0} : \A i, j \in Index :
         i < j /\ log[i] = Said(p, m) /\ log[j] = Said(q, n) => p[1] <= q[1]

OrderInv ==
    /\ StreamsInOrder
    /\ \A p \in Pipes, n \in Nat \ {0}, i \in Index : log[i] = Said(p, n) =>
         p[1] <= run /\ (fwd[p].at # "done" => n <= fwd[p].done)
    /\ \A p \in Pipes : \A n \in 1 .. fwd[p].done : \E i \in Index : log[i] = Said(p, n)

(* The frames.                                                             *)

\* The header at h is followed by the payload it announces.
Whole(h) ==
    /\ h + log[h].len <= Len(log)
    /\ \E p \in Pipes, n \in Nat :
         /\ p[2] = log[h].stream
         /\ \A k \in 1 .. log[h].len : log[h + k] = Said(p, n + k)

\* Unless a shim was cut off in the middle of a frame, the log is a sequence of
\* frames: every header is followed by the whole payload it announces, bytes of
\* one pipe, of the stream it names, with consecutive numbers, or is the last
\* item and its forwarder is about to write the payload; and every byte is in
\* such a payload.
FramesAreWhole ==
    ~torn =>
      /\ \A h \in Index : IsHeader(log[h]) =>
           \/ Whole(h)
           \/ h = Len(log) /\ \E p \in Pipes : fwd[p].at = "payload"
      /\ \A i \in Index : ~IsHeader(log[i]) =>
           \E h \in 1 .. i - 1 : IsHeader(log[h]) /\ i <= h + log[h].len

FrameInv ==
    /\ FramesAreWhole
    /\ ~torn =>
         /\ \A p \in Pipes : fwd[p].at = "payload" =>
              /\ Len(log) > 0
              /\ log[Len(log)] = Header(p[2], fwd[p].upto - fwd[p].done)
         /\ \A p, q \in Pipes : fwd[p].at = "payload" /\ fwd[q].at = "payload" => p = q

IInv == Types /\ ReqInv /\ ShimInv /\ OrderInv /\ FrameInv

-----------------------------------------------------------------------------
(* Items and the log.                                                      *)

\* A header is told from a byte, and every item is one of the two.
LEMMA HeaderOrByte ==
  /\ \A x \in Headers : IsHeader(x)
  /\ \A x \in Bytes : ~IsHeader(x)
  /\ \A x \in Item : IsHeader(x) => x \in Headers
  BY DEF Headers, Bytes, IsHeader, Item

\* A byte tells whose it is.
LEMMA BytesDiffer ==
  /\ \A p, q \in Pipes, m, n \in Nat : Said(p, m) = Said(q, n) => p = q /\ m = n
  /\ \A p \in Pipes, n \in Nat \ {0} : Said(p, n) \in Bytes
  <1>1. ASSUME NEW p \in Pipes, NEW q \in Pipes, NEW m \in Nat, NEW n \in Nat,
               Said(p, m) = Said(q, n)
        PROVE  p = q /\ m = n
    <2>1. Said(p, m).run = p[1] /\ Said(p, m).of = p[2] /\ Said(p, m).num = m
      BY DEF Said, Byte
    <2>2. Said(q, n).run = q[1] /\ Said(q, n).of = q[2] /\ Said(q, n).num = n
      BY DEF Said, Byte
    <2>3. p[1] = q[1] /\ p[2] = q[2] /\ m = n
      BY <1>1, <2>1, <2>2
    <2> QED
      BY <2>3 DEF Pipes
  <1>2. \A p \in Pipes, n \in Nat \ {0} : Said(p, n) \in Bytes
    BY DEF Said, Byte, Bytes, Pipes
  <1> QED
    BY <1>1, <1>2

\* How a header makes the log grow,
LEMMA HeaderWritten ==
  ASSUME Types, NEW p \in Pipes, WriteHeader(p)
  PROVE  /\ fwd[p].upto - fwd[p].done \in Nat \ {0}
         /\ Header(p[2], fwd[p].upto - fwd[p].done) \in Headers
         /\ log' \in Seq(Item) /\ Len(log') = Len(log) + 1
         /\ \A i \in 1 .. Len(log) : log'[i] = log[i]
         /\ log'[Len(log) + 1] = Header(p[2], fwd[p].upto - fwd[p].done)
  <1> DEFINE h == Header(p[2], fwd[p].upto - fwd[p].done)
  <1>1. fwd[p].upto - fwd[p].done \in Nat \ {0}
    BY DEF Types, PipeTypes, WriteHeader
  <1>2. h \in Headers
    BY <1>1 DEF Header, Headers, Pipes
  <1>3. log \in Seq(Item) /\ log' = Append(log, h)
    BY DEF Types, WriteHeader
  <1> HIDE DEF h
  <1>4. h \in Item
    BY <1>2 DEF Item
  <1>5. /\ Append(log, h) \in Seq(Item) /\ Len(Append(log, h)) = Len(log) + 1
        /\ \A i \in 1 .. Len(log) : Append(log, h)[i] = log[i]
        /\ Append(log, h)[Len(log) + 1] = h
    BY <1>3, <1>4, AppendProperties
  <1> QED
    BY <1>1, <1>2, <1>3, <1>5 DEF h

\* and how a payload does.
LEMMA PayloadWritten ==
  ASSUME Types, NEW p \in Pipes, WritePayload(p)
  PROVE  LET n == fwd[p].upto - fwd[p].done
         IN  /\ n \in Nat \ {0} /\ fwd[p].done \in Nat /\ Len(log) \in Nat
             /\ log' \in Seq(Item) /\ Len(log') = Len(log) + n
             /\ \A i \in 1 .. Len(log) : log'[i] = log[i]
             /\ \A k \in 1 .. n : log'[Len(log) + k] = Said(p, fwd[p].done + k)
  <1> DEFINE n == fwd[p].upto - fwd[p].done
             payload == [k \in 1 .. n |-> Byte(p[1], p[2], fwd[p].done + k)]
  <1>1. n \in Nat \ {0} /\ fwd[p].done \in Nat
    BY DEF Types, PipeTypes, WritePayload
  <1>2. \A k \in 1 .. n : payload[k] = Said(p, fwd[p].done + k)
    BY DEF Said
  <1>3. \A k \in 1 .. n : payload[k] \in Item
    <2>1. \A k \in 1 .. n : fwd[p].done + k \in Nat \ {0}
      BY <1>1
    <2> HIDE DEF payload
    <2>2. \A k \in 1 .. n : Said(p, fwd[p].done + k) \in Bytes
      BY <2>1, BytesDiffer
    <2> QED
      BY <1>2, <2>2 DEF Item
  <1>4. log \in Seq(Item) /\ log' = log \o payload
    BY DEF Types, WritePayload
  <1>5. payload \in [1 .. n -> Item]
    BY <1>3
  <1> HIDE DEF n, payload
  <1>6. payload \in Seq(Item) /\ Len(payload) = n
    <2>1. payload \in Seq(Item)
      BY <1>1, <1>5, SeqDef
    <2> QED
      BY <1>1, <1>5, <2>1, LenProperties
  <1>7. /\ log' \in Seq(Item) /\ Len(log') = Len(log) + n
        /\ \A i \in 1 .. Len(log) + n : log'[i] = IF i <= Len(log) THEN log[i] ELSE payload[i - Len(log)]
    BY <1>4, <1>6, ConcatProperties
  <1>8. Len(log) \in Nat
    BY <1>4, LenProperties
  <1>9. \A k \in 1 .. n : log'[Len(log) + k] = payload[k]
    BY <1>1, <1>7, <1>8
  <1>10. \A i \in 1 .. Len(log) : log'[i] = log[i]
    BY <1>1, <1>7, <1>8
  <1> QED
    BY <1>1, <1>2, <1>7, <1>8, <1>9, <1>10 DEF n

-----------------------------------------------------------------------------
(* The types.                                                              *)

\* A write that fails closes its forwarder, and leaves the others alone.
LEMMA ForwarderFails ==
  ASSUME Types, NEW p \in Pipes, WriteFails(p)
  PROVE  /\ fwd' \in [Pipes -> [at : {"read", "lock", "payload", "done"}, done : Nat, upto : Nat]]
         /\ fwd'[p] = Closed
         /\ \A x \in Pipes : x # p => fwd'[x] = fwd[x]
         /\ Closed.at = "done" /\ Closed.done = 0
         /\ torn' \in BOOLEAN /\ (torn => torn')
  <1>1. Closed \in [at : {"read", "lock", "payload", "done"}, done : Nat, upto : Nat]
        /\ Closed.at = "done" /\ Closed.done = 0
    BY DEF Closed
  <1>2. fwd \in [Pipes -> [at : {"read", "lock", "payload", "done"}, done : Nat, upto : Nat]]
        /\ torn \in BOOLEAN
    BY DEF Types, PipeTypes, RunTypes
  <1>3. fwd' = [fwd EXCEPT ![p] = Closed]
    BY DEF WriteFails
  <1>4. torn' = torn \/ torn' = TRUE
    BY DEF WriteFails
  <1>5. torn' \in BOOLEAN /\ (torn => torn')
    BY <1>2, <1>4
  <1> HIDE DEF Closed
  <1> QED
    BY <1>1, <1>2, <1>3, <1>5

\* Every step keeps the types.
LEMMA NextTypes ==
  ASSUME Types, [Next]_vars
  PROVE  Types'
  <1> USE LogStreamAssumption
  <1>1. CASE Start
    BY <1>1 DEF Start, Types, ReqTypes, RunTypes, PipeTypes, Runs, Pipes, Closed, daemon
  <1>2. CASE MarkRunning
    BY <1>2 DEF MarkRunning, Types, ReqTypes, RunTypes, PipeTypes, Runs, Pipes, Closed, daemon
  <1>3. ASSUME NEW r \in Runs, Exit(r) PROVE Types'
    BY <1>3 DEF Exit, Types, ReqTypes, RunTypes, PipeTypes, Runs, Pipes, Closed, daemon
  <1>4. ASSUME NEW r \in Runs, Wait(r) PROVE Types'
    BY <1>4 DEF Wait, Types, ReqTypes, RunTypes, PipeTypes, Runs, Pipes, Closed, daemon
  <1>5. ASSUME NEW r \in Runs, MarkStopped(r) PROVE Types'
    BY <1>5 DEF MarkStopped, Types, ReqTypes, RunTypes, PipeTypes, Runs, Pipes, Closed, daemon
  <1>6. ASSUME NEW r \in Runs, Delete(r) PROVE Types'
    BY <1>6 DEF Delete, Types, ReqTypes, RunTypes, PipeTypes, Runs, Pipes, Closed, daemon
  <1>7. ASSUME NEW r \in Runs, ShimEnds(r) PROVE Types'
    BY <1>7 DEF ShimEnds, Types, ReqTypes, RunTypes, PipeTypes, Runs, Pipes, Closed, daemon
  <1>8. ASSUME NEW p \in Pipes, Say(p) PROVE Types'
    BY <1>8 DEF Say, Types, ReqTypes, RunTypes, PipeTypes, Runs, Pipes, Closed, daemon
  <1>9. ASSUME NEW p \in Pipes, Forward(p) PROVE Types'
    <2>1. fwd[p] \in [at : {"read", "lock", "payload", "done"}, done : Nat, upto : Nat] /\ said[p] \in Nat
      BY DEF Types, PipeTypes
    <2>2. PipeTypes'
      <3>1. CASE fwd[p].done < said[p] /\ fwd' = [fwd EXCEPT ![p] = [@ EXCEPT !.at = "lock", !.upto = said[p]]]
        <4> DEFINE f == [fwd[p] EXCEPT !.at = "lock", !.upto = said[p]]
        <4>1. /\ f \in [at : {"read", "lock", "payload", "done"}, done : Nat, upto : Nat]
              /\ f.done = fwd[p].done /\ f.upto = said[p]
          BY <2>1
        <4>2. fwd' = [fwd EXCEPT ![p] = f]
          BY <3>1
        <4> HIDE DEF f
        <4>3. said' = said
          BY <1>9 DEF Forward
        <4> QED
          BY <2>1, <3>1, <4>1, <4>2, <4>3 DEF Types, PipeTypes
      <3>2. CASE fwd' = [fwd EXCEPT ![p] = Closed]
        BY <1>9, <3>2 DEF Forward, Closed, Types, PipeTypes
      <3> QED
        BY <1>9, <3>1, <3>2 DEF Forward
    <2> QED
      BY <1>9, <2>2 DEF Forward, Types, ReqTypes, RunTypes, daemon
  <1>10. ASSUME NEW p \in Pipes, WriteHeader(p) PROVE Types'
    <2>1. log' \in Seq(Item)
      BY <1>10, HeaderWritten
    <2> QED
      BY <1>10, <2>1 DEF WriteHeader, Types, ReqTypes, RunTypes, PipeTypes, daemon
  <1>11. ASSUME NEW p \in Pipes, WritePayload(p) PROVE Types'
    <2>1. log' \in Seq(Item)
      BY <1>11, PayloadWritten
    <2> QED
      BY <1>11, <2>1 DEF WritePayload, Types, ReqTypes, RunTypes, PipeTypes, daemon
  <1>12. ASSUME NEW q \in Requests, Open(q) PROVE Types'
    <2>1. req[q] \in Request
      BY DEF Types, ReqTypes
    <2>2. Len(log) \in Nat /\ Chunk \in Nat /\ stopLen \in Nat
      BY LenProperties DEF Types, RunTypes
    <2>3. PICK answered : answered \in Request /\ Answers(q, answered)
      <3>1. PICK f \in BOOLEAN : Answers(q, [req[q] EXCEPT !.at = "read", !.follow = f])
        BY <1>12 DEF Open
      <3>2. [req[q] EXCEPT !.at = "read", !.follow = f] \in Request
        BY <2>1 DEF Request
      <3> QED
        BY <3>1, <3>2
    <2>4. ReqTypes'
      BY <2>3 DEF Answers, Types, ReqTypes
    <2> QED
      BY <2>3, <2>4 DEF Answers, Types, RunTypes, PipeTypes, daemon
  <1>13. ASSUME NEW q \in Requests, Read(q) PROVE Types'
    <2>1. req[q] \in Request
      BY DEF Types, ReqTypes
    <2>2. Len(log) \in Nat /\ Chunk \in Nat /\ stopLen \in Nat
      BY LenProperties DEF Types, RunTypes
    <2>3. PICK answered : answered \in Request /\ Answers(q, answered)
      <3> DEFINE n == IF req[q].pos + Chunk < Len(log) THEN req[q].pos + Chunk ELSE Len(log)
      <3>1. n \in Nat
        BY <2>1, <2>2 DEF Request
      <3> HIDE DEF n
      <3>2. [req[q] EXCEPT !.pos = n] \in Request
        BY <2>1, <3>1 DEF Request
      <3>3. Answers(q, [req[q] EXCEPT !.pos = n])
        BY <1>13 DEF Read, n
      <3> QED
        BY <3>2, <3>3
    <2>4. ReqTypes'
      BY <2>3 DEF Answers, Types, ReqTypes
    <2> QED
      BY <2>3, <2>4 DEF Answers, Types, RunTypes, PipeTypes, daemon
  <1>14. ASSUME NEW q \in Requests, Eof(q) PROVE Types'
    <2>1. req[q] \in Request
      BY DEF Types, ReqTypes
    <2>2. Len(log) \in Nat /\ Chunk \in Nat /\ stopLen \in Nat
      BY LenProperties DEF Types, RunTypes
    <2>3. PICK answered : answered \in Request /\ Answers(q, answered)
      <3> DEFINE a == IF req[q].at = "read" /\ req[q].follow THEN "check" ELSE "done"
      <3>1. a \in {"check", "done"}
        OBVIOUS
      <3> HIDE DEF a
      <3>2. [req[q] EXCEPT !.at = a] \in Request
        BY <2>1, <3>1 DEF Request
      <3>3. Answers(q, [req[q] EXCEPT !.at = a])
        BY <1>14 DEF Eof, a
      <3> QED
        BY <3>2, <3>3
    <2>4. ReqTypes'
      BY <2>3 DEF Answers, Types, ReqTypes
    <2> QED
      BY <2>3, <2>4 DEF Answers, Types, RunTypes, PipeTypes, daemon
  <1>15. ASSUME NEW q \in Requests, Check(q) PROVE Types'
    <2>1. req[q] \in Request
      BY DEF Types, ReqTypes
    <2>2. Len(log) \in Nat /\ Chunk \in Nat /\ stopLen \in Nat
      BY LenProperties DEF Types, RunTypes
    <2>3. PICK answered : answered \in Request /\ Answers(q, answered)
      <3>1. /\ [req[q] EXCEPT !.at = "drain", !.owed = stopLen] \in Request
            /\ [req[q] EXCEPT !.at = "read"] \in Request
        BY <2>1, <2>2 DEF Request
      <3> QED
        BY <1>15, <3>1 DEF Check
    <2>4. ReqTypes'
      BY <2>3 DEF Answers, Types, ReqTypes
    <2> QED
      BY <2>3, <2>4 DEF Answers, Types, RunTypes, PipeTypes, daemon
  <1>16. CASE UNCHANGED vars
    BY <1>16 DEF vars, Types, ReqTypes, RunTypes, PipeTypes, daemon
  <1>17. ASSUME NEW p \in Pipes, WriteFails(p) PROVE Types'
    <2>1. \A x \in Pipes : fwd'[x].at \in {"lock", "payload"} =>
             fwd'[x] = fwd[x] /\ fwd[x].at \in {"lock", "payload"}
      BY <1>17, ForwarderFails
    <2>2. PipeTypes'
      BY <1>17, <2>1, ForwarderFails DEF WriteFails, Types, PipeTypes
    <2>3. torn' \in BOOLEAN
      BY <1>17, ForwarderFails
    <2> QED
      BY <1>17, <2>2, <2>3 DEF WriteFails, Types, ReqTypes, RunTypes, daemon
  <1> QED
    BY <1>1, <1>2, <1>3, <1>4, <1>5, <1>6, <1>7, <1>8, <1>9, <1>10, <1>11, <1>12, <1>13, <1>14, <1>15, <1>16, <1>17 DEF Next

-----------------------------------------------------------------------------
(* Requests.                                                               *)

\* The log only grows.
LEMMA LogGrows ==
  ASSUME Types, [Next]_vars
  PROVE  Len(log) \in Nat /\ Len(log') \in Nat /\ Len(log) <= Len(log')
  <1>1. Len(log) \in Nat
    BY LenProperties DEF Types
  <1>2. ASSUME NEW p \in Pipes, WriteHeader(p) PROVE Len(log') \in Nat /\ Len(log) <= Len(log')
    BY <1>1, <1>2, HeaderWritten
  <1>3. ASSUME NEW p \in Pipes, WritePayload(p) PROVE Len(log') \in Nat /\ Len(log) <= Len(log')
    <2>1. /\ fwd[p].upto - fwd[p].done \in Nat \ {0}
          /\ Len(log') = Len(log) + (fwd[p].upto - fwd[p].done)
      BY <1>3, PayloadWritten
    <2> QED
      BY <1>1, <2>1
  <1>4. \/ log' = log
        \/ \E p \in Pipes : WriteHeader(p) \/ WritePayload(p)
    BY DEF Next, Start, MarkRunning, Exit, Wait, MarkStopped, Delete, ShimEnds, Say, Forward,
           WriteFails, Answers, Open, Read, Eof, Check, vars
  <1> QED
    BY <1>1, <1>2, <1>3, <1>4

\* No request passes the end of the log, or ends before what it owes.
LEMMA NextReqInv ==
  ASSUME Types, ReqInv, [Next]_vars
  PROVE  ReqInv'
  <1>1. CASE Start
    <2>1. req' = req /\ stopLen' = stopLen
      BY <1>1 DEF Start, daemon, vars
    <2> QED
      BY <2>1, LogGrows DEF ReqInv, Types, ReqTypes, Request, RunTypes
  <1>2. CASE MarkRunning
    <2>1. req' = req /\ stopLen' = stopLen
      BY <1>2 DEF MarkRunning, daemon, vars
    <2> QED
      BY <2>1, LogGrows DEF ReqInv, Types, ReqTypes, Request, RunTypes
  <1>3. ASSUME NEW r \in Runs, Exit(r) PROVE ReqInv'
    <2>1. req' = req /\ stopLen' = stopLen
      BY <1>3 DEF Exit, daemon, vars
    <2> QED
      BY <2>1, LogGrows DEF ReqInv, Types, ReqTypes, Request, RunTypes
  <1>4. ASSUME NEW r \in Runs, Wait(r) PROVE ReqInv'
    <2>1. req' = req /\ stopLen' = stopLen
      BY <1>4 DEF Wait, daemon, vars
    <2> QED
      BY <2>1, LogGrows DEF ReqInv, Types, ReqTypes, Request, RunTypes
  <1>5. ASSUME NEW r \in Runs, MarkStopped(r) PROVE ReqInv'
    <2>1. req' = req /\ stopLen' = Len(log) /\ log' = log
      BY <1>5 DEF MarkStopped
    <2> QED
      BY <2>1, LogGrows DEF ReqInv
  <1>6. ASSUME NEW r \in Runs, Delete(r) PROVE ReqInv'
    <2>1. req' = req /\ stopLen' = stopLen
      BY <1>6 DEF Delete, daemon, vars
    <2> QED
      BY <2>1, LogGrows DEF ReqInv, Types, ReqTypes, Request, RunTypes
  <1>7. ASSUME NEW r \in Runs, ShimEnds(r) PROVE ReqInv'
    <2>1. req' = req /\ stopLen' = stopLen
      BY <1>7 DEF ShimEnds, daemon, vars
    <2> QED
      BY <2>1, LogGrows DEF ReqInv, Types, ReqTypes, Request, RunTypes
  <1>8. ASSUME NEW p \in Pipes, Say(p) PROVE ReqInv'
    <2>1. req' = req /\ stopLen' = stopLen
      BY <1>8 DEF Say, daemon, vars
    <2> QED
      BY <2>1, LogGrows DEF ReqInv, Types, ReqTypes, Request, RunTypes
  <1>9. ASSUME NEW p \in Pipes, Forward(p) PROVE ReqInv'
    <2>1. req' = req /\ stopLen' = stopLen
      BY <1>9 DEF Forward, daemon, vars
    <2> QED
      BY <2>1, LogGrows DEF ReqInv, Types, ReqTypes, Request, RunTypes
  <1>10. ASSUME NEW p \in Pipes, WriteHeader(p) PROVE ReqInv'
    <2>1. req' = req /\ stopLen' = stopLen
      BY <1>10 DEF WriteHeader, daemon, vars
    <2> QED
      BY <2>1, LogGrows DEF ReqInv, Types, ReqTypes, Request, RunTypes
  <1>11. ASSUME NEW p \in Pipes, WritePayload(p) PROVE ReqInv'
    <2>1. req' = req /\ stopLen' = stopLen
      BY <1>11 DEF WritePayload, daemon, vars
    <2> QED
      BY <2>1, LogGrows DEF ReqInv, Types, ReqTypes, Request, RunTypes
  <1>12. ASSUME NEW q \in Requests, Open(q) PROVE ReqInv'
    <2>1. req[q] \in Request /\ req \in [Requests -> Request]
      BY DEF Types, ReqTypes
    <2>2. Len(log) \in Nat /\ stopLen \in Nat /\ stopLen <= Len(log)
      BY LogGrows DEF Types, RunTypes, ReqInv
    <2>3. log' = log /\ stopLen' = stopLen
      BY <1>12 DEF Open, Answers, daemon
    <2>4. /\ req'[q].pos <= Len(log) /\ req'[q].owed <= Len(log)
          /\ req'[q].at = "done" /\ req'[q].follow => req'[q].pos >= req'[q].owed
      BY <1>12, <2>1, <2>2 DEF Open, Answers, Request, ReqInv
    <2>5. \A x \in Requests \ {q} : req'[x] = req[x]
      BY <1>12, <2>1 DEF Open, Answers
    <2> QED
      BY <2>2, <2>3, <2>4, <2>5 DEF ReqInv
  <1>13. ASSUME NEW q \in Requests, Read(q) PROVE ReqInv'
    <2>1. req[q] \in Request /\ req \in [Requests -> Request]
      BY DEF Types, ReqTypes
    <2>2. Len(log) \in Nat /\ stopLen \in Nat /\ stopLen <= Len(log)
      BY LogGrows DEF Types, RunTypes, ReqInv
    <2>3. log' = log /\ stopLen' = stopLen
      BY <1>13 DEF Read, Answers, daemon
    <2>4. /\ req'[q].pos <= Len(log) /\ req'[q].owed <= Len(log)
          /\ req'[q].at = "done" /\ req'[q].follow => req'[q].pos >= req'[q].owed
      BY <1>13, <2>1, <2>2, LogStreamAssumption DEF Read, Answers, Request, ReqInv
    <2>5. \A x \in Requests \ {q} : req'[x] = req[x]
      BY <1>13, <2>1 DEF Read, Answers
    <2> QED
      BY <2>2, <2>3, <2>4, <2>5 DEF ReqInv
  <1>14. ASSUME NEW q \in Requests, Eof(q) PROVE ReqInv'
    <2>1. req[q] \in Request /\ req \in [Requests -> Request]
      BY DEF Types, ReqTypes
    <2>2. Len(log) \in Nat /\ stopLen \in Nat /\ stopLen <= Len(log)
      BY LogGrows DEF Types, RunTypes, ReqInv
    <2>3. log' = log /\ stopLen' = stopLen
      BY <1>14 DEF Eof, Answers, daemon
    <2>4. /\ req'[q].pos <= Len(log) /\ req'[q].owed <= Len(log)
          /\ req'[q].at = "done" /\ req'[q].follow => req'[q].pos >= req'[q].owed
      BY <1>14, <2>1, <2>2 DEF Eof, Answers, Request, ReqInv
    <2>5. \A x \in Requests \ {q} : req'[x] = req[x]
      BY <1>14, <2>1 DEF Eof, Answers
    <2> QED
      BY <2>2, <2>3, <2>4, <2>5 DEF ReqInv
  <1>15. ASSUME NEW q \in Requests, Check(q) PROVE ReqInv'
    <2>1. req[q] \in Request /\ req \in [Requests -> Request]
      BY DEF Types, ReqTypes
    <2>2. Len(log) \in Nat /\ stopLen \in Nat /\ stopLen <= Len(log)
      BY LogGrows DEF Types, RunTypes, ReqInv
    <2>3. log' = log /\ stopLen' = stopLen
      BY <1>15 DEF Check, Answers, daemon
    <2>4. /\ req'[q].pos <= Len(log) /\ req'[q].owed <= Len(log)
          /\ req'[q].at = "done" /\ req'[q].follow => req'[q].pos >= req'[q].owed
      BY <1>15, <2>1, <2>2 DEF Check, Answers, Request, ReqInv
    <2>5. \A x \in Requests \ {q} : req'[x] = req[x]
      BY <1>15, <2>1 DEF Check, Answers
    <2> QED
      BY <2>2, <2>3, <2>4, <2>5 DEF ReqInv
  <1>16. CASE UNCHANGED vars
    <2>1. req' = req /\ stopLen' = stopLen
      BY <1>16 DEF vars, daemon, vars
    <2> QED
      BY <2>1, LogGrows DEF ReqInv, Types, ReqTypes, Request, RunTypes
  <1>17. ASSUME NEW p \in Pipes, WriteFails(p) PROVE ReqInv'
    <2>1. req' = req /\ stopLen' = stopLen
      BY <1>17 DEF WriteFails, daemon, vars
    <2> QED
      BY <2>1, LogGrows DEF ReqInv, Types, ReqTypes, Request, RunTypes
  <1> QED
    BY <1>1, <1>2, <1>3, <1>4, <1>5, <1>6, <1>7, <1>8, <1>9, <1>10, <1>11, <1>12, <1>13, <1>14, <1>15, <1>16, <1>17 DEF Next

-----------------------------------------------------------------------------
(* Shims and forwarders.                                                   *)

\* Forwarders work in the present run only, unless something was torn.
LEMMA NextShimInv ==
  ASSUME Types, ShimInv, [Next]_vars
  PROVE  ShimInv'
  <1>1. CASE Start
    <2>1. run \in Nat /\ run + 1 \in Runs /\ fwd' = fwd /\ run' = run + 1
      BY <1>1, LogStreamAssumption DEF Start, Types, RunTypes, Runs
    <2>2. shim \in [Runs -> {"none", "up", "deleted", "gone"}] /\ shim' = [shim EXCEPT ![run + 1] = "up"]
      BY <1>1 DEF Start, Types, RunTypes
    <2>3. \A p \in Pipes : p[1] \in Runs /\ p[1] \in Nat
      BY DEF Pipes, Runs
    <2>4. \A p \in Pipes : shim'[p[1]] = (IF p[1] = run + 1 THEN "up" ELSE shim[p[1]])
      BY <2>2, <2>3
    <2>5. \A p \in Pipes : ~torn' /\ p[1] < run + 1 => fwd[p].at = "done"
      <3>1. \A p \in Pipes : ~torn' => ~ (Alive(p[1]) /\ fwd[p].at # "done")
        BY <1>1 DEF Start
      <3>2. \A p \in Pipes : p[1] < run + 1 => Alive(p[1]) \/ shim[p[1]] = "gone"
        BY <2>1, <2>2, <2>3 DEF ShimInv, Alive
      <3> QED
        BY <3>1, <3>2 DEF ShimInv
    <2> QED
      BY <2>1, <2>3, <2>4, <2>5 DEF ShimInv
  <1>2. CASE MarkRunning
    BY <1>2 DEF MarkRunning, ShimInv, Types, RunTypes, PipeTypes, daemon, vars, Runs, Alive, Closed, Pipes
  <1>3. ASSUME NEW r \in Runs, Exit(r) PROVE ShimInv'
    BY <1>3 DEF Exit, ShimInv, Types, RunTypes, PipeTypes, daemon, vars, Runs, Alive, Closed, Pipes
  <1>4. ASSUME NEW r \in Runs, Wait(r) PROVE ShimInv'
    BY <1>4 DEF Wait, ShimInv, Types, RunTypes, PipeTypes, daemon, vars, Runs, Alive, Closed, Pipes
  <1>5. ASSUME NEW r \in Runs, MarkStopped(r) PROVE ShimInv'
    BY <1>5 DEF MarkStopped, ShimInv, Types, RunTypes, PipeTypes, daemon, vars, Runs, Alive, Closed, Pipes
  <1>6. ASSUME NEW r \in Runs, Delete(r) PROVE ShimInv'
    BY <1>6 DEF Delete, ShimInv, Types, RunTypes, PipeTypes, daemon, vars, Runs, Alive, Closed, Pipes
  <1>7. ASSUME NEW r \in Runs, ShimEnds(r) PROVE ShimInv'
    BY <1>7 DEF ShimEnds, ShimInv, Types, RunTypes, PipeTypes, daemon, vars, Runs, Alive, Closed, Pipes
  <1>8. ASSUME NEW p \in Pipes, Say(p) PROVE ShimInv'
    BY <1>8 DEF Say, ShimInv, Types, RunTypes, PipeTypes, daemon, vars, Runs, Alive, Closed, Pipes
  <1>9. ASSUME NEW p \in Pipes, Forward(p) PROVE ShimInv'
    BY <1>9 DEF Forward, ShimInv, Types, RunTypes, PipeTypes, daemon, vars, Runs, Alive, Closed, Pipes
  <1>10. ASSUME NEW p \in Pipes, WriteHeader(p) PROVE ShimInv'
    BY <1>10 DEF WriteHeader, ShimInv, Types, RunTypes, PipeTypes, daemon, vars, Runs, Alive, Closed, Pipes
  <1>11. ASSUME NEW p \in Pipes, WritePayload(p) PROVE ShimInv'
    BY <1>11 DEF WritePayload, ShimInv, Types, RunTypes, PipeTypes, daemon, vars, Runs, Alive, Closed, Pipes
  <1>12. ASSUME NEW q \in Requests, Open(q) PROVE ShimInv'
    BY <1>12 DEF Open, Answers, ShimInv, daemon
  <1>13. ASSUME NEW q \in Requests, Read(q) PROVE ShimInv'
    BY <1>13 DEF Read, Answers, ShimInv, daemon
  <1>14. ASSUME NEW q \in Requests, Eof(q) PROVE ShimInv'
    BY <1>14 DEF Eof, Answers, ShimInv, daemon
  <1>15. ASSUME NEW q \in Requests, Check(q) PROVE ShimInv'
    BY <1>15 DEF Check, Answers, ShimInv, daemon
  <1>16. CASE UNCHANGED vars
    BY <1>16 DEF vars, ShimInv, Types, RunTypes, PipeTypes, daemon, Runs, Alive, Closed, Pipes
  <1>17. ASSUME NEW p \in Pipes, WriteFails(p) PROVE ShimInv'
    <2>1. torn => torn'
      BY <1>17, ForwarderFails
    <2>2. /\ fwd'[p].at = "done" /\ shim[p[1]] # "none"
          /\ \A x \in Pipes : x # p => fwd'[x] = fwd[x]
      BY <1>17, ForwarderFails DEF WriteFails, Alive
    <2>3. run' = run /\ shim' = shim
      BY <1>17 DEF WriteFails
    <2> QED
      BY <2>1, <2>2, <2>3 DEF ShimInv
  <1> QED
    BY <1>1, <1>2, <1>3, <1>4, <1>5, <1>6, <1>7, <1>8, <1>9, <1>10, <1>11, <1>12, <1>13, <1>14, <1>15, <1>16, <1>17 DEF Next

-----------------------------------------------------------------------------
(* The bytes of a pipe are in the log in the order they were written.      *)

\* A step that leaves the log alone, and a forwarder's place in its pipe unless
\* it closes it, keeps the order.
LEMMA OrderKept ==
  ASSUME Types, OrderInv, log' = log, run' \in Nat, run <= run', torn => torn',
         \A p \in Pipes : \/ fwd'[p].at = "done" /\ fwd'[p].done = 0
                          \/ /\ fwd'[p].done = fwd[p].done
                             /\ fwd'[p].at # "done" => fwd[p].at # "done"
  PROVE  OrderInv'
  <1>1. \A p \in Pipes : p[1] \in Nat
    BY DEF Pipes, Runs
  <1>2. run \in Nat
    BY LogStreamAssumption DEF Types, RunTypes
  <1>3. \A p \in Pipes, n \in Nat \ {0}, i \in Index : log[i] = Said(p, n) =>
         /\ p[1] <= run'
         /\ fwd'[p].at # "done" => n <= fwd'[p].done
         /\ n > 1 => \E j \in 1 .. i - 1 : log[j] = Said(p, n - 1)
    BY <1>1, <1>2 DEF OrderInv, StreamsInOrder
  <1>4. \A p \in Pipes : \A n \in 1 .. fwd'[p].done : \E i \in Index : log[i] = Said(p, n)
    BY DEF OrderInv, StreamsInOrder
  <1>5. \A p \in Pipes : \A m, n \in Nat \ {0} : \A i, j \in Index :
         i < j /\ log[i] = Said(p, m) /\ log[j] = Said(p, n) => m < n
    BY DEF OrderInv, StreamsInOrder
  <1>6. ~torn' =>
         \A p, q \in Pipes : \A m, n \in Nat \ {0} : \A i, j \in Index :
           i < j /\ log[i] = Said(p, m) /\ log[j] = Said(q, n) => p[1] <= q[1]
    BY DEF OrderInv, StreamsInOrder
  <1>7. Index' = Index /\ \A p, n : Said(p, n)' = Said(p, n)
    BY DEF Index, Said, Byte
  <1> QED
    BY <1>3, <1>4, <1>5, <1>6, <1>7 DEF OrderInv, StreamsInOrder

\* The bytes of a pipe are in the log in the order they were written.
LEMMA NextOrderInv ==
  ASSUME Types, ShimInv, OrderInv, [Next]_vars
  PROVE  OrderInv'
  <1>1. CASE Start
    <2>1. log' = log /\ run' = run + 1 /\ (torn => torn') /\ fwd' = fwd
      BY <1>1 DEF Start
    <2>2. run \in Nat
      BY LogStreamAssumption DEF Types, RunTypes
    <2> QED
      BY <2>1, <2>2, OrderKept
  <1>2. CASE MarkRunning
    <2>1. /\ log' = log /\ run' = run /\ torn' = torn
          /\ \A x \in Pipes : fwd'[x].done = fwd[x].done /\ fwd'[x].at = fwd[x].at
      BY <1>2 DEF MarkRunning, Answers, daemon, vars
    <2> QED
      BY <2>1, OrderKept, LogStreamAssumption DEF Types, RunTypes
  <1>3. ASSUME NEW r \in Runs, Exit(r) PROVE OrderInv'
    <2>1. /\ log' = log /\ run' = run /\ torn' = torn
          /\ \A x \in Pipes : fwd'[x].done = fwd[x].done /\ fwd'[x].at = fwd[x].at
      BY <1>3 DEF Exit, Answers, daemon, vars
    <2> QED
      BY <2>1, OrderKept, LogStreamAssumption DEF Types, RunTypes
  <1>4. ASSUME NEW r \in Runs, Wait(r) PROVE OrderInv'
    <2>1. /\ log' = log /\ run' = run /\ torn' = torn
          /\ \A x \in Pipes : fwd'[x].done = fwd[x].done /\ fwd'[x].at = fwd[x].at
      BY <1>4 DEF Wait, Answers, daemon, vars
    <2> QED
      BY <2>1, OrderKept, LogStreamAssumption DEF Types, RunTypes
  <1>5. ASSUME NEW r \in Runs, MarkStopped(r) PROVE OrderInv'
    <2>1. /\ log' = log /\ run' = run /\ torn' = torn
          /\ \A x \in Pipes : fwd'[x].done = fwd[x].done /\ fwd'[x].at = fwd[x].at
      BY <1>5 DEF MarkStopped, Answers, daemon, vars
    <2> QED
      BY <2>1, OrderKept, LogStreamAssumption DEF Types, RunTypes
  <1>6. ASSUME NEW r \in Runs, Delete(r) PROVE OrderInv'
    <2>1. /\ log' = log /\ run' = run /\ torn' = torn
          /\ \A x \in Pipes : fwd'[x].done = fwd[x].done /\ fwd'[x].at = fwd[x].at
      BY <1>6 DEF Delete, Answers, daemon, vars
    <2> QED
      BY <2>1, OrderKept, LogStreamAssumption DEF Types, RunTypes
  <1>7. ASSUME NEW r \in Runs, ShimEnds(r) PROVE OrderInv'
    <2>1. log' = log /\ run' = run /\ (torn => torn')
      BY <1>7 DEF ShimEnds
    <2>2. \A p \in Pipes : fwd'[p] = Closed \/ fwd'[p] = fwd[p]
      BY <1>7 DEF ShimEnds
    <2>3. run \in Nat
      BY LogStreamAssumption DEF Types, RunTypes
    <2>4. Closed.at = "done" /\ Closed.done = 0
      BY DEF Closed
    <2> QED
      BY <2>1, <2>2, <2>3, <2>4, OrderKept
  <1>8. ASSUME NEW p \in Pipes, Say(p) PROVE OrderInv'
    <2>1. /\ log' = log /\ run' = run /\ torn' = torn
          /\ \A x \in Pipes : fwd'[x].done = fwd[x].done /\ fwd'[x].at = fwd[x].at
      BY <1>8 DEF Say, Answers, daemon, vars
    <2> QED
      BY <2>1, OrderKept, LogStreamAssumption DEF Types, RunTypes
  <1>9. ASSUME NEW p \in Pipes, Forward(p) PROVE OrderInv'
    <2>1. log' = log /\ run' = run /\ torn' = torn
      BY <1>9 DEF Forward
    <2>2. \A x \in Pipes : \/ fwd'[x].at = "done" /\ fwd'[x].done = 0
                          \/ /\ fwd'[x].done = fwd[x].done
                             /\ fwd'[x].at # "done" => fwd[x].at # "done"
      <3>1. \A x \in Pipes \ {p} : fwd'[x] = fwd[x]
        BY <1>9 DEF Forward, Types, PipeTypes
      <3>2. CASE fwd' = [fwd EXCEPT ![p] = [@ EXCEPT !.at = "lock", !.upto = said[p]]]
        <4>1. fwd'[p].done = fwd[p].done /\ fwd[p].at = "read"
          BY <1>9, <3>2 DEF Forward, Types, PipeTypes
        <4> QED
          BY <3>1, <4>1
      <3>3. CASE fwd' = [fwd EXCEPT ![p] = Closed]
        <4>1. fwd'[p].at = "done" /\ fwd'[p].done = 0
          BY <3>3 DEF Closed, Types, PipeTypes
        <4> QED
          BY <3>1, <4>1
      <3> QED
        BY <1>9, <3>2, <3>3 DEF Forward
    <2>3. run \in Nat
      BY LogStreamAssumption DEF Types, RunTypes
    <2> QED
      BY <2>1, <2>2, <2>3, OrderKept
  <1>10. ASSUME NEW p \in Pipes, WriteHeader(p) PROVE OrderInv'
    <2>1. /\ Len(log) \in Nat /\ Len(log') = Len(log) + 1 /\ \A i \in Index : log'[i] = log[i]
          /\ log'[Len(log) + 1] \in Headers
      BY <1>10, HeaderWritten, LogGrows DEF Index
    <2>2. \A x \in Pipes, n \in Nat \ {0}, i \in Index' : log'[i] = Said(x, n) => i \in Index /\ log[i] = Said(x, n)
      BY <2>1, HeaderOrByte, BytesDiffer DEF Index
    <2>3. \A x \in Pipes : fwd'[x].done = fwd[x].done /\ (fwd'[x].at = "done" <=> fwd[x].at = "done")
      BY <1>10 DEF WriteHeader, Types, PipeTypes
    <2>4. Index \subseteq Index'
      BY <2>1 DEF Index
    <2>5. run' = run /\ torn' = torn /\ \A x, n : Said(x, n)' = Said(x, n)
      BY <1>10 DEF WriteHeader, Said, Byte
    <2>6. \A x \in Pipes, n \in Nat \ {0}, i \in Index' : log'[i] = Said(x, n) =>
           /\ x[1] <= run'
           /\ fwd'[x].at # "done" => n <= fwd'[x].done
           /\ n > 1 => \E j \in 1 .. i - 1 : log'[j] = Said(x, n - 1)
      <3> SUFFICES ASSUME NEW x \in Pipes, NEW n \in Nat \ {0}, NEW i \in Index', log'[i] = Said(x, n)
                   PROVE  /\ x[1] <= run'
                          /\ fwd'[x].at # "done" => n <= fwd'[x].done
                          /\ n > 1 => \E j \in 1 .. i - 1 : log'[j] = Said(x, n - 1)
        OBVIOUS
      <3>1. i \in Index /\ log[i] = Said(x, n)
        BY <2>2
      <3>2. n > 1 => \E j \in 1 .. i - 1 : log[j] = Said(x, n - 1)
        BY <3>1 DEF OrderInv, StreamsInOrder
      <3>3. \A j \in 1 .. i - 1 : log'[j] = log[j]
        BY <2>1, <3>1 DEF Index
      <3> QED
        BY <2>3, <2>5, <3>1, <3>2, <3>3 DEF OrderInv, StreamsInOrder
    <2>7. \A x \in Pipes : \A n \in 1 .. fwd'[x].done : \E i \in Index' : log'[i] = Said(x, n)
      <3> SUFFICES ASSUME NEW x \in Pipes, NEW n \in 1 .. fwd'[x].done
                   PROVE  \E i \in Index' : log'[i] = Said(x, n)
        OBVIOUS
      <3>1. PICK i \in Index : log[i] = Said(x, n)
        BY <2>3 DEF OrderInv, StreamsInOrder
      <3> QED
        BY <2>1, <2>4, <3>1
    <2>8. \A x \in Pipes : \A m, n \in Nat \ {0} : \A i, j \in Index' :
           i < j /\ log'[i] = Said(x, m) /\ log'[j] = Said(x, n) => m < n
      BY <2>2 DEF OrderInv, StreamsInOrder
    <2>9. ~torn' =>
           \A x, y \in Pipes : \A m, n \in Nat \ {0} : \A i, j \in Index' :
             i < j /\ log'[i] = Said(x, m) /\ log'[j] = Said(y, n) => x[1] <= y[1]
      BY <2>2, <2>5 DEF OrderInv, StreamsInOrder
    <2> QED
      BY <2>5, <2>6, <2>7, <2>8, <2>9 DEF OrderInv, StreamsInOrder
  <1>11. ASSUME NEW p \in Pipes, WritePayload(p) PROVE OrderInv'
    <2> DEFINE d == fwd[p].done
               c == fwd[p].upto - fwd[p].done
               l == Len(log)
    <2>1. /\ c \in Nat \ {0} /\ d \in Nat /\ l \in Nat /\ Len(log') = l + c
          /\ \A i \in Index : log'[i] = log[i]
          /\ \A k \in 1 .. c : log'[l + k] = Said(p, d + k)
      BY <1>11, PayloadWritten DEF Index
    <2>2. \A x \in Pipes : x # p => fwd'[x] = fwd[x]
      BY <1>11 DEF WritePayload, Types, PipeTypes
    <2>3. fwd'[p].done = d + c /\ fwd[p].at = "payload"
      BY <1>11 DEF WritePayload, Types, PipeTypes
    <2>4. run' = run /\ torn' = torn /\ \A x, n : Said(x, n)' = Said(x, n)
      BY <1>11 DEF WritePayload, Said, Byte
    <2>5. run \in Nat /\ \A x \in Pipes : x[1] \in Nat
      BY LogStreamAssumption DEF Types, RunTypes, Pipes, Runs
    <2>6. p[1] = run \/ (torn /\ p[1] <= run)
      BY <1>11, <2>3, <2>5 DEF WritePayload, Alive, ShimInv
    <2> HIDE DEF d, c, l
    <2>7. Index = 1 .. l /\ Index' = 1 .. l + c
      BY <2>1 DEF Index, l
    <2>8. \A x \in Pipes, n \in Nat \ {0}, i \in Index' : log'[i] = Said(x, n) =>
           \/ i \in Index /\ log[i] = Said(x, n)
           \/ x = p /\ i > l /\ n = d + (i - l)
      <3> SUFFICES ASSUME NEW x \in Pipes, NEW n \in Nat \ {0}, NEW i \in Index', log'[i] = Said(x, n), i > l
                   PROVE  x = p /\ n = d + (i - l)
        BY <2>1, <2>7
      <3>1. i - l \in 1 .. c /\ l + (i - l) = i
        BY <2>1, <2>7
      <3>2. log'[i] = Said(p, d + (i - l))
        BY <2>1, <3>1
      <3>3. d + (i - l) \in Nat /\ n \in Nat
        BY <2>1, <3>1
      <3>4. x = p /\ n = d + (i - l)
        <4>1. Said(x, n) = Said(p, d + (i - l))
          BY <3>2
        <4> QED
          BY <3>3, <4>1, BytesDiffer
      <3> QED
        BY <3>4
    <2>9. \A x \in Pipes, n \in Nat \ {0}, i \in Index' : log'[i] = Said(x, n) =>
           /\ x[1] <= run'
           /\ fwd'[x].at # "done" => n <= fwd'[x].done
           /\ n > 1 => \E j \in 1 .. i - 1 : log'[j] = Said(x, n - 1)
      <3> SUFFICES ASSUME NEW x \in Pipes, NEW n \in Nat \ {0}, NEW i \in Index', log'[i] = Said(x, n)
                   PROVE  /\ x[1] <= run'
                          /\ fwd'[x].at # "done" => n <= fwd'[x].done
                          /\ n > 1 => \E j \in 1 .. i - 1 : log'[j] = Said(x, n - 1)
        OBVIOUS
      <3>1. CASE i \in Index /\ log[i] = Said(x, n)
        <4>1. /\ x[1] <= run /\ (fwd[x].at # "done" => n <= fwd[x].done)
              /\ n > 1 => \E j \in 1 .. i - 1 : log[j] = Said(x, n - 1)
          BY <3>1 DEF OrderInv, StreamsInOrder
        <4>2. \A j \in 1 .. i - 1 : log'[j] = log[j]
          BY <2>1, <2>7, <3>1
        <4>3. fwd'[x].at # "done" => n <= fwd'[x].done
          BY <2>1, <2>2, <2>3, <4>1 DEF d
        <4> QED
          BY <2>4, <4>1, <4>2, <4>3
      <3>2. CASE x = p /\ i > l /\ n = d + (i - l)
        <4>1. x[1] <= run'
          BY <2>4, <2>5, <2>6, <3>2
        <4>2. n <= fwd'[x].done
          BY <2>1, <2>3, <2>7, <3>2
        <4>3. CASE i = l + 1 /\ n > 1
          <5>1. n - 1 = d /\ d \in 1 .. d
            BY <2>1, <3>2, <4>3
          <5>2. PICK j \in Index : log[j] = Said(p, d)
            BY <5>1 DEF OrderInv, StreamsInOrder, d
          <5>3. log'[j] = Said(x, n - 1)
            <6>1. log'[j] = log[j]
              BY <2>1
            <6> QED
              BY <3>2, <5>1, <5>2, <6>1
          <5>4. j \in 1 .. i - 1
            BY <2>1, <2>7, <4>3
          <5> QED
            BY <4>1, <4>2, <5>3, <5>4
        <4>4. CASE i > l + 1
          <5>1. i - 1 \in 1 .. i - 1 /\ (i - 1) - l \in 1 .. c /\ l + ((i - 1) - l) = i - 1
            BY <2>1, <2>7, <4>4
          <5>2. log'[i - 1] = Said(p, d + ((i - 1) - l))
            BY <2>1, <5>1
          <5>3. d + ((i - 1) - l) = n - 1
            BY <2>1, <2>7, <3>2
          <5> QED
            BY <3>2, <4>1, <4>2, <5>1, <5>2, <5>3
        <4> QED
          BY <2>1, <2>7, <3>2, <4>1, <4>2, <4>3, <4>4
      <3> QED
        BY <2>8, <3>1, <3>2
    <2>10. \A x \in Pipes : \A n \in 1 .. fwd'[x].done : \E i \in Index' : log'[i] = Said(x, n)
      <3> SUFFICES ASSUME NEW x \in Pipes, NEW n \in 1 .. fwd'[x].done
                   PROVE  \E i \in Index' : log'[i] = Said(x, n)
        OBVIOUS
      <3>1. CASE n \in 1 .. fwd[x].done
        <4>1. PICK i \in Index : log[i] = Said(x, n)
          BY <3>1 DEF OrderInv, StreamsInOrder
        <4>2. i \in Index'
          BY <2>1, <2>7
        <4> QED
          BY <2>1, <4>1, <4>2
      <3>2. CASE n \notin 1 .. fwd[x].done
        <4>1. x = p
          BY <2>2, <3>2
        <4>2. n - d \in 1 .. c /\ d + (n - d) = n /\ l + (n - d) \in Index'
          <5>1. n \in 1 .. d + c /\ n \notin 1 .. d
            BY <2>3, <3>2, <4>1 DEF d
          <5> QED
            BY <2>1, <2>7, <5>1
        <4>3. log'[l + (n - d)] = Said(p, d + (n - d))
          BY <2>1, <4>2
        <4> QED
          BY <4>1, <4>2, <4>3
      <3> QED
        BY <3>1, <3>2
    <2>11. \A x \in Pipes : \A m, n \in Nat \ {0} : \A i, j \in Index' :
           i < j /\ log'[i] = Said(x, m) /\ log'[j] = Said(x, n) => m < n
      <3> SUFFICES ASSUME NEW x \in Pipes, NEW m \in Nat \ {0}, NEW n \in Nat \ {0},
                          NEW i \in Index', NEW j \in Index', i < j,
                          log'[i] = Said(x, m), log'[j] = Said(x, n)
                   PROVE  m < n
        OBVIOUS
      <3>1. CASE j \in Index /\ log[j] = Said(x, n)
        <4>1. i \in Index /\ log[i] = Said(x, m)
          BY <2>1, <2>7, <3>1
        <4> QED
          BY <3>1, <4>1 DEF OrderInv, StreamsInOrder
      <3>2. CASE x = p /\ j > l /\ n = d + (j - l)
        <4>1. CASE i \in Index /\ log[i] = Said(x, m)
          <5>1. m <= d
            BY <2>3, <3>2, <4>1 DEF OrderInv, StreamsInOrder, d
          <5> QED
            BY <2>1, <2>7, <3>2, <5>1
        <4>2. CASE i > l /\ m = d + (i - l)
          BY <2>1, <2>7, <3>2, <4>2
        <4> QED
          BY <2>8, <4>1, <4>2
      <3> QED
        BY <2>8, <3>1, <3>2
    <2>12. ~torn' =>
           \A x, y \in Pipes : \A m, n \in Nat \ {0} : \A i, j \in Index' :
             i < j /\ log'[i] = Said(x, m) /\ log'[j] = Said(y, n) => x[1] <= y[1]
      <3> SUFFICES ASSUME ~torn, NEW x \in Pipes, NEW y \in Pipes, NEW m \in Nat \ {0}, NEW n \in Nat \ {0},
                          NEW i \in Index', NEW j \in Index', i < j,
                          log'[i] = Said(x, m), log'[j] = Said(y, n)
                   PROVE  x[1] <= y[1]
        BY <2>4
      <3>1. CASE j \in Index /\ log[j] = Said(y, n)
        <4>1. i \in Index /\ log[i] = Said(x, m)
          BY <2>1, <2>7, <3>1
        <4> QED
          BY <3>1, <4>1 DEF OrderInv, StreamsInOrder
      <3>2. CASE y = p
        <4>1. x[1] <= run
          BY <2>4, <2>9
        <4> QED
          BY <2>6, <3>2, <4>1
      <3> QED
        BY <2>8, <3>1, <3>2
    <2> QED
      BY <2>4, <2>9, <2>10, <2>11, <2>12 DEF OrderInv, StreamsInOrder
  <1>12. ASSUME NEW q \in Requests, Open(q) PROVE OrderInv'
    <2>1. /\ log' = log /\ run' = run /\ torn' = torn
          /\ \A x \in Pipes : fwd'[x].done = fwd[x].done /\ fwd'[x].at = fwd[x].at
      BY <1>12 DEF Open, Answers, daemon, vars
    <2> QED
      BY <2>1, OrderKept, LogStreamAssumption DEF Types, RunTypes
  <1>13. ASSUME NEW q \in Requests, Read(q) PROVE OrderInv'
    <2>1. /\ log' = log /\ run' = run /\ torn' = torn
          /\ \A x \in Pipes : fwd'[x].done = fwd[x].done /\ fwd'[x].at = fwd[x].at
      BY <1>13 DEF Read, Answers, daemon, vars
    <2> QED
      BY <2>1, OrderKept, LogStreamAssumption DEF Types, RunTypes
  <1>14. ASSUME NEW q \in Requests, Eof(q) PROVE OrderInv'
    <2>1. /\ log' = log /\ run' = run /\ torn' = torn
          /\ \A x \in Pipes : fwd'[x].done = fwd[x].done /\ fwd'[x].at = fwd[x].at
      BY <1>14 DEF Eof, Answers, daemon, vars
    <2> QED
      BY <2>1, OrderKept, LogStreamAssumption DEF Types, RunTypes
  <1>15. ASSUME NEW q \in Requests, Check(q) PROVE OrderInv'
    <2>1. /\ log' = log /\ run' = run /\ torn' = torn
          /\ \A x \in Pipes : fwd'[x].done = fwd[x].done /\ fwd'[x].at = fwd[x].at
      BY <1>15 DEF Check, Answers, daemon, vars
    <2> QED
      BY <2>1, OrderKept, LogStreamAssumption DEF Types, RunTypes
  <1>16. CASE UNCHANGED vars
    <2>1. /\ log' = log /\ run' = run /\ torn' = torn
          /\ \A x \in Pipes : fwd'[x].done = fwd[x].done /\ fwd'[x].at = fwd[x].at
      BY <1>16 DEF vars, daemon
    <2> QED
      BY <2>1, OrderKept, LogStreamAssumption DEF Types, RunTypes
  <1>17. ASSUME NEW p \in Pipes, WriteFails(p) PROVE OrderInv'
    <2>1. log' = log /\ run' = run /\ (torn => torn')
      BY <1>17, ForwarderFails DEF WriteFails
    <2>2. \A x \in Pipes : fwd'[x] = Closed \/ fwd'[x] = fwd[x]
      BY <1>17, ForwarderFails
    <2>3. run \in Nat
      BY LogStreamAssumption DEF Types, RunTypes
    <2>4. Closed.at = "done" /\ Closed.done = 0
      BY DEF Closed
    <2> QED
      BY <2>1, <2>2, <2>3, <2>4, OrderKept
  <1> QED
    BY <1>1, <1>2, <1>3, <1>4, <1>5, <1>6, <1>7, <1>8, <1>9, <1>10, <1>11, <1>12, <1>13, <1>14, <1>15, <1>16, <1>17 DEF Next

-----------------------------------------------------------------------------
(* Frames.                                                                 *)

\* A step that leaves the log alone, and every forwarder that has begun a frame,
\* keeps the frames.
LEMMA FrameKept ==
  ASSUME FrameInv, log' = log, torn => torn',
         ~torn' => \A p \in Pipes : \/ fwd'[p] = fwd[p]
                                    \/ fwd'[p].at # "payload" /\ fwd[p].at # "payload"
  PROVE  FrameInv'
  <1> SUFFICES ASSUME ~torn, ~torn'
               PROVE  FrameInv'
    BY DEF FrameInv, FramesAreWhole
  <1>1. \A p \in Pipes : /\ fwd'[p].at = "payload" <=> fwd[p].at = "payload"
                         /\ fwd'[p].at = "payload" => fwd'[p] = fwd[p]
    OBVIOUS
  <1>2. \A h \in Index : Whole(h)' <=> Whole(h)
    BY DEF Whole, Said, Byte
  <1>3. \A p \in Pipes : fwd'[p].at = "payload" =>
           /\ Len(log) > 0
           /\ log[Len(log)] = Header(p[2], fwd'[p].upto - fwd'[p].done)
    BY <1>1 DEF FrameInv, FramesAreWhole
  <1>4. \A p, q \in Pipes : fwd'[p].at = "payload" /\ fwd'[q].at = "payload" => p = q
    BY <1>1 DEF FrameInv, FramesAreWhole
  <1>5. \A h \in Index : IsHeader(log[h]) =>
           \/ Whole(h)'
           \/ h = Len(log) /\ \E p \in Pipes : fwd'[p].at = "payload"
    BY <1>1, <1>2 DEF FrameInv, FramesAreWhole
  <1>6. \A i \in Index : ~IsHeader(log[i]) =>
           \E h \in 1 .. i - 1 : IsHeader(log[h]) /\ i <= h + log[h].len
    BY DEF FrameInv, FramesAreWhole
  <1> QED
    BY <1>3, <1>4, <1>5, <1>6 DEF FrameInv, FramesAreWhole, Index, Header, IsHeader

\* What is appended leaves a whole frame whole.
LEMMA WholeKept ==
  ASSUME Types, Len(log') \in Nat, Len(log) <= Len(log'),
         \A i \in Index : log'[i] = log[i],
         NEW h \in Index, IsHeader(log[h]), Whole(h)
  PROVE  Whole(h)'
  <1>1. log[h] \in Headers /\ Len(log) \in Nat
    BY HeaderOrByte, LenProperties, ElementOfSeq DEF Types, Index
  <1>2. log[h].len \in Nat \ {0} /\ h \in Nat
    BY <1>1 DEF Headers, Index
  <1>3. log'[h] = log[h]
    OBVIOUS
  <1>4. \A k \in 1 .. log[h].len : h + k \in Index
    BY <1>1, <1>2 DEF Whole, Index
  <1>5. PICK p \in Pipes, n \in Nat : /\ p[2] = log[h].stream
                                      /\ \A k \in 1 .. log[h].len : log[h + k] = Said(p, n + k)
    BY DEF Whole
  <1>6. \A k \in 1 .. log'[h].len : log'[h + k] = Said(p, n + k)
    BY <1>3, <1>4, <1>5
  <1>7. h + log'[h].len <= Len(log')
    BY <1>1, <1>2, <1>3 DEF Whole
  <1> QED
    BY <1>3, <1>5, <1>6, <1>7 DEF Whole, Said, Byte

\* Every step keeps the frames.
LEMMA NextFrameInv ==
  ASSUME Types, ShimInv, FrameInv, [Next]_vars
  PROVE  FrameInv'
  <1>1. CASE Start
    <2>1. log' = log /\ (torn => torn') /\ fwd' = fwd
      BY <1>1 DEF Start
    <2> QED
      BY <2>1, FrameKept
  <1>2. CASE MarkRunning
    <2>1. log' = log /\ torn' = torn /\ fwd' = fwd
      BY <1>2 DEF MarkRunning, Answers, daemon, vars
    <2> QED
      BY <2>1, FrameKept
  <1>3. ASSUME NEW r \in Runs, Exit(r) PROVE FrameInv'
    <2>1. log' = log /\ torn' = torn /\ fwd' = fwd
      BY <1>3 DEF Exit, Answers, daemon, vars
    <2> QED
      BY <2>1, FrameKept
  <1>4. ASSUME NEW r \in Runs, Wait(r) PROVE FrameInv'
    <2>1. log' = log /\ torn' = torn /\ fwd' = fwd
      BY <1>4 DEF Wait, Answers, daemon, vars
    <2> QED
      BY <2>1, FrameKept
  <1>5. ASSUME NEW r \in Runs, MarkStopped(r) PROVE FrameInv'
    <2>1. log' = log /\ torn' = torn /\ fwd' = fwd
      BY <1>5 DEF MarkStopped, Answers, daemon, vars
    <2> QED
      BY <2>1, FrameKept
  <1>6. ASSUME NEW r \in Runs, Delete(r) PROVE FrameInv'
    <2>1. log' = log /\ torn' = torn /\ fwd' = fwd
      BY <1>6 DEF Delete, Answers, daemon, vars
    <2> QED
      BY <2>1, FrameKept
  <1>7. ASSUME NEW r \in Runs, ShimEnds(r) PROVE FrameInv'
    <2>1. log' = log /\ (torn => torn') /\ (~torn' => ~Locked(r))
      BY <1>7 DEF ShimEnds
    <2>2. \A p \in Pipes : fwd'[p] = IF p[1] = r THEN Closed ELSE fwd[p]
      BY <1>7 DEF ShimEnds
    <2>3. Closed.at # "payload"
      BY DEF Closed
    <2> QED
      BY <2>1, <2>2, <2>3, FrameKept DEF Locked
  <1>8. ASSUME NEW p \in Pipes, Say(p) PROVE FrameInv'
    <2>1. log' = log /\ torn' = torn /\ fwd' = fwd
      BY <1>8 DEF Say, Answers, daemon, vars
    <2> QED
      BY <2>1, FrameKept
  <1>9. ASSUME NEW p \in Pipes, Forward(p) PROVE FrameInv'
    <2>1. log' = log /\ torn' = torn /\ fwd[p].at = "read"
      BY <1>9 DEF Forward
    <2>2. \A x \in Pipes \ {p} : fwd'[x] = fwd[x]
      BY <1>9 DEF Forward, Types, PipeTypes
    <2>3. fwd'[p].at # "payload"
      <3>1. CASE fwd' = [fwd EXCEPT ![p] = [@ EXCEPT !.at = "lock", !.upto = said[p]]]
        BY <3>1 DEF Types, PipeTypes
      <3>2. CASE fwd' = [fwd EXCEPT ![p] = Closed]
        BY <3>2 DEF Closed, Types, PipeTypes
      <3> QED
        BY <1>9, <3>1, <3>2 DEF Forward
    <2> QED
      BY <2>1, <2>2, <2>3, FrameKept
  <1>10. ASSUME NEW p \in Pipes, WriteHeader(p) PROVE FrameInv'
    <2> SUFFICES ASSUME ~torn, torn' = torn
                 PROVE  FrameInv'
      BY <1>10 DEF WriteHeader, FrameInv, FramesAreWhole
    <2> DEFINE l == Len(log)
               c == fwd[p].upto - fwd[p].done
    <2>1. /\ c \in Nat \ {0} /\ Header(p[2], c) \in Headers
          /\ l \in Nat /\ Len(log') = l + 1 /\ \A i \in Index : log'[i] = log[i]
          /\ log'[l + 1] = Header(p[2], c)
      BY <1>10, HeaderWritten, LogGrows DEF Index
    <2>2. /\ fwd'[p].at = "payload" /\ fwd'[p].upto = fwd[p].upto /\ fwd'[p].done = fwd[p].done
          /\ \A x \in Pipes \ {p} : fwd'[x] = fwd[x]
      BY <1>10 DEF WriteHeader, Types, PipeTypes
    <2>3. \A x \in Pipes : fwd[x].at # "payload"
      <3>1. run \in Nat /\ \A x \in Pipes : x[1] \in Nat
        BY LogStreamAssumption DEF Types, RunTypes, Pipes, Runs
      <3>2. \A x \in Pipes : fwd[x].at \in {"lock", "payload"} => x[1] = run
        BY <3>1 DEF ShimInv
      <3> QED
        BY <1>10, <3>2 DEF WriteHeader, Locked
    <2> HIDE DEF l, c
    <2>4. Index = 1 .. l /\ Index' = 1 .. l + 1
      BY <2>1 DEF Index, l
    <2>5. \A x \in Pipes : fwd'[x].at = "payload" =>
           /\ Len(log') > 0
           /\ log'[Len(log')] = Header(x[2], fwd'[x].upto - fwd'[x].done)
      BY <2>1, <2>2, <2>3 DEF c
    <2>6. \A x, y \in Pipes : fwd'[x].at = "payload" /\ fwd'[y].at = "payload" => x = y
      BY <2>2, <2>3
    <2>7. \A h \in Index' : IsHeader(log'[h]) =>
           \/ Whole(h)'
           \/ h = Len(log') /\ \E x \in Pipes : fwd'[x].at = "payload"
      <3> SUFFICES ASSUME NEW h \in Index, IsHeader(log'[h])
                   PROVE  Whole(h)'
        BY <2>1, <2>2, <2>4
      <3>1. IsHeader(log[h])
        BY <2>1 DEF IsHeader
      <3>2. Whole(h)
        BY <2>3, <3>1 DEF FrameInv, FramesAreWhole
      <3> QED
        BY <2>1, <3>1, <3>2, WholeKept DEF l
    <2>8. \A i \in Index' : ~IsHeader(log'[i]) =>
           \E h \in 1 .. i - 1 : IsHeader(log'[h]) /\ i <= h + log'[h].len
      <3> SUFFICES ASSUME NEW i \in Index, ~IsHeader(log'[i])
                   PROVE  \E h \in 1 .. i - 1 : IsHeader(log'[h]) /\ i <= h + log'[h].len
        BY <2>1, <2>4, HeaderOrByte
      <3>1. ~IsHeader(log[i])
        BY <2>1
      <3>2. PICK h \in 1 .. i - 1 : IsHeader(log[h]) /\ i <= h + log[h].len
        BY <3>1 DEF FrameInv, FramesAreWhole
      <3>3. log'[h] = log[h]
        BY <2>1, <2>4
      <3> QED
        BY <3>2, <3>3
    <2> QED
      BY <2>5, <2>6, <2>7, <2>8 DEF FrameInv, FramesAreWhole, Header, IsHeader
  <1>11. ASSUME NEW p \in Pipes, WritePayload(p) PROVE FrameInv'
    <2> SUFFICES ASSUME ~torn, torn' = torn
                 PROVE  FrameInv'
      BY <1>11 DEF WritePayload, FrameInv, FramesAreWhole
    <2>0. PICK l \in Nat : l = Len(log)
      BY LogGrows
    <2> DEFINE c == fwd[p].upto - fwd[p].done
               d == fwd[p].done
    <2>1. /\ c \in Nat \ {0} /\ d \in Nat /\ l \in Nat /\ Len(log') = l + c
          /\ \A i \in Index : log'[i] = log[i]
          /\ \A k \in 1 .. c : log'[l + k] = Said(p, d + k)
      BY <1>11, <2>0, PayloadWritten DEF Index
    <2>2. /\ fwd[p].at = "payload" /\ fwd'[p].at = "read"
          /\ \A x \in Pipes \ {p} : fwd'[x] = fwd[x]
      BY <1>11 DEF WritePayload, Types, PipeTypes
    <2>3. l > 0 /\ log[l] = Header(p[2], c)
      BY <2>0, <2>2 DEF FrameInv, FramesAreWhole
    <2>4. \A x \in Pipes : fwd'[x].at # "payload"
      BY <2>2 DEF FrameInv, FramesAreWhole
    <2> HIDE DEF c, d
    <2>5. Index = 1 .. l /\ Index' = 1 .. l + c
      BY <2>0, <2>1 DEF Index
    <2>6. IsHeader(log[l]) /\ log[l].len = c /\ log[l].stream = p[2]
      BY <2>3 DEF Header, IsHeader
    <2>7. log'[l] = log[l] /\ l \in Index
      BY <2>1, <2>3, <2>5
    <2>8. \A i \in Index' : i \notin Index =>
            i - l \in 1 .. c /\ l + (i - l) = i /\ ~IsHeader(log'[i])
      <3> SUFFICES ASSUME NEW i \in Index', i \notin Index
                   PROVE  i - l \in 1 .. c /\ l + (i - l) = i /\ ~IsHeader(log'[i])
        OBVIOUS
      <3>1. i - l \in 1 .. c /\ l + (i - l) = i
        BY <2>1, <2>5
      <3>2. log'[i] = Said(p, d + (i - l))
        BY <2>1, <3>1
      <3>3. log'[i] \in Bytes
        <4>1. d + (i - l) \in Nat \ {0}
          BY <2>1, <3>1
        <4> QED
          BY <3>2, <4>1, BytesDiffer
      <3> QED
        BY <3>1, <3>3, HeaderOrByte
    <2>9. Whole(l)'
      <3>1. l + log'[l].len <= Len(log')
        BY <2>1, <2>6, <2>7
      <3>2. \A k \in 1 .. log'[l].len : log'[l + k] = Said(p, d + k)
        BY <2>1, <2>6, <2>7
      <3>3. p[2] = log'[l].stream
        BY <2>6, <2>7
      <3> HIDE DEF Said
      <3>4. \E x \in Pipes, n \in Nat :
              /\ x[2] = log'[l].stream
              /\ \A k \in 1 .. log'[l].len : log'[l + k] = Said(x, n + k)
        BY <2>1, <3>2, <3>3
      <3> QED
        BY <3>1, <3>4 DEF Whole, Said, Byte
    <2>10. \A h \in Index' : IsHeader(log'[h]) => Whole(h)'
      <3> SUFFICES ASSUME NEW h \in Index, IsHeader(log'[h]), h # l
                   PROVE  Whole(h)'
        BY <2>8, <2>9
      <3>1. IsHeader(log[h])
        BY <2>1
      <3>2. Whole(h)
        BY <2>0, <2>2, <3>1 DEF FrameInv, FramesAreWhole
      <3> QED
        BY <2>1, <3>1, <3>2, <2>0, WholeKept
    <2>11. \A i \in Index' : ~IsHeader(log'[i]) =>
           \E h \in 1 .. i - 1 : IsHeader(log'[h]) /\ i <= h + log'[h].len
      <3> SUFFICES ASSUME NEW i \in Index', ~IsHeader(log'[i])
                   PROVE  \E h \in 1 .. i - 1 : IsHeader(log'[h]) /\ i <= h + log'[h].len
        OBVIOUS
      <3>1. CASE i \in Index
        <4>1. ~IsHeader(log[i])
          BY <2>1, <3>1
        <4>2. PICK h \in 1 .. i - 1 : IsHeader(log[h]) /\ i <= h + log[h].len
          BY <3>1, <4>1 DEF FrameInv, FramesAreWhole
        <4>3. h \in Index
          BY <2>1, <2>5, <3>1, <4>2
        <4>4. log'[h] = log[h]
          BY <2>1, <4>3
        <4> QED
          BY <4>2, <4>4
      <3>2. CASE i \notin Index
        <4>1. l \in 1 .. i - 1 /\ i <= l + c
          BY <2>1, <2>3, <2>5, <3>2
        <4> QED
          BY <2>6, <2>7, <4>1
      <3> QED
        BY <3>1, <3>2
    <2> QED
      BY <2>4, <2>10, <2>11 DEF FrameInv, FramesAreWhole, Header, IsHeader
  <1>12. ASSUME NEW q \in Requests, Open(q) PROVE FrameInv'
    <2>1. log' = log /\ torn' = torn /\ fwd' = fwd
      BY <1>12 DEF Open, Answers, daemon, vars
    <2> QED
      BY <2>1, FrameKept
  <1>13. ASSUME NEW q \in Requests, Read(q) PROVE FrameInv'
    <2>1. log' = log /\ torn' = torn /\ fwd' = fwd
      BY <1>13 DEF Read, Answers, daemon, vars
    <2> QED
      BY <2>1, FrameKept
  <1>14. ASSUME NEW q \in Requests, Eof(q) PROVE FrameInv'
    <2>1. log' = log /\ torn' = torn /\ fwd' = fwd
      BY <1>14 DEF Eof, Answers, daemon, vars
    <2> QED
      BY <2>1, FrameKept
  <1>15. ASSUME NEW q \in Requests, Check(q) PROVE FrameInv'
    <2>1. log' = log /\ torn' = torn /\ fwd' = fwd
      BY <1>15 DEF Check, Answers, daemon, vars
    <2> QED
      BY <2>1, FrameKept
  <1>16. CASE UNCHANGED vars
    <2>1. log' = log /\ torn' = torn /\ fwd' = fwd
      BY <1>16 DEF vars, daemon
    <2> QED
      BY <2>1, FrameKept
  <1>17. ASSUME NEW p \in Pipes, WriteFails(p) PROVE FrameInv'
    <2>1. log' = log /\ (torn => torn') /\ (~torn' => fwd[p].at # "payload")
      BY <1>17, ForwarderFails DEF WriteFails
    <2>2. fwd'[p].at # "payload" /\ \A x \in Pipes : x # p => fwd'[x] = fwd[x]
      BY <1>17, ForwarderFails
    <2>3. ~torn' => \A x \in Pipes : \/ fwd'[x] = fwd[x]
                                     \/ fwd'[x].at # "payload" /\ fwd[x].at # "payload"
      BY <2>1, <2>2
    <2> QED
      BY <2>1, <2>3, FrameKept
  <1> QED
    BY <1>1, <1>2, <1>3, <1>4, <1>5, <1>6, <1>7, <1>8, <1>9, <1>10, <1>11, <1>12, <1>13, <1>14, <1>15, <1>16, <1>17 DEF Next

-----------------------------------------------------------------------------
\* The invariant holds initially.
LEMMA InitIInv == Init => IInv
  <1> SUFFICES ASSUME Init PROVE IInv
    OBVIOUS
  <1>1. log = <<>> /\ Len(log) = 0 /\ log \in Seq(Item) /\ Index = {}
    <2>1. log = <<>>
      BY DEF Init
    <2> QED
      BY <2>1, EmptySeq DEF Index
  <1>2. Types
    <2>1. ReqTypes
      BY DEF Init, ReqTypes, Request
    <2>2. RunTypes
      <3>1. 0 \in 0 .. MaxRuns
        BY LogStreamAssumption
      <3> QED
        BY <3>1 DEF Init, RunTypes
    <2>3. PipeTypes
      BY DEF Init, PipeTypes
    <2> QED
      BY <1>1, <2>1, <2>2, <2>3 DEF Types
  <1>3. ReqInv
    BY <1>1 DEF Init, ReqInv
  <1>4. ShimInv
    <2>1. \A p \in Pipes : p[1] \in Runs
      BY DEF Pipes
    <2>2. \A r \in Runs : r \in Nat /\ r > 0 /\ ~(r < 0) /\ shim[r] = "none"
      <3>1. \A r \in Runs : shim[r] = "none"
        BY DEF Init
      <3> QED
        BY <3>1 DEF Runs
    <2>3. \A p \in Pipes : fwd[p].at = "read"
      BY DEF Init
    <2>4. run = 0
      BY DEF Init
    <2> QED
      BY <2>1, <2>2, <2>3, <2>4 DEF ShimInv
  <1>5. \A p \in Pipes : fwd[p].at = "read" /\ fwd[p].done = 0
    BY DEF Init
  <1>6. OrderInv
    BY <1>1, <1>5 DEF OrderInv, StreamsInOrder
  <1>7. FrameInv
    BY <1>1, <1>5 DEF FrameInv, FramesAreWhole
  <1> QED
    BY <1>2, <1>3, <1>4, <1>6, <1>7 DEF IInv

\* The invariant always holds.
THEOREM Invariance == Spec => []IInv
  <1>1. Init => IInv
    BY InitIInv
  <1>2. IInv /\ [Next]_vars => IInv'
    BY NextTypes, NextReqInv, NextShimInv, NextOrderInv, NextFrameInv DEF IInv
  <1> QED
    BY <1>1, <1>2, PTL DEF Spec

-----------------------------------------------------------------------------
\* A follower that has been let go was sent all the log held when the container
\* was marked Stopped, however many runs, requests and bytes there are and
\* whatever one read returns.
THEOREM FollowersGetAll == Spec => []FollowerGotAll
  <1>1. IInv => FollowerGotAll
    BY DEF IInv, ReqInv, FollowerGotAll
  <1> QED
    BY <1>1, Invariance, PTL

\* The log is a sequence of whole frames, or a shim was cut off: the mutex of the
\* Writer is held over header and payload, and one shim writes at a time.
THEOREM LogIsFramed == Spec => []FramesAreWhole
  <1>1. IInv => FramesAreWhole
    BY DEF IInv, FrameInv
  <1> QED
    BY <1>1, Invariance, PTL

\* No byte that init wrote to a pipe before one that is in the log is missing
\* from it or behind it.
THEOREM StreamsAreInOrder == Spec => []StreamsInOrder
  <1>1. IInv => StreamsInOrder
    BY DEF IInv, OrderInv
  <1> QED
    BY <1>1, Invariance, PTL
-----------------------------------------------------------------------------
(* The demultiplexer.                                                      *)

\* Induction up to a bound, over a set of numbers.
LEMMA UpTo ==
  ASSUME NEW N \in Nat, NEW S \in SUBSET Nat, 0 \in S, \A n \in S : n < N => n + 1 \in S
  PROVE  \A n \in 0 .. N : n \in S
  <1> DEFINE T == {n \in 0 .. N : n \notin S}
  <1> SUFFICES ASSUME T # {} PROVE FALSE
    OBVIOUS
  <1>1. T \subseteq Nat
    OBVIOUS
  <1>2. PICK x \in T : \A y \in T : ~(<<y, x>> \in OpToRel(<, Nat))
    BY <1>1, NatLessThanWellFounded, WFMin, Zenon
  <1>3. ASSUME NEW y \in T PROVE ~(y < x)
    <2>1. <<y, x>> \in OpToRel(<, Nat) <=> <<y, x>>[1] < <<y, x>>[2]
      BY <1>1 DEF OpToRel
    <2>2. ~(<<y, x>>[1] < <<y, x>>[2])
      BY <1>2, <2>1, Zenon
    <2> QED
      BY <2>2
  <1>4. x \in 0 .. N /\ x \notin S
    OBVIOUS
  <1> HIDE DEF T
  <1>5. x # 0 /\ x - 1 \in 0 .. N /\ x - 1 < N /\ (x - 1) + 1 = x
    BY <1>4
  <1>6. x - 1 \notin S
    BY <1>4, <1>5
  <1>7. x - 1 \in T
    BY <1>5, <1>6 DEF T
  <1> QED
    BY <1>3, <1>4, <1>5, <1>7

\* The demultiplexer after each of the items it has received.
After(received, n, f) ==
    f = [k \in 0 .. n |-> IF k = 0 THEN Opened ELSE Demux(f[k - 1], received[k])]

\* There is such a sequence of states, and its last is the result.
LEMMA DemultiplexerRuns ==
  ASSUME NEW received, Len(received) \in Nat
  PROVE  \E f : After(received, Len(received), f) /\ Demultiplex(received) = f[Len(received)]
  <1> DEFINE N == Len(received)
             S == {n \in Nat : \E f : After(received, n, f)}
  <1>1. 0 \in S
    <2> DEFINE f == [k \in 0 .. 0 |-> Opened]
    <2>1. f = [k \in 0 .. 0 |-> IF k = 0 THEN Opened ELSE Demux(f[k - 1], received[k])]
      OBVIOUS
    <2> HIDE DEF f
    <2> QED
      BY <2>1 DEF After
  <1>2. ASSUME NEW n \in S PROVE n + 1 \in S
    <2>1. PICK f : After(received, n, f)
      OBVIOUS
    <2> DEFINE g == [k \in 0 .. n + 1 |-> IF k <= n THEN f[k] ELSE Demux(f[n], received[n + 1])]
    <2>2. n \in Nat
      OBVIOUS
    <2>3. ASSUME NEW k \in 0 .. n + 1
          PROVE  g[k] = IF k = 0 THEN Opened ELSE Demux(g[k - 1], received[k])
      <3>1. CASE k <= n
        <4>1. g[k] = f[k]
          BY <3>1
        <4>2. f[k] = IF k = 0 THEN Opened ELSE Demux(f[k - 1], received[k])
          BY <2>1, <2>2, <3>1 DEF After
        <4>3. k # 0 => g[k - 1] = f[k - 1]
          BY <2>2, <3>1
        <4> HIDE DEF g
        <4> QED
          BY <4>1, <4>2, <4>3
      <3>2. CASE ~(k <= n)
        <4>1. k = n + 1 /\ k # 0 /\ k - 1 = n
          BY <2>2, <3>2
        <4>2. g[k] = Demux(f[n], received[n + 1]) /\ g[n] = f[n]
          BY <2>2, <4>1
        <4> HIDE DEF g
        <4> QED
          BY <4>1, <4>2
      <3> QED
        BY <3>1, <3>2
    <2>4. g = [k \in 0 .. n + 1 |-> g[k]]
      OBVIOUS
    <2> HIDE DEF g
    <2>5. After(received, n + 1, g)
      BY <2>3, <2>4 DEF After
    <2> QED
      BY <2>2, <2>5
  <1>3. N \in S
    <2> HIDE DEF S
    <2>1. S \in SUBSET Nat
      BY DEF S
    <2>2. N \in 0 .. N
      OBVIOUS
    <2> QED
      BY <1>1, <1>2, <2>1, <2>2, UpTo
  <1>4. \E f : After(received, N, f)
    BY <1>3
  <1> DEFINE F == CHOOSE f : After(received, N, f)
  <1>5. After(received, N, F)
    BY <1>4
  <1>6. Demultiplex(received) = F[N]
    BY DEF Demultiplex, After
  <1> QED
    BY <1>5, <1>6

\* d is what the demultiplexer makes of the first n items of the log: it knows
\* which frame the next item is in, and has written the bytes of each stream.
Follows(d, n) ==
    /\ d \in [need : Nat, stream : Streams, lost : {FALSE}, written : [Streams -> Seq(Bytes)]]
    /\ d.need = 0 => \A h \in 1 .. n : IsHeader(log[h]) => h + log[h].len <= n
    /\ d.need > 0 => \E h \in 1 .. n :
         IsHeader(log[h]) /\ h + log[h].len = n + d.need /\ d.stream = log[h].stream
    /\ \A s \in Streams : \A i \in 1 .. Len(d.written[s]) : d.written[s][i].of = s
    /\ \A s \in Streams : \A i \in 1 .. Len(d.written[s]) - 1 :
         Succeeds(d.written[s][i + 1], d.written[s][i])
    /\ \A s \in Streams : d.written[s] # <<>> => \E j \in 1 .. n :
         /\ log[j] = d.written[s][Len(d.written[s])]
         /\ \A k \in j + 1 .. n : ~IsHeader(log[k]) => log[k].of # s

\* What an item of the log is.
LEMMA ItemOfLog ==
  ASSUME Types, NEW i \in Index
  PROVE  /\ i \in Nat /\ Len(log) \in Nat
         /\ IsHeader(log[i]) => log[i].len \in Nat \ {0} /\ log[i].stream \in Streams
         /\ ~IsHeader(log[i]) => log[i] \in Bytes
  <1>1. Len(log) \in Nat /\ log[i] \in Item
    BY LenProperties, ElementOfSeq DEF Types, Index
  <1>2. i \in Nat
    BY <1>1 DEF Index
  <1>3. IsHeader(log[i]) => log[i].len \in Nat \ {0} /\ log[i].stream \in Streams
    BY <1>1, HeaderOrByte DEF Headers
  <1>4. ~IsHeader(log[i]) => log[i] \in Bytes
    BY <1>1, HeaderOrByte DEF Item
  <1> QED
    BY <1>1, <1>2, <1>3, <1>4

\* Whose byte a byte is.
LEMMA ByteOfPipe ==
  ASSUME NEW x \in Bytes
  PROVE  \E p \in Pipes, n \in Nat \ {0} :
           x = Said(p, n) /\ x.run = p[1] /\ x.of = p[2] /\ x.num = n
  <1>1. x.run \in Runs /\ x.of \in Streams /\ x.num \in Nat \ {0}
    BY DEF Bytes
  <1>2. <<x.run, x.of>> \in Pipes
    BY <1>1 DEF Pipes
  <1>3. x = Said(<<x.run, x.of>>, x.num)
    BY DEF Bytes, Said, Byte
  <1> QED
    BY <1>1, <1>2, <1>3

\* A header that is not the last item has its payload behind it.
LEMMA PayloadFollows ==
  ASSUME IInv, ~torn, NEW h \in Index, IsHeader(log[h]), h < Len(log),
         NEW i \in h + 1 .. h + log[h].len
  PROVE  i \in Index /\ ~IsHeader(log[i]) /\ log[i].of = log[h].stream
  <1>1. Whole(h)
    BY ItemOfLog DEF IInv, FrameInv, FramesAreWhole
  <1>2. /\ h \in Nat /\ Len(log) \in Nat
        /\ log[h].len \in Nat \ {0}
    BY ItemOfLog DEF IInv
  <1>3. i \in Index /\ i - h \in 1 .. log[h].len /\ h + (i - h) = i
    BY <1>1, <1>2 DEF Whole, Index
  <1>4. PICK p \in Pipes, n \in Nat : p[2] = log[h].stream /\ log[i] = Said(p, n + (i - h))
    BY <1>1, <1>3 DEF Whole
  <1>5. n + (i - h) \in Nat \ {0}
    BY <1>2, <1>3
  <1>6. log[i] \in Bytes
    BY <1>4, <1>5, BytesDiffer
  <1>7. log[i].of = p[2]
    BY <1>4 DEF Said, Byte
  <1> QED
    BY <1>3, <1>4, <1>6, <1>7, HeaderOrByte

\* The demultiplexer expects a header where there is one, and only there.
LEMMA HeaderExpected ==
  ASSUME IInv, ~torn, NEW n \in Nat, n < Len(log), NEW d, Follows(d, n)
  PROVE  /\ IsHeader(log[n + 1]) <=> d.need = 0
         /\ ~IsHeader(log[n + 1]) => log[n + 1].of = d.stream
  <1>1. n + 1 \in Index /\ Len(log) \in Nat
    BY LenProperties DEF IInv, Types, Index
  <1>2. d.need \in Nat
    BY DEF Follows
  <1>3. CASE d.need = 0
    <2>1. ASSUME ~IsHeader(log[n + 1]) PROVE FALSE
      <3>1. PICK h \in 1 .. n : IsHeader(log[h]) /\ n + 1 <= h + log[h].len
        <4>1. \E h \in 1 .. (n + 1) - 1 : IsHeader(log[h]) /\ n + 1 <= h + log[h].len
          BY <1>1, <2>1 DEF IInv, FrameInv, FramesAreWhole
        <4>2. (n + 1) - 1 = n
          OBVIOUS
        <4> QED
          BY <4>1, <4>2
      <3>2. h + log[h].len <= n /\ h \in Index
        BY <1>1, <1>3, <3>1 DEF Follows, Index
      <3>3. h \in Nat /\ log[h].len \in Nat
        BY <3>1, <3>2, ItemOfLog DEF IInv
      <3> QED
        BY <3>1, <3>2, <3>3
    <2> QED
      BY <1>3, <2>1
  <1>4. CASE d.need > 0
    <2>1. PICK h \in 1 .. n :
            IsHeader(log[h]) /\ h + log[h].len = n + d.need /\ d.stream = log[h].stream
      BY <1>4 DEF Follows
    <2>2. h \in Index /\ h < Len(log) /\ n + 1 \in h + 1 .. h + log[h].len
      BY <1>1, <1>2, <1>4, <2>1 DEF Index
    <2> QED
      BY <1>4, <2>1, <2>2, PayloadFollows
  <1> QED
    BY <1>2, <1>3, <1>4

\* A byte succeeds the last byte of its stream before it.
LEMMA NextByteSucceeds ==
  ASSUME IInv, ~torn, NEW i \in Index, NEW j \in 1 .. i - 1,
         ~IsHeader(log[i]), ~IsHeader(log[j]), log[i].of = log[j].of,
         \A k \in j + 1 .. i - 1 : ~IsHeader(log[k]) => log[k].of # log[i].of
  PROVE  Succeeds(log[i], log[j])
  <1>1. i \in Nat /\ j \in Index /\ j \in Nat /\ j < i
    BY ItemOfLog DEF IInv, Index
  <1>2. PICK p \in Pipes, n \in Nat \ {0} :
          log[i] = Said(p, n) /\ log[i].run = p[1] /\ log[i].of = p[2] /\ log[i].num = n
    BY ItemOfLog, ByteOfPipe DEF IInv
  <1>3. PICK q \in Pipes, m \in Nat \ {0} :
          log[j] = Said(q, m) /\ log[j].run = q[1] /\ log[j].of = q[2] /\ log[j].num = m
    BY <1>1, ItemOfLog, ByteOfPipe DEF IInv
  <1>4. q[1] <= p[1] /\ p[1] \in Nat /\ q[1] \in Nat
    <2>1. q[1] <= p[1]
      BY <1>1, <1>2, <1>3 DEF IInv, OrderInv, StreamsInOrder
    <2> QED
      BY <2>1 DEF Pipes, Runs
  <1>5. CASE q[1] < p[1]
    BY <1>2, <1>3, <1>4, <1>5 DEF Succeeds
  <1>6. CASE q[1] = p[1]
    <2>1. q = p
      BY <1>2, <1>3, <1>6 DEF Pipes
    <2>2. m < n
      BY <1>1, <1>2, <1>3, <2>1 DEF IInv, OrderInv, StreamsInOrder
    <2>3. PICK k \in 1 .. i - 1 : log[k] = Said(p, n - 1)
      BY <1>2, <2>2 DEF IInv, OrderInv, StreamsInOrder
    <2>4. n - 1 \in Nat \ {0} /\ k \in Index
      BY <1>1, <2>2 DEF Index
    <2>5. ~IsHeader(log[k]) /\ log[k].of = log[i].of
      <3>1. log[k] \in Bytes
        BY <2>3, <2>4, BytesDiffer
      <3>2. log[k].of = p[2]
        BY <2>3 DEF Said, Byte
      <3> QED
        BY <1>2, <3>1, <3>2, HeaderOrByte
    <2>6. k <= j
      BY <1>1, <2>4, <2>5
    <2>7. ~(k < j)
      <3>1. k < j => n - 1 < m
        BY <1>1, <1>3, <2>1, <2>3, <2>4 DEF IInv, OrderInv, StreamsInOrder
      <3> QED
        BY <2>2, <3>1
    <2>8. k = j
      BY <1>1, <2>4, <2>6, <2>7 DEF Index
    <2>9. m = n - 1
      BY <1>3, <2>3, <2>4, <2>8, BytesDiffer
    <2> QED
      BY <1>2, <1>3, <1>6, <2>9 DEF Succeeds
  <1> QED
    BY <1>4, <1>5, <1>6

\* It follows the log item by item.
LEMMA DemuxFollows ==
  ASSUME IInv, ~torn, NEW n \in Nat, n < Len(log), NEW d, Follows(d, n)
  PROVE  Follows(Demux(d, log[n + 1]), n + 1)
  <1> DEFINE x == log[n + 1]
             e == Demux(d, x)
  <1>1. n + 1 \in Index /\ Len(log) \in Nat
    BY LenProperties DEF IInv, Types, Index
  <1>2. d \in [need : Nat, stream : Streams, lost : {FALSE}, written : [Streams -> Seq(Bytes)]]
    BY DEF Follows
  <1>3. /\ IsHeader(x) <=> d.need = 0
        /\ ~IsHeader(x) => x.of = d.stream
    BY HeaderExpected
  <1>4. \A h \in 1 .. n : /\ h \in Index /\ h < Len(log) /\ h \in Nat
                          /\ IsHeader(log[h]) => log[h].len \in Nat
    <2>1. \A h \in 1 .. n : h \in Index /\ h < Len(log)
      BY <1>1 DEF Index
    <2> QED
      BY <2>1, ItemOfLog DEF IInv
  <1>5. CASE IsHeader(x)
    <2>1. x.len \in Nat \ {0} /\ x.stream \in Streams
      BY <1>1, <1>5, ItemOfLog DEF IInv
    <2>2. e = [d EXCEPT !.need = x.len, !.stream = x.stream]
      <3>1. ~d.lost /\ ~(d.need > 0) /\ IsHeader(x)
        <4>1. ~d.lost
          BY <1>2
        <4>2. d.need = 0
          BY <1>3, <1>5
        <4> QED
          BY <1>5, <4>1, <4>2
      <3> HIDE DEF x
      <3> QED
        BY <3>1 DEF Demux
    <2> HIDE DEF e, x
    <2>3. /\ e \in [need : Nat, stream : Streams, lost : {FALSE}, written : [Streams -> Seq(Bytes)]]
          /\ e.need = x.len /\ e.stream = x.stream /\ e.written = d.written
      BY <1>2, <2>1, <2>2
    <2>4. e.need > 0 => \E h \in 1 .. n + 1 :
            IsHeader(log[h]) /\ h + log[h].len = (n + 1) + e.need /\ e.stream = log[h].stream
      BY <1>5, <2>3 DEF x
    <2>5. \A s \in Streams : e.written[s] # <<>> => \E j \in 1 .. n + 1 :
            /\ log[j] = e.written[s][Len(e.written[s])]
            /\ \A k \in j + 1 .. n + 1 : ~IsHeader(log[k]) => log[k].of # s
      <3> SUFFICES ASSUME NEW s \in Streams, d.written[s] # <<>>
                   PROVE  \E j \in 1 .. n + 1 :
                            /\ log[j] = d.written[s][Len(d.written[s])]
                            /\ \A k \in j + 1 .. n + 1 : ~IsHeader(log[k]) => log[k].of # s
        BY <2>3
      <3>1. PICK j \in 1 .. n : /\ log[j] = d.written[s][Len(d.written[s])]
                                /\ \A k \in j + 1 .. n : ~IsHeader(log[k]) => log[k].of # s
        BY DEF Follows
      <3>2. \A k \in j + 1 .. n + 1 : k \in j + 1 .. n \/ k = n + 1
        OBVIOUS
      <3> QED
        BY <1>5, <3>1, <3>2 DEF x
    <2>6. e.need # 0
      BY <2>1, <2>3
    <2>7. /\ \A s \in Streams : \A i \in 1 .. Len(e.written[s]) : e.written[s][i].of = s
          /\ \A s \in Streams : \A i \in 1 .. Len(e.written[s]) - 1 :
               Succeeds(e.written[s][i + 1], e.written[s][i])
      BY <2>3 DEF Follows
    <2>8. Follows(e, n + 1)
      BY <2>3, <2>4, <2>5, <2>6, <2>7 DEF Follows
    <2> QED
      BY <2>8 DEF e, x
  <1>6. CASE ~IsHeader(x)
    <2> DEFINE t == d.stream
               w == d.written[t]
    <2>1. x \in Bytes /\ x.of = t /\ t \in Streams /\ w \in Seq(Bytes) /\ d.need > 0
      BY <1>1, <1>2, <1>3, <1>6, ItemOfLog DEF IInv
    <2>2. e = [d EXCEPT !.need = @ - 1, !.written[d.stream] = Append(@, x)]
      <3>1. ~d.lost /\ d.need > 0 /\ ~IsHeader(x)
        <4>1. ~d.lost
          BY <1>2
        <4> QED
          BY <1>6, <2>1, <4>1
      <3> HIDE DEF x
      <3> QED
        BY <3>1 DEF Demux
    <2>3. /\ Append(w, x) \in Seq(Bytes) /\ Len(Append(w, x)) = Len(w) + 1
          /\ Len(w) \in Nat
          /\ \A i \in 1 .. Len(w) : Append(w, x)[i] = w[i]
          /\ Append(w, x)[Len(w) + 1] = x
      <3> HIDE DEF x, w
      <3> QED
        BY <2>1, AppendProperties, LenProperties
    <2> HIDE DEF e, x
    <2>4. /\ e \in [need : Nat, stream : Streams, lost : {FALSE}, written : [Streams -> Seq(Bytes)]]
          /\ e.need = d.need - 1 /\ e.stream = t
          /\ e.written[t] = Append(w, x)
          /\ \A s \in Streams \ {t} : e.written[s] = d.written[s]
      <3> DEFINE v == [d.written EXCEPT ![t] = Append(w, x)]
      <3>1. /\ v \in [Streams -> Seq(Bytes)] /\ v[t] = Append(w, x)
            /\ \A s \in Streams \ {t} : v[s] = d.written[s]
        BY <1>2, <2>1, <2>3
      <3>2. e = [d EXCEPT !.need = d.need - 1, !.written = v]
        BY <2>2
      <3>3. d.need - 1 \in Nat
        BY <1>2, <2>1
      <3> HIDE DEF v, w
      <3>4. e = [d EXCEPT !.need = d.need - 1, !.written = v]
        BY <3>2
      <3>5. /\ e \in [need : Nat, stream : Streams, lost : {FALSE}, written : [Streams -> Seq(Bytes)]]
            /\ e.need = d.need - 1 /\ e.stream = t /\ e.written = v
        BY <1>2, <3>1, <3>3, <3>4
      <3> QED
        BY <3>1, <3>5
    <2>5. PICK h \in 1 .. n : IsHeader(log[h]) /\ h + log[h].len = n + d.need /\ t = log[h].stream
      BY <2>1 DEF Follows
    <2> HIDE DEF t, w
    <2>6. e.need = 0 => \A g \in 1 .. n + 1 : IsHeader(log[g]) => g + log[g].len <= n + 1
      <3> SUFFICES ASSUME e.need = 0, NEW g \in 1 .. n + 1, IsHeader(log[g])
                   PROVE  g + log[g].len <= n + 1
        OBVIOUS
      <3>1. g \in 1 .. n
        BY <1>6 DEF x
      <3>2. h + log[h].len = n + 1
        BY <1>2, <2>4, <2>5
      <3>3. CASE g < h
        <4>1. h \notin g + 1 .. g + log[g].len
          BY <1>4, <2>5, <3>1, PayloadFollows
        <4> QED
          BY <1>4, <2>5, <3>1, <3>3, <4>1
      <3>4. CASE h < g
        <4>1. g \in h + 1 .. h + log[h].len
          BY <1>4, <2>5, <3>1, <3>2, <3>4
        <4> QED
          BY <1>4, <2>5, <4>1, PayloadFollows
      <3> QED
        BY <1>4, <2>5, <3>1, <3>2, <3>3, <3>4
    <2>7. e.need > 0 => \E g \in 1 .. n + 1 :
            IsHeader(log[g]) /\ g + log[g].len = (n + 1) + e.need /\ e.stream = log[g].stream
      <3>1. h \in 1 .. n + 1 /\ h + log[h].len = (n + 1) + e.need
        BY <1>2, <1>4, <2>4, <2>5
      <3> QED
        BY <2>4, <2>5, <3>1
    <2>8. ASSUME NEW s \in Streams, s # t
          PROVE  /\ \A i \in 1 .. Len(e.written[s]) : e.written[s][i].of = s
                 /\ \A i \in 1 .. Len(e.written[s]) - 1 : Succeeds(e.written[s][i + 1], e.written[s][i])
                 /\ e.written[s] # <<>> => \E j \in 1 .. n + 1 :
                      /\ log[j] = e.written[s][Len(e.written[s])]
                      /\ \A k \in j + 1 .. n + 1 : ~IsHeader(log[k]) => log[k].of # s
      <3>1. e.written[s] = d.written[s]
        BY <2>4, <2>8
      <3>2. d.written[s] # <<>> => \E j \in 1 .. n + 1 :
              /\ log[j] = d.written[s][Len(d.written[s])]
              /\ \A k \in j + 1 .. n + 1 : ~IsHeader(log[k]) => log[k].of # s
        <4> SUFFICES ASSUME d.written[s] # <<>>
                     PROVE  \E j \in 1 .. n + 1 :
                              /\ log[j] = d.written[s][Len(d.written[s])]
                              /\ \A k \in j + 1 .. n + 1 : ~IsHeader(log[k]) => log[k].of # s
          OBVIOUS
        <4>1. PICK j \in 1 .. n : /\ log[j] = d.written[s][Len(d.written[s])]
                                  /\ \A k \in j + 1 .. n : ~IsHeader(log[k]) => log[k].of # s
          BY DEF Follows
        <4>2. \A k \in j + 1 .. n + 1 : k \in j + 1 .. n \/ k = n + 1
          OBVIOUS
        <4>3. log[n + 1].of # s
          BY <2>1, <2>8 DEF x
        <4> QED
          BY <4>1, <4>2, <4>3
      <3> QED
        BY <3>1, <3>2 DEF Follows
    <2>9. \A i \in 1 .. Len(e.written[t]) : e.written[t][i].of = t
      <3>1. \A i \in 1 .. Len(w) : w[i].of = t
        BY <2>1 DEF Follows, w
      <3>2. \A i \in 1 .. Len(w) + 1 : i \in 1 .. Len(w) \/ i = Len(w) + 1
        BY <2>3
      <3> QED
        BY <2>1, <2>3, <2>4, <3>1, <3>2
    <2>10. \A i \in 1 .. Len(e.written[t]) - 1 : Succeeds(e.written[t][i + 1], e.written[t][i])
      <3> SUFFICES ASSUME NEW i \in 1 .. Len(w)
                   PROVE  Succeeds(Append(w, x)[i + 1], w[i])
        <4>1. Len(e.written[t]) - 1 = Len(w) /\ \A i \in 1 .. Len(w) : e.written[t][i] = w[i]
          BY <2>3, <2>4
        <4>2. \A i \in 1 .. Len(w) : Succeeds(Append(w, x)[i + 1], w[i])
          OBVIOUS
        <4> QED
          BY <2>4, <4>1, <4>2
      <3>1. CASE i < Len(w)
        <4>1. Succeeds(w[i + 1], w[i])
          <5>1. i \in 1 .. Len(w) - 1
            BY <2>3, <3>1
          <5>2. \A k \in 1 .. Len(w) - 1 : Succeeds(w[k + 1], w[k])
            BY <2>1 DEF Follows, w
          <5> QED
            BY <5>1, <5>2
        <4>2. Append(w, x)[i + 1] = w[i + 1]
          BY <2>3, <3>1
        <4> QED
          BY <4>1, <4>2
      <3>2. CASE i = Len(w)
        <4>1. w # <<>>
          BY <2>1, <2>3, <3>2, EmptySeq
        <4>2. PICK j \in 1 .. n : /\ log[j] = w[Len(w)]
                                  /\ \A k \in j + 1 .. n : ~IsHeader(log[k]) => log[k].of # t
          BY <2>1, <4>1 DEF Follows, w
        <4>3. log[j].of = t /\ ~IsHeader(log[j])
          <5>1. w[Len(w)] \in Bytes
            BY <2>1, <2>3, <3>2, ElementOfSeq
          <5>2. w[Len(w)].of = t
            BY <2>1, <2>3, <3>2 DEF Follows, w
          <5> QED
            BY <4>2, <5>1, <5>2, HeaderOrByte
        <4>4. j \in 1 .. (n + 1) - 1 /\ \A k \in j + 1 .. (n + 1) - 1 : ~IsHeader(log[k]) => log[k].of # t
          BY <4>2
        <4>5. Succeeds(x, log[j])
          BY <1>1, <1>6, <2>1, <4>3, <4>4, NextByteSucceeds DEF x
        <4>6. Append(w, x)[i + 1] = x
          BY <2>3, <3>2
        <4> QED
          BY <3>2, <4>2, <4>5, <4>6
      <3> QED
        BY <2>3, <3>1, <3>2
    <2>11. \E j \in 1 .. n + 1 :
             /\ log[j] = e.written[t][Len(e.written[t])]
             /\ \A k \in j + 1 .. n + 1 : ~IsHeader(log[k]) => log[k].of # t
      <3>1. log[n + 1] = e.written[t][Len(e.written[t])]
        BY <2>3, <2>4 DEF x
      <3> QED
        BY <3>1
    <2>12. \A s \in Streams : \A i \in 1 .. Len(e.written[s]) : e.written[s][i].of = s
      BY <2>8, <2>9
    <2>13. \A s \in Streams : \A i \in 1 .. Len(e.written[s]) - 1 :
             Succeeds(e.written[s][i + 1], e.written[s][i])
      BY <2>8, <2>10
    <2>14. \A s \in Streams : e.written[s] # <<>> => \E j \in 1 .. n + 1 :
             /\ log[j] = e.written[s][Len(e.written[s])]
             /\ \A k \in j + 1 .. n + 1 : ~IsHeader(log[k]) => log[k].of # s
      BY <2>8, <2>11
    <2>15. Follows(e, n + 1)
      BY <2>4, <2>6, <2>7, <2>12, <2>13, <2>14 DEF Follows
    <2> QED
      BY <2>15 DEF e, x
  <1> QED
    BY <1>5, <1>6

\* What a client makes of any part of the log that it has been sent.
LEMMA ClientFollows ==
  ASSUME IInv, ~torn, NEW m \in 0 .. Len(log)
  PROVE  Follows(Demultiplex(SubSeq(log, 1, m)), m)
  <1> DEFINE r == SubSeq(log, 1, m)
  <1>1. log \in Seq(Item) /\ Len(log) \in Nat
    BY LenProperties DEF IInv, Types
  <1>2. Len(r) = m /\ \A i \in 1 .. m : r[i] = log[i]
    BY <1>1, SubSeqProperties
  <1> HIDE DEF r
  <1>3. m \in Nat
    BY <1>1
  <1>4. PICK f : After(r, m, f) /\ Demultiplex(r) = f[m]
    BY <1>2, <1>3, DemultiplexerRuns
  <1> DEFINE S == {n \in Nat : n <= m => Follows(f[n], n)}
  <1>5. 0 \in S
    <2>1. f[0] = Opened
      BY <1>3, <1>4 DEF After
    <2>2. Follows(Opened, 0)
      <3>1. <<>> \in Seq(Bytes) /\ Len(<<>>) = 0
        BY EmptySeq
      <3>2. Opened \in [need : Nat, stream : Streams, lost : {FALSE}, written : [Streams -> Seq(Bytes)]]
        <4>1. (CHOOSE s \in Streams : TRUE) \in Streams
          BY LogStreamAssumption
        <4>2. [s \in Streams |-> <<>>] \in [Streams -> Seq(Bytes)]
          BY <3>1
        <4> QED
          BY <4>1, <4>2 DEF Opened
      <3>3. Opened.need = 0 /\ \A s \in Streams : Opened.written[s] = <<>>
        BY DEF Opened
      <3>4. /\ \A h \in 1 .. 0 : FALSE
            /\ \A s \in Streams : \A i \in 1 .. Len(Opened.written[s]) : FALSE
            /\ \A s \in Streams : \A i \in 1 .. Len(Opened.written[s]) - 1 : FALSE
        BY <3>1, <3>3
      <3> QED
        BY <3>2, <3>3, <3>4 DEF Follows, Opened
    <2> QED
      BY <2>1, <2>2
  <1>6. ASSUME NEW n \in S, n < m PROVE n + 1 \in S
    <2>1. n \in Nat /\ Follows(f[n], n) /\ n < Len(log)
      BY <1>1, <1>3, <1>6
    <2>2. f[n + 1] = Demux(f[n], r[n + 1])
      <3>1. n + 1 \in 0 .. m /\ n + 1 # 0 /\ (n + 1) - 1 = n
        BY <1>3, <1>6, <2>1
      <3> QED
        BY <1>4, <3>1 DEF After
    <2>3. r[n + 1] = log[n + 1]
      BY <1>2, <1>3, <1>6, <2>1
    <2>4. Follows(f[n + 1], n + 1)
      BY <2>1, <2>2, <2>3, DemuxFollows
    <2> QED
      BY <2>1, <2>4
  <1>7. m \in S
    <2>1. S \in SUBSET Nat /\ m \in 0 .. m
      BY <1>3
    <2> HIDE DEF S
    <2> QED
      BY <1>3, <1>5, <1>6, <2>1, UpTo
  <1>8. Follows(f[m], m)
    BY <1>3, <1>7
  <1> QED
    BY <1>4, <1>8 DEF r

\* Every client reads each stream's bytes as that stream, in order and without a
\* gap inside a run, for any requests, runs, bytes and sizes of a read.
THEOREM ClientsReadWhatWasSaid == Spec => []FramesIntact
  <1>1. IInv => FramesIntact
    <2> SUFFICES ASSUME IInv, ~torn, NEW q \in Requests
                 PROVE  LET d == Demultiplex(SubSeq(log, 1, req[q].pos)) IN
                        /\ ~d.lost
                        /\ \A s \in Streams : LET w == d.written[s] IN
                             /\ \A i \in 1 .. Len(w) : w[i].of = s
                             /\ \A i \in 1 .. Len(w) - 1 : Succeeds(w[i + 1], w[i])
      BY DEF FramesIntact
    <2>1. req[q].pos \in 0 .. Len(log)
      BY LenProperties DEF IInv, ReqInv, Types, ReqTypes, Request
    <2>2. Follows(Demultiplex(SubSeq(log, 1, req[q].pos)), req[q].pos)
      BY <2>1, ClientFollows
    <2> QED
      BY <2>2 DEF Follows
  <1> QED
    BY <1>1, Invariance, PTL
=============================================================================
