------------------------------ MODULE EventBus -------------------------------
(***************************************************************************)
(* The daemon's event bus (internal/events/events.go) and the handlers     *)
(* that stream it to API clients (internal/api/handlers/events.go).        *)
(*                                                                         *)
(* Publishers are the goroutines of the daemon that publish: requests and  *)
(* waiters.  A subscriber is one streaming request: it subscribes once,    *)
(* reads its channel and unsubscribes when it ends.  Of an event only its  *)
(* place in a buffer matters.  The bus's RWMutex is held for reading by    *)
(* the publishers that are sending; what is done under its write lock is   *)
(* one step, possible while nobody sends.                                  *)
(***************************************************************************)
EXTENDS Naturals, FiniteSets

CONSTANTS
    Publishers,
    Subscribers,
    Buffer          \* capacity of a subscriber's channel, DefaultBufferSize

ASSUME BufferAssumption == Buffer \in Nat \ {0}

VARIABLES
    subs,           \* EventBus.subscribers
    queued,         \* events waiting in each subscriber's channel
    closes,         \* how often each channel has been closed
    reader,         \* each streaming handler
    pc,             \* each publisher
    todo,           \* subscribers a publisher has still to send to
    slow,           \* subscribers it found with a full channel
    missed          \* history: subscribers that were refused an event

vars == <<subs, queued, closes, reader, pc, todo, slow, missed>>

TypeOK ==
    /\ subs \subseteq Subscribers
    /\ queued \in [Subscribers -> 0 .. Buffer]
    /\ closes \in [Subscribers -> Nat]
    /\ reader \in [Subscribers -> {"new", "reading", "leaving", "done"}]
    /\ pc \in [Publishers -> {"idle", "sending", "sweeping"}]
    /\ todo \in [Publishers -> SUBSET Subscribers]
    /\ slow \in [Publishers -> SUBSET Subscribers]
    /\ missed \subseteq Subscribers

Init ==
    /\ subs = {}
    /\ queued = [s \in Subscribers |-> 0]
    /\ closes = [s \in Subscribers |-> 0]
    /\ reader = [s \in Subscribers |-> "new"]
    /\ pc = [p \in Publishers |-> "idle"]
    /\ todo = [p \in Publishers |-> {}]
    /\ slow = [p \in Publishers |-> {}]
    /\ missed = {}

WriteLockFree == \A p \in Publishers : pc[p] # "sending"

\* Remove from the map and close, in one critical section.
Drop(S) ==
    /\ subs' = subs \ S
    /\ closes' = [s \in Subscribers |->
                    IF s \in S THEN closes[s] + 1 ELSE closes[s]]

-----------------------------------------------------------------------------
(* Subscribe, StreamEvents and the unsubscribe function.                   *)

Subscribe(s) ==
    /\ reader[s] = "new"
    /\ WriteLockFree
    /\ subs' = subs \cup {s}
    /\ reader' = [reader EXCEPT ![s] = "reading"]
    /\ UNCHANGED <<queued, closes, pc, todo, slow, missed>>

\* Take an event and encode it to the client.
Read(s) ==
    /\ reader[s] = "reading"
    /\ queued[s] > 0
    /\ queued' = [queued EXCEPT ![s] = @ - 1]
    /\ UNCHANGED <<subs, closes, reader, pc, todo, slow, missed>>

\* The channel is closed and drained, or the client is gone (encode error,
\* request context done).
EndOfStream(s) ==
    /\ reader[s] = "reading"
    /\ closes[s] > 0 /\ queued[s] = 0
    /\ reader' = [reader EXCEPT ![s] = "leaving"]
    /\ UNCHANGED <<subs, queued, closes, pc, todo, slow, missed>>

ClientGone(s) ==
    /\ reader[s] = "reading"
    /\ reader' = [reader EXCEPT ![s] = "leaving"]
    /\ UNCHANGED <<subs, queued, closes, pc, todo, slow, missed>>

\* Mutant: it closes without the bus's lock.
UnsubscribeUnlocked(s) ==
    /\ reader[s] = "leaving"
    /\ Drop({s} \cap subs)
    /\ reader' = [reader EXCEPT ![s] = "done"]
    /\ UNCHANGED <<queued, pc, todo, slow, missed>>

\* Mutant: a handler that returns without unsubscribing.
LeaveSubscribed(s) ==
    /\ reader[s] = "leaving"
    /\ reader' = [reader EXCEPT ![s] = "done"]
    /\ UNCHANGED <<subs, queued, closes, pc, todo, slow, missed>>

\* The deferred unsub(): under the lock, and only while still in the map.
Unsubscribe(s) ==
    /\ reader[s] = "leaving"
    /\ WriteLockFree
    /\ Drop({s} \cap subs)
    /\ reader' = [reader EXCEPT ![s] = "done"]
    /\ UNCHANGED <<queued, pc, todo, slow, missed>>

-----------------------------------------------------------------------------
(* Publish.                                                                *)

RLock(p) ==
    /\ pc[p] = "idle"
    /\ pc' = [pc EXCEPT ![p] = "sending"]
    /\ todo' = [todo EXCEPT ![p] = subs]
    /\ slow' = [slow EXCEPT ![p] = {}]
    /\ UNCHANGED <<subs, queued, closes, reader, missed>>

\* Mutant: a send that waits for room.
SendBlocking(p, s) ==
    /\ pc[p] = "sending"
    /\ s \in todo[p]
    /\ todo' = [todo EXCEPT ![p] = @ \ {s}]
    /\ queued[s] < Buffer
    /\ queued' = [queued EXCEPT ![s] = @ + 1]
    /\ UNCHANGED <<subs, closes, reader, pc, slow, missed>>

\* Mutant: an event dropped without marking its subscriber.
SendForgetful(p, s) ==
    /\ pc[p] = "sending"
    /\ s \in todo[p]
    /\ todo' = [todo EXCEPT ![p] = @ \ {s}]
    /\ IF queued[s] < Buffer
       THEN queued' = [queued EXCEPT ![s] = @ + 1] /\ UNCHANGED missed
       ELSE missed' = missed \cup {s} /\ UNCHANGED queued
    /\ UNCHANGED <<subs, closes, reader, pc, slow>>

\* The select with a default: never waits for the subscriber.
Send(p, s) ==
    /\ pc[p] = "sending"
    /\ s \in todo[p]
    /\ todo' = [todo EXCEPT ![p] = @ \ {s}]
    /\ \/ /\ queued[s] < Buffer
          /\ queued' = [queued EXCEPT ![s] = @ + 1]
          /\ UNCHANGED <<slow, missed>>
       \/ /\ queued[s] = Buffer
          /\ slow' = [slow EXCEPT ![p] = @ \cup {s}]
          /\ missed' = missed \cup {s}
          /\ UNCHANGED queued
    /\ UNCHANGED <<subs, closes, reader, pc>>

RUnlock(p) ==
    /\ pc[p] = "sending"
    /\ todo[p] = {}
    /\ pc' = [pc EXCEPT ![p] = "sweeping"]
    /\ UNCHANGED <<subs, queued, closes, reader, todo, slow, missed>>

\* Mutant: no second look at the map after the lock was given up.
SweepUnchecked(p) ==
    /\ pc[p] = "sweeping"
    /\ WriteLockFree
    /\ Drop(slow[p])
    /\ pc' = [pc EXCEPT ![p] = "idle"]
    /\ slow' = [slow EXCEPT ![p] = {}]
    /\ UNCHANGED <<queued, reader, todo, missed>>

\* The write lock is taken afresh; whoever left the map meanwhile was closed.
Sweep(p) ==
    /\ pc[p] = "sweeping"
    /\ WriteLockFree
    /\ Drop(slow[p] \cap subs)
    /\ pc' = [pc EXCEPT ![p] = "idle"]
    /\ slow' = [slow EXCEPT ![p] = {}]
    /\ UNCHANGED <<queued, reader, todo, missed>>

-----------------------------------------------------------------------------
Publish(p) == RLock(p) \/ (\E s \in Subscribers : Send(p, s)) \/ RUnlock(p)
              \/ Sweep(p)

Stream(s) == \/ Subscribe(s) \/ Read(s) \/ EndOfStream(s) \/ ClientGone(s)
             \/ Unsubscribe(s)

Next == \/ \E p \in Publishers : Publish(p)
        \/ \E s \in Subscribers : Stream(s)

Spec == Init /\ [][Next]_vars

(* A publisher that has begun goes on, and a goroutine waiting for the      *)
(* write lock gets it although new readers keep coming (sync.RWMutex lets   *)
(* no new reader in while a writer waits).  Of a reader only its way out is *)
(* fair: its client may read as slowly as it likes, or never.               *)
Fairness ==
    /\ \A p \in Publishers :
          /\ WF_vars((\E s \in Subscribers : Send(p, s)) \/ RUnlock(p))
          /\ SF_vars(Sweep(p))
    /\ \A s \in Subscribers : SF_vars(Unsubscribe(s))

FairSpec == Spec /\ Fairness

-----------------------------------------------------------------------------
(* Properties.                                                             *)

\* No event is ever sent on a closed channel, which would panic the daemon,
\* although evictions and unsubscriptions close channels between the sends.
NoSendOnClosed ==
    \A p \in Publishers : \A s \in todo[p] : closes[s] = 0

\* Two publishers that found the same subscriber slow, and its own
\* unsubscription, close its channel once between them.
ClosedOnce == \A s \in Subscribers : closes[s] <= 1

\* A subscriber in the map that has been refused an event is on its way out:
\* some publisher still holds it as slow.  No stream goes on for good after
\* a gap.
MissedMeansEvicted ==
    \A s \in missed \cap subs : \E p \in Publishers : s \in slow[p]

\* The map does not collect the channels of handlers that have returned.
NoLeakedSubscription ==
    \A s \in subs : reader[s] \in {"reading", "leaving"} /\ closes[s] = 0

\* A publish, hence the container operation that publishes, always returns,
\* whatever the readers do.
PublishReturns == \A p \in Publishers : pc[p] # "idle" ~> pc[p] = "idle"

=============================================================================
