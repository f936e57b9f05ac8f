--------------------------- MODULE EventBusProofs ----------------------------
(***************************************************************************)
(* Proofs about EventBus, for any publishers, subscribers and capacity.    *)
(***************************************************************************)
EXTENDS EventBus, TLAPS

\* Only a publisher that holds the read lock has sends to do, all of them to
\* subscribers of the map; only between its first send and its sweep does it
\* remember slow ones.
PublisherInv ==
    \A p \in Publishers :
        /\ todo[p] # {} => pc[p] = "sending"
        /\ todo[p] \subseteq subs
        /\ pc[p] = "idle" => slow[p] = {}

\* A channel is closed when, and only when, it leaves the map.
SubscriberInv ==
    \A s \in Subscribers :
        /\ s \in subs => reader[s] \in {"reading", "leaving"} /\ closes[s] = 0
        /\ reader[s] = "new" => closes[s] = 0 /\ s \notin missed

Inv == /\ TypeOK
       /\ PublisherInv
       /\ SubscriberInv
       /\ ClosedOnce
       /\ MissedMeansEvicted

\* The empty bus has the invariant.
LEMMA InitInv == Init => Inv
  BY BufferAssumption DEF Init, Inv, TypeOK, PublisherInv, SubscriberInv,
     ClosedOnce, MissedMeansEvicted

\* The critical section that removes and closes channels, run while nobody
\* sends: it takes from the map only what was open.
LEMMA DropClosesOpenChannels ==
  ASSUME Inv, NEW S \in SUBSET subs, Drop(S), WriteLockFree,
         UNCHANGED <<todo, missed, queued>>
  PROVE  /\ subs' \subseteq subs
         /\ closes' \in [Subscribers -> Nat]
         /\ ClosedOnce'
         /\ \A s \in subs' : closes'[s] = 0 /\ s \notin S
         /\ \A s \in Subscribers : s \notin subs => closes'[s] = closes[s]
         /\ \A p \in Publishers : todo'[p] \subseteq subs'
  <1>1. \A p \in Publishers : todo[p] = {}
    BY DEF Inv, PublisherInv, WriteLockFree
  <1>2. closes' \in [Subscribers -> Nat]
    BY DEF Inv, TypeOK, Drop
  <1>3. ClosedOnce'
    BY DEF Inv, TypeOK, SubscriberInv, ClosedOnce, Drop
  <1> QED
    BY <1>1, <1>2, <1>3 DEF Inv, TypeOK, SubscriberInv, Drop

\* Every step of the bus keeps the invariant.
LEMMA NextInv == Inv /\ [Next]_vars => Inv'
  <1> SUFFICES ASSUME Inv, [Next]_vars PROVE Inv'
    OBVIOUS
  <1> USE DEF Inv, TypeOK
  <1>1. ASSUME NEW s \in Subscribers, Subscribe(s) PROVE Inv'
    BY <1>1 DEF Subscribe, PublisherInv, SubscriberInv, ClosedOnce,
       MissedMeansEvicted, WriteLockFree
  <1>2. ASSUME NEW s \in Subscribers, Read(s) PROVE Inv'
    <2>1. queued' \in [Subscribers -> 0 .. Buffer]
      BY <1>2, BufferAssumption DEF Read
    <2> QED
      BY <1>2, <2>1 DEF Read, PublisherInv, SubscriberInv, ClosedOnce,
         MissedMeansEvicted
  <1>3. ASSUME NEW s \in Subscribers, EndOfStream(s) \/ ClientGone(s)
        PROVE  Inv'
    BY <1>3 DEF EndOfStream, ClientGone, PublisherInv, SubscriberInv,
       ClosedOnce, MissedMeansEvicted
  <1>4. ASSUME NEW s \in Subscribers, Unsubscribe(s) PROVE Inv'
    <2>1. /\ Drop({s} \cap subs) /\ WriteLockFree /\ reader[s] = "leaving"
          /\ reader' = [reader EXCEPT ![s] = "done"]
          /\ UNCHANGED <<queued, pc, todo, slow, missed>>
      BY <1>4 DEF Unsubscribe
    <2>2. /\ subs' \subseteq subs
          /\ closes' \in [Subscribers -> Nat]
          /\ ClosedOnce'
          /\ \A t \in subs' : closes'[t] = 0 /\ t \notin {s} \cap subs
          /\ \A t \in Subscribers : t \notin subs => closes'[t] = closes[t]
          /\ \A p \in Publishers : todo'[p] \subseteq subs'
      BY <2>1, DropClosesOpenChannels
    <2>3. TypeOK' /\ PublisherInv'
      BY <2>1, <2>2 DEF PublisherInv
    <2>4. SubscriberInv'
      BY <2>1, <2>2 DEF SubscriberInv
    <2>5. MissedMeansEvicted'
      BY <2>1, <2>2 DEF MissedMeansEvicted
    <2> QED
      BY <2>2, <2>3, <2>4, <2>5
  <1>5. ASSUME NEW p \in Publishers, RLock(p) PROVE Inv'
    BY <1>5 DEF RLock, PublisherInv, SubscriberInv, ClosedOnce,
       MissedMeansEvicted
  <1>6. ASSUME NEW p \in Publishers, NEW s \in Subscribers, Send(p, s)
        PROVE  Inv'
    <2>1. /\ TypeOK' /\ PublisherInv' /\ ClosedOnce'
      BY <1>6, BufferAssumption DEF Send, PublisherInv, ClosedOnce
    <2>2. s \in subs
      BY <1>6 DEF Send, PublisherInv
    <2>3. SubscriberInv'
      BY <1>6, <2>2 DEF Send, SubscriberInv
    <2>4. MissedMeansEvicted'
      BY <1>6 DEF Send, MissedMeansEvicted
    <2> QED
      BY <2>1, <2>3, <2>4
  <1>7. ASSUME NEW p \in Publishers, RUnlock(p) PROVE Inv'
    BY <1>7 DEF RUnlock, PublisherInv, SubscriberInv, ClosedOnce,
       MissedMeansEvicted
  <1>8. ASSUME NEW p \in Publishers, Sweep(p) PROVE Inv'
    <2>1. /\ Drop(slow[p] \cap subs) /\ WriteLockFree
          /\ pc' = [pc EXCEPT ![p] = "idle"]
          /\ slow' = [slow EXCEPT ![p] = {}]
          /\ UNCHANGED <<queued, reader, todo, missed>>
      BY <1>8 DEF Sweep
    <2>2. /\ subs' \subseteq subs
          /\ closes' \in [Subscribers -> Nat]
          /\ ClosedOnce'
          /\ \A t \in subs' : closes'[t] = 0 /\ t \notin slow[p] \cap subs
          /\ \A t \in Subscribers : t \notin subs => closes'[t] = closes[t]
          /\ \A q \in Publishers : todo'[q] \subseteq subs'
      BY <2>1, DropClosesOpenChannels
    <2>3. TypeOK'
      BY <2>1, <2>2
    <2>4. PublisherInv'
      BY <2>1, <2>2, <1>8 DEF PublisherInv, WriteLockFree
    <2>5. SubscriberInv'
      BY <2>1, <2>2 DEF SubscriberInv
    <2>6. MissedMeansEvicted'
      BY <2>1, <2>2 DEF MissedMeansEvicted
    <2> QED
      BY <2>2, <2>3, <2>4, <2>5, <2>6
  <1>9. CASE UNCHANGED vars
    BY <1>9 DEF vars, PublisherInv, SubscriberInv, ClosedOnce,
       MissedMeansEvicted
  <1> QED
    BY <1>1, <1>2, <1>3, <1>4, <1>5, <1>6, <1>7, <1>8, <1>9
       DEF Next, Publish, Stream

\* The inductive invariant holds in every reachable state.
THEOREM Invariance == Spec => []Inv
  BY InitInv, NextInv, PTL DEF Spec

\* No publisher ever sends on a closed channel (events.go Publish).
THEOREM SendsAreSafe == Spec => []NoSendOnClosed
  <1>1. Inv => NoSendOnClosed
    BY DEF Inv, TypeOK, PublisherInv, SubscriberInv, NoSendOnClosed
  <1> QED
    BY <1>1, Invariance, PTL

\* No channel is closed twice, by evictions and unsubscription together.
THEOREM ChannelsCloseOnce == Spec => []ClosedOnce
  <1>1. Inv => ClosedOnce
    BY DEF Inv
  <1> QED
    BY <1>1, Invariance, PTL

\* A subscriber that missed an event is about to be evicted.
THEOREM GapsEndStreams == Spec => []MissedMeansEvicted
  <1>1. Inv => MissedMeansEvicted
    BY DEF Inv
  <1> QED
    BY <1>1, Invariance, PTL

\* The map holds open channels of handlers that are still there, only.
THEOREM SubscriptionsEnd == Spec => []NoLeakedSubscription
  <1>1. Inv => NoLeakedSubscription
    BY DEF Inv, TypeOK, SubscriberInv, NoLeakedSubscription
  <1> QED
    BY <1>1, Invariance, PTL
=============================================================================
