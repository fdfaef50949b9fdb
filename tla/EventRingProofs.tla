-------------------------- MODULE EventRingProofs --------------------------
(***************************************************************************)
(* The safety of EventRing for every ring size, every set of threads and   *)
(* any number of events, provided one thread only makes the first claim    *)
(* (SoleFirstThread): the assumption the code states and does not enforce, *)
(* since claimProducer checks and stores in two steps.                     *)
(***************************************************************************)
EXTENDS EventRing, TLAPS, FiniteSetTheorems, SequenceTheorems

\* The main ring is fed by the server thread; the packet ring by the event
\* loop the connection is pinned to.
SoleFirstThread == \A t, u \in FirstThreads : t = u
-----------------------------------------------------------------------------
(* The inductive invariant *)

\* At most one thread is past claimProducer.
Ownership ==
  /\ \A t \in Threads : pc[t] = "bind" => t \in FirstThreads /\ producer = NoThread
  /\ \A t \in Threads : pc[t] \in {"claim", "payload", "header", "publish"} =>
       producer = t

\* The cached index lags the real one, so the window it allows is safe.
Indices ==
  /\ writeLocal = writeIdx
  /\ readCache <= readIdx
  /\ readIdx <= writeIdx
  /\ writeIdx <= readCache + Slots
  /\ \A t \in Threads : Filling(t) => seq[t] = writeIdx /\ writeIdx < readCache + Slots

Drain ==
  /\ cpc # "idle" => readIdx <= r /\ r <= w /\ w <= writeIdx
  /\ cpc = "payload" => r < w /\ head = accepted[r + 1]
  /\ cpc = "idle" => batch = <<>>

\* What the two sides have exchanged ...
Output ==
  /\ Len(accepted) = writeIdx
  /\ Len(encoded) = readIdx
  /\ Len(batch) = Reached - readIdx
  /\ \A k \in 1 .. readIdx : encoded[k] = <<accepted[k], accepted[k]>>
  /\ \A k \in 1 .. Reached - readIdx :
       batch[k] = <<accepted[readIdx + k], accepted[readIdx + k]>>

\* ... and what the slots hold: the events awaiting the drain, the one being
\* written, and no forgotten side array.
Memory ==
  /\ \A s \in Reached .. writeIdx - 1 :
       /\ header[SlotOf(s)] = accepted[s + 1]
       /\ PayloadAt(SlotOf(s)) = accepted[s + 1]
  /\ \A t \in Threads : pc[t] \in {"header", "publish"} =>
       PayloadAt(SlotOf(seq[t])) = ev[t]
  /\ \A t \in Threads : pc[t] = "publish" => header[SlotOf(seq[t])] = ev[t]
  /\ \A i \in Slot : overflow[i] # NoEvent =>
       \/ \E s \in Reached .. writeIdx - 1 : SlotOf(s) = i
       \/ \E t \in Threads : pc[t] \in {"header", "publish"} /\ SlotOf(seq[t]) = i

IInv == TypeOK /\ Ownership /\ Indices /\ Drain /\ Output /\ Memory
-----------------------------------------------------------------------------
(* Arithmetic of slot numbers *)

\* Division with remainder, in the form the provers need.
LEMMA Remainder ==
  ASSUME NEW a \in Nat, NEW n \in Nat \ {0}
  PROVE  a % n \in 0 .. n - 1 /\ a \div n \in Int /\ a = n * (a \div n) + (a % n)
BY SMT

\* A positive multiple of n is at least n.
LEMMA Multiple == ASSUME NEW k \in Int, NEW n \in Nat \ {0}, k >= 1 PROVE n * k >= n
BY SMT

\* Sequence numbers less than a full ring apart use different slots.
LEMMA DistinctSlots ==
  ASSUME NEW a \in Nat, NEW b \in Nat, a < b, b < a + Slots
  PROVE  SlotOf(a) # SlotOf(b)
<1> DEFINE q == a \div Slots
           p == b \div Slots
           k == p - q
<1> SUFFICES ASSUME a % Slots = b % Slots PROVE FALSE
  BY DEF SlotOf
<1>1. /\ q \in Int /\ a = Slots * q + (a % Slots) /\ a % Slots \in Int
      /\ p \in Int /\ b = Slots * p + (b % Slots) /\ b % Slots \in Int
  BY Remainder, RingAssumption
<1>2. Slots * k = Slots * p - Slots * q
  BY <1>1, RingAssumption
<1> HIDE DEF q, p
<1>3. Slots * q \in Int /\ Slots * p \in Int /\ k \in Int
  BY <1>1, RingAssumption
<1>4. Slots * k = b - a
  BY <1>1, <1>2, <1>3
<1>5. CASE k >= 1
  <2>1. Slots * k >= Slots
    BY <1>5, <1>3, Multiple, RingAssumption
  <2> QED
    BY <2>1, <1>4, RingAssumption
<1>6. CASE k <= 0
  <2>1. Slots * k <= 0
    BY <1>6, <1>3, RingAssumption, SMT
  <2> QED
    BY <2>1, <1>4
<1> QED
  BY <1>3, <1>5, <1>6

\* Every sequence number has a slot.
LEMMA SlotOfType == \A s \in Nat : SlotOf(s) \in Slot
BY Remainder, RingAssumption DEF SlotOf, Slot

\* Zeroed memory has the type of an event.
LEMMA NoEventIsEvent == NoEvent \in Event
BY RingAssumption DEF NoEvent, Event, Path
-----------------------------------------------------------------------------
(* Each part of the invariant is preserved by every action *)

\* EventRing's constructor: an empty ring satisfies the invariant.
LEMMA InitEstablishes == Init => IInv
<1> SUFFICES ASSUME Init PROVE IInv
  OBVIOUS
<1> USE RingAssumption DEF Init
<1>1. TypeOK
  BY DEF TypeOK, Event, NoEvent, Path, Slot, Steps
<1>2. Ownership /\ Indices /\ Drain
  BY DEF Ownership, Indices, Drain, Filling
<1>3. Output
  BY DEF Output, Reached
<1>4. Memory
  BY DEF Memory, Reached
<1> QED
  BY <1>1, <1>2, <1>3, <1>4 DEF IInv

\* The two outcomes of a claim.
LEMMA ClaimCases ==
  ASSUME TypeOK, NEW t \in Threads, Claim(t)
  PROVE  /\ readCache' = Refreshed
         /\ \/ /\ seq' = seq /\ dropped' = dropped + 1
               /\ pc' = [pc EXCEPT ![t] = "idle"]
            \/ /\ writeLocal < Refreshed + Slots /\ dropped' = dropped
               /\ seq' = [seq EXCEPT ![t] = writeLocal]
               /\ pc' = [pc EXCEPT ![t] = "payload"]
<1>1. Refreshed \in Nat /\ Full \in BOOLEAN
  BY RingAssumption DEF Full, Refreshed, TypeOK
<1>2. CASE Full
  BY <1>2 DEF Claim
<1>3. CASE ~Full
  <2>1. writeLocal < Refreshed + Slots
    BY <1>1, <1>3, RingAssumption DEF Full, TypeOK
  <2> QED
    BY <1>3, <2>1 DEF Claim
<1> QED
  BY <1>1, <1>2, <1>3

\* No step takes a field out of its type, the drain's limit included.
LEMMA TypePreserved == ASSUME IInv, Next PROVE TypeOK'
<1> USE RingAssumption DEF TypeOK, Slot, Steps, indexVars, slotVars, countVars,
                           prodVars, drainVars
<1>0. TypeOK
  BY DEF IInv
<1>1. ASSUME NEW t \in Threads, Offer(t) PROVE TypeOK'
  <2>1. PICK p \in Path : ev' = [ev EXCEPT ![t] = <<offers + 1, p>>]
    BY <1>1 DEF Offer
  <2>2. <<offers + 1, p>> \in Event
    BY <1>0, <1>1, SMTT(30) DEF Offer, Event
  <2>3. ev' \in [Threads -> Event]
    BY <1>0, <2>1, <2>2
  <2>4. pc' \in [Threads -> Steps]
    BY <1>0, <1>1 DEF Offer, Admitted
  <2> QED
    BY <1>0, <1>1, <2>3, <2>4 DEF Offer
<1>2. ASSUME NEW t \in Threads, Bind(t) PROVE TypeOK'
  BY <1>0, <1>2 DEF Bind
<1>3. ASSUME NEW t \in Threads, Claim(t) PROVE TypeOK'
  <2>1. readCache' \in Nat
    BY <1>0, <1>3 DEF Claim, Refreshed
  <2>2. dropped' \in Nat
    <3>1. dropped' \in {dropped, dropped + 1}
      BY <1>0, <1>3, ClaimCases
    <3> QED
      BY <1>0, <3>1
  <2>3. pc' \in [Threads -> Steps]
    BY <1>0, <1>3, ClaimCases
  <2>4. seq' \in [Threads -> Nat]
    BY <1>0, <1>3, ClaimCases
  <2> QED
    BY <1>0, <1>3, <2>1, <2>2, <2>3, <2>4 DEF Claim
<1>4. ASSUME NEW t \in Threads, WritePayload(t) PROVE TypeOK'
  <2>1. ev[t] \in Event
    BY <1>0
  <2>2. inline' \in [Slot -> Event] /\ overflow' \in [Slot -> Event]
    <3>1. /\ [inline EXCEPT ![SlotOf(seq[t])] = ev[t]] \in [Slot -> Event]
          /\ [overflow EXCEPT ![SlotOf(seq[t])] = ev[t]] \in [Slot -> Event]
          /\ [overflow EXCEPT ![SlotOf(seq[t])] = NoEvent] \in [Slot -> Event]
      BY <1>0, <2>1, NoEventIsEvent
    <3> QED
      BY <1>0, <1>4, <3>1 DEF WritePayload
  <2>3. pc' \in [Threads -> Steps]
    BY <1>0, <1>4 DEF WritePayload
  <2> QED
    BY <1>0, <1>4, <2>2, <2>3 DEF WritePayload
<1>5. ASSUME NEW t \in Threads, WriteHeader(t) PROVE TypeOK'
  BY <1>0, <1>5 DEF WriteHeader
<1>6. ASSUME NEW t \in Threads, Publish(t) PROVE TypeOK'
  <2>1. accepted' \in Seq(Event)
    BY <1>0, <1>6 DEF Publish
  <2>2. pc' \in [Threads -> Steps]
    BY <1>0, <1>6 DEF Publish
  <2> QED
    BY <1>0, <1>6, <2>1, <2>2 DEF Publish
<1>7. CASE BeginDrain
  BY <1>0, <1>7 DEF BeginDrain, IInv, Indices
<1>8. CASE ReadHeader
  <2>1. SlotOf(r) \in Slot
    BY <1>0, SlotOfType
  <2> QED
    BY <1>0, <1>8, <2>1 DEF ReadHeader
<1>9. CASE TakePayload
  <2>1. SlotOf(r) \in Slot
    BY <1>0, SlotOfType
  <2>2. PayloadAt(SlotOf(r)) \in Event
    BY <1>0, <2>1 DEF PayloadAt
  <2>3. batch' \in Seq(Event \X Event)
    BY <1>0, <1>9, <2>2 DEF TakePayload
  <2>4. overflow' \in [Slot -> Event]
    <3>1. overflow' = [overflow EXCEPT ![SlotOf(r)] = NoEvent]
      BY <1>9 DEF TakePayload, DropReference
    <3> QED
      BY <1>0, <3>1, NoEventIsEvent
  <2>5. r' \in Nat /\ w' \in r' .. r' + Slots
    BY <1>0, <1>9 DEF TakePayload, IInv, Drain
  <2> QED
    BY <1>0, <1>9, <2>3, <2>4, <2>5 DEF TakePayload
<1>10. CASE EndDrain
  BY <1>0, <1>10 DEF EndDrain
<1> QED
  BY <1>1, <1>2, <1>3, <1>4, <1>5, <1>6, <1>7, <1>8, <1>9, <1>10
  DEF Next, Produce, Consume

\* claimProducer lets one thread past, as long as one thread can open the ring.
LEMMA OwnershipPreserved == ASSUME SoleFirstThread, IInv, Next PROVE Ownership'
<1> USE RingAssumption DEF Ownership, indexVars, slotVars, countVars, prodVars, drainVars
<1>0. TypeOK /\ Ownership
  BY DEF IInv
<1> USE DEF TypeOK, Steps
<1>1. ASSUME NEW t \in Threads, Offer(t) PROVE Ownership'
  <2>1. pc' = [pc EXCEPT ![t] = Admitted(t)] /\ producer' = producer
    BY <1>1 DEF Offer
  <2>2. producer = NoThread => t \in FirstThreads
    BY <1>1 DEF Offer
  <2> QED
    BY <1>0, <2>1, <2>2 DEF Admitted
<1>2. ASSUME NEW t \in Threads, Bind(t) PROVE Ownership'
  BY <1>0, <1>2 DEF Bind, SoleFirstThread
<1>3. ASSUME NEW t \in Threads, Claim(t) PROVE Ownership'
  <2>1. producer' = producer /\ pc[t] = "claim"
    BY <1>3 DEF Claim
  <2> QED
    BY <1>0, <1>3, <2>1, ClaimCases
<1>4. ASSUME NEW t \in Threads, WritePayload(t) PROVE Ownership'
  BY <1>0, <1>4 DEF WritePayload
<1>5. ASSUME NEW t \in Threads, WriteHeader(t) PROVE Ownership'
  BY <1>0, <1>5 DEF WriteHeader
<1>6. ASSUME NEW t \in Threads, Publish(t) PROVE Ownership'
  BY <1>0, <1>6 DEF Publish
<1>7. CASE Consume
  BY <1>0, <1>7 DEF Consume, BeginDrain, ReadHeader, TakePayload, EndDrain
<1> QED
  BY <1>1, <1>2, <1>3, <1>4, <1>5, <1>6, <1>7 DEF Next, Produce

\* Two threads are never past claimProducer together.
LEMMA OneFilling ==
  ASSUME Ownership, NEW t \in Threads, NEW u \in Threads,
         pc[t] \in {"claim", "payload", "header", "publish"},
         pc[u] \in {"claim", "payload", "header", "publish"}
  PROVE  t = u
BY DEF Ownership

\* claim, publish and the drain's last store keep the four indices in order.
LEMMA IndicesPreserved == ASSUME IInv, Next PROVE Indices'
<1> USE RingAssumption DEF Indices, Filling, indexVars, slotVars, countVars,
                           prodVars, drainVars
<1>0. TypeOK /\ Ownership /\ Indices /\ Drain
  BY DEF IInv
<1> USE DEF TypeOK, Steps
<1>1. ASSUME NEW t \in Threads, Offer(t) PROVE Indices'
  <2>1. pc' = [pc EXCEPT ![t] = Admitted(t)] /\ UNCHANGED <<indexVars, seq>>
    BY <1>1 DEF Offer
  <2> QED
    BY <1>0, <2>1 DEF Admitted
<1>2. ASSUME NEW t \in Threads, Bind(t) PROVE Indices'
  BY <1>0, <1>2 DEF Bind
<1>3. ASSUME NEW t \in Threads, Claim(t) PROVE Indices'
  <2>1. /\ pc[t] = "claim"
        /\ UNCHANGED <<writeIdx, readIdx, writeLocal>>
    BY <1>3 DEF Claim
  <2>2. /\ Refreshed \in Nat /\ Refreshed <= readIdx
        /\ readCache <= Refreshed
    BY <1>0 DEF Refreshed
  <2>3. ASSUME NEW u \in Threads, Filling(u) PROVE u = t
    BY <1>0, <2>1, <2>3, OneFilling
  <2> QED
    BY <1>0, <1>3, <2>1, <2>2, <2>3, ClaimCases
<1>4. ASSUME NEW t \in Threads, WritePayload(t) PROVE Indices'
  BY <1>0, <1>4 DEF WritePayload
<1>5. ASSUME NEW t \in Threads, WriteHeader(t) PROVE Indices'
  BY <1>0, <1>5 DEF WriteHeader
<1>6. ASSUME NEW t \in Threads, Publish(t) PROVE Indices'
  <2>1. ASSUME NEW u \in Threads, Filling(u) PROVE u = t
    BY <1>0, <1>6, <2>1, OneFilling DEF Publish
  <2>2. \A u \in Threads : ~Filling(u)'
    BY <1>0, <1>6, <2>1 DEF Publish
  <2> QED
    BY <1>0, <1>6, <2>2 DEF Publish
<1>7. CASE BeginDrain
  BY <1>0, <1>7 DEF BeginDrain
<1>8. CASE ReadHeader
  BY <1>0, <1>8 DEF ReadHeader
<1>9. CASE TakePayload
  BY <1>0, <1>9 DEF TakePayload
<1>10. CASE EndDrain
  BY <1>0, <1>10 DEF EndDrain, Drain, MoreToRead
<1> QED
  BY <1>1, <1>2, <1>3, <1>4, <1>5, <1>6, <1>7, <1>8, <1>9, <1>10
  DEF Next, Produce, Consume

\* Indexing into a concatenation.
LEMMA ConcatAt ==
  ASSUME NEW S, NEW a \in Seq(S), NEW b \in Seq(S)
  PROVE  /\ Len(a \o b) = Len(a) + Len(b)
         /\ \A k \in 1 .. Len(a) : (a \o b)[k] = a[k]
         /\ \A k \in Len(a) + 1 .. Len(a) + Len(b) : (a \o b)[k] = b[k - Len(a)]
OBVIOUS

\* Indexing into a sequence with one element more.
LEMMA AppendAt ==
  ASSUME NEW S, NEW a \in Seq(S), NEW x \in S
  PROVE  /\ Len(Append(a, x)) = Len(a) + 1
         /\ \A k \in 1 .. Len(a) : Append(a, x)[k] = a[k]
         /\ Append(a, x)[Len(a) + 1] = x
OBVIOUS

\* The drain stays between what was released and what is published, and an
\* event published meanwhile does not disturb the header it has read.
LEMMA DrainPreserved == ASSUME IInv, Next PROVE Drain'
<1> USE RingAssumption DEF Drain, indexVars, slotVars, countVars, prodVars, drainVars
<1>0. TypeOK /\ Ownership /\ Indices /\ Drain /\ Output /\ Memory
  BY DEF IInv
<1> USE DEF TypeOK
<1>1. ASSUME NEW t \in Threads, Offer(t) \/ Bind(t) \/ Claim(t)
                                \/ WritePayload(t) \/ WriteHeader(t)
      PROVE  Drain'
  BY <1>0, <1>1 DEF Offer, Bind, Claim, WritePayload, WriteHeader
<1>2. ASSUME NEW t \in Threads, Publish(t) PROVE Drain'
  <2>1. /\ writeIdx' = writeIdx + 1
        /\ accepted' = Append(accepted, ev[t])
        /\ UNCHANGED <<readIdx, drainVars>>
    BY <1>0, <1>2 DEF Publish, Indices, Filling
  <2>2. \A k \in 1 .. Len(accepted) : accepted'[k] = accepted[k]
    BY <1>0, <2>1
  <2> QED
    BY <1>0, <2>1, <2>2 DEF Output
<1>3. CASE BeginDrain
  BY <1>0, <1>3 DEF BeginDrain, Indices
<1>4. CASE ReadHeader
  <2>1. head' = accepted[r + 1]
    BY <1>0, <1>4 DEF ReadHeader, MoreToRead, Memory, Reached
  <2> QED
    BY <1>0, <1>4, <2>1 DEF ReadHeader, MoreToRead
<1>5. CASE TakePayload
  BY <1>0, <1>5 DEF TakePayload
<1>6. CASE EndDrain
  BY <1>0, <1>6 DEF EndDrain
<1> QED
  BY <1>1, <1>2, <1>3, <1>4, <1>5, <1>6 DEF Next, Produce, Consume

\* What encodeTo has produced stays a prefix of what was published.
LEMMA OutputPreserved == ASSUME IInv, Next PROVE Output'
<1> USE RingAssumption DEF Output, Reached, indexVars, slotVars, countVars,
                           prodVars, drainVars
<1>0. TypeOK /\ Ownership /\ Indices /\ Drain /\ Output /\ Memory
  BY DEF IInv
<1>t. /\ readIdx \in Nat /\ writeIdx \in Nat /\ r \in Nat /\ w \in Nat
      /\ cpc \in {"idle", "drain", "payload"}
      /\ accepted \in Seq(Event) /\ ev \in [Threads -> Event]
      /\ batch \in Seq(Event \X Event) /\ encoded \in Seq(Event \X Event)
  BY <1>0 DEF TypeOK
<1>1. ASSUME NEW t \in Threads, Offer(t) \/ Bind(t) \/ Claim(t)
                                \/ WritePayload(t) \/ WriteHeader(t)
      PROVE  Output'
  BY <1>0, <1>t, <1>1 DEF Offer, Bind, Claim, WritePayload, WriteHeader
<1>2. ASSUME NEW t \in Threads, Publish(t) PROVE Output'
  <2>1. /\ writeIdx' = writeIdx + 1
        /\ accepted' = Append(accepted, ev[t])
        /\ UNCHANGED <<readIdx, drainVars>>
    BY <1>0, <1>t, <1>2 DEF Publish, Indices, Filling
  <2>2. /\ Len(accepted') = writeIdx'
        /\ \A k \in 1 .. Len(accepted) : accepted'[k] = accepted[k]
    BY <1>0, <1>t, <2>1
  <2>3. Reached <= writeIdx
    BY <1>0, <1>t DEF Drain, Indices
  <2> QED
    BY <1>0, <1>t, <2>1, <2>2, <2>3
<1>3. CASE BeginDrain
  BY <1>0, <1>t, <1>3 DEF BeginDrain, Drain
<1>4. CASE ReadHeader
  BY <1>0, <1>t, <1>4 DEF ReadHeader
<1>5. CASE TakePayload
  <2>1. readIdx <= r /\ r < writeIdx /\ head = accepted[r + 1]
    BY <1>0, <1>t, <1>5 DEF TakePayload, Drain
  <2>2. PayloadAt(SlotOf(r)) = accepted[r + 1]
    BY <1>0, <1>t, <1>5, <2>1 DEF TakePayload, Memory
  <2>3. batch' = Append(batch, <<accepted[r + 1], accepted[r + 1]>>)
    BY <1>5, <2>1, <2>2 DEF TakePayload
  <2> DEFINE e == <<accepted[r + 1], accepted[r + 1]>>
  <2>4. e \in Event \X Event
    BY <1>0, <1>t, <2>1
  <2>5. Len(batch) = r - readIdx
    BY <1>0, <1>t, <1>5 DEF TakePayload
  <2> HIDE DEF e
  <2>6. /\ Len(batch') = Len(batch) + 1
        /\ \A k \in 1 .. Len(batch) : batch'[k] = batch[k]
        /\ batch'[Len(batch) + 1] = e
    <3>1. batch' = Append(batch, e)
      BY <2>3 DEF e
    <3> QED
      BY <1>t, <2>4, <3>1, AppendAt
  <2>7. /\ UNCHANGED <<accepted, writeIdx, readIdx, encoded>>
        /\ r' = r + 1 /\ cpc' = "drain" /\ cpc = "payload"
    BY <1>5 DEF TakePayload
  <2>8. ASSUME NEW k \in 1 .. r + 1 - readIdx
        PROVE  batch'[k] = <<accepted[readIdx + k], accepted[readIdx + k]>>
    <3>1. CASE k = r + 1 - readIdx
      <4>1. readIdx + k = r + 1 /\ k = Len(batch) + 1
        BY <1>t, <2>1, <2>5, <3>1
      <4> QED
        BY <2>6, <4>1 DEF e
    <3>2. CASE k \in 1 .. r - readIdx
      BY <1>0, <2>5, <2>6, <2>7, <3>2
    <3> QED
      BY <1>t, <2>1, <3>1, <3>2
  <2>9. Reached' = r + 1 /\ Reached = r
    BY <2>7
  <2>10. Len(batch') = r + 1 - readIdx
    BY <1>t, <2>1, <2>5, <2>6
  <2> HIDE DEF Reached
  <2> QED
    BY <1>0, <1>t, <2>7, <2>8, <2>9, <2>10
<1>6. CASE EndDrain
  <2>1. /\ readIdx <= r /\ r <= writeIdx /\ cpc = "drain"
        /\ Len(batch) = r - readIdx
        /\ \A k \in 1 .. r - readIdx :
             batch[k] = <<accepted[readIdx + k], accepted[readIdx + k]>>
    BY <1>0, <1>t, <1>6, SMTT(30) DEF EndDrain, Drain
  <2>2. /\ readIdx' = r /\ cpc' = "idle" /\ batch' = <<>>
        /\ encoded' = encoded \o batch
        /\ UNCHANGED <<accepted, writeIdx>>
    BY <1>6 DEF EndDrain
  <2>a. /\ Len(encoded') = Len(encoded) + Len(batch)
        /\ \A k \in 1 .. Len(encoded) : encoded'[k] = encoded[k]
        /\ \A k \in Len(encoded) + 1 .. Len(encoded) + Len(batch) :
             encoded'[k] = batch[k - Len(encoded)]
    BY <1>t, <2>2, ConcatAt
  <2>3. Len(encoded') = r
    BY <1>0, <1>t, <2>1, <2>a
  <2>4. ASSUME NEW k \in 1 .. r
        PROVE  encoded'[k] = <<accepted[k], accepted[k]>>
    <3>1. CASE k <= readIdx
      BY <1>0, <1>t, <2>a, <3>1
    <3>2. CASE k > readIdx
      <4>1. k - readIdx \in 1 .. r - readIdx /\ readIdx + (k - readIdx) = k
        BY <1>0, <1>t, <2>1, <3>2
      <4>2. encoded'[k] = batch[k - readIdx]
        BY <1>0, <1>t, <2>1, <2>a, <3>2
      <4> QED
        BY <2>1, <4>1, <4>2
    <3> QED
      BY <1>0, <1>t, <3>1, <3>2
  <2> QED
    BY <1>0, <1>t, <2>1, <2>2, <2>3, <2>4
<1> QED
  BY <1>1, <1>2, <1>3, <1>4, <1>5, <1>6 DEF Next, Produce, Consume

\* Events awaiting the drain are in different slots ...
LEMMA WindowSlots ==
  ASSUME TypeOK, Indices, Drain,
         NEW s \in Reached .. writeIdx - 1, NEW u \in Reached .. writeIdx - 1, s # u
  PROVE  SlotOf(s) # SlotOf(u)
<1>1. /\ s \in Nat /\ u \in Nat
      /\ s < u => u < s + Slots
      /\ u < s => s < u + Slots
  BY RingAssumption DEF TypeOK, Indices, Drain, Reached
<1> QED
  BY <1>1, DistinctSlots

\* ... and none of them in the slot being filled.
LEMMA FillingSlot ==
  ASSUME TypeOK, Indices, Drain, NEW t \in Threads, Filling(t),
         NEW s \in Reached .. writeIdx - 1
  PROVE  SlotOf(seq[t]) # SlotOf(s)
<1>1. /\ s \in Nat /\ writeIdx \in Nat /\ s < writeIdx /\ writeIdx < s + Slots
      /\ seq[t] = writeIdx
  BY RingAssumption DEF TypeOK, Indices, Drain, Reached
<1> QED
  BY <1>1, DistinctSlots

\* Every slot of the window keeps the event published in it, and a free slot
\* its empty side array.
LEMMA MemoryPreserved == ASSUME IInv, Next PROVE Memory'
<1> USE DEF Memory, indexVars, slotVars, countVars, prodVars, drainVars
<1>0. TypeOK /\ Ownership /\ Indices /\ Drain /\ Output /\ Memory
  BY DEF IInv
<1>t. /\ readIdx \in Nat /\ writeIdx \in Nat /\ r \in Nat /\ w \in Nat
      /\ cpc \in {"idle", "drain", "payload"}
      /\ pc \in [Threads -> Steps] /\ ev \in [Threads -> Event]
      /\ seq \in [Threads -> Nat]
      /\ inline \in [Slot -> Event] /\ header \in [Slot -> Event]
      /\ overflow \in [Slot -> Event]
      /\ accepted \in Seq(Event) /\ Reached \in Nat
  BY <1>0 DEF TypeOK, Reached
<1>s. /\ \A s \in Reached .. writeIdx - 1 : s \in Nat /\ SlotOf(s) \in Slot
      /\ \A t \in Threads : SlotOf(seq[t]) \in Slot
  BY <1>t, SlotOfType
<1>1. ASSUME NEW t \in Threads, Offer(t) PROVE Memory'
  <2>1. /\ pc[t] = "idle" /\ pc' = [pc EXCEPT ![t] = Admitted(t)]
        /\ Admitted(t) \in {"bind", "claim", "idle"}
        /\ \A u \in Threads : u # t => ev'[u] = ev[u]
        /\ UNCHANGED <<indexVars, slotVars, seq, accepted, drainVars>>
    BY <1>t, <1>1 DEF Offer, Admitted
  <2> QED
    BY <1>0, <1>t, <2>1 DEF PayloadAt, Reached
<1>2. ASSUME NEW t \in Threads, Bind(t) PROVE Memory'
  BY <1>0, <1>t, <1>2 DEF Bind, PayloadAt, Reached
<1>3. ASSUME NEW t \in Threads, Claim(t) PROVE Memory'
  <2>1. /\ pc[t] = "claim"
        /\ UNCHANGED <<writeIdx, readIdx, slotVars, ev, accepted, drainVars>>
    BY <1>3 DEF Claim
  <2>2. /\ pc'[t] \in {"idle", "payload"}
        /\ \A u \in Threads : u # t => pc'[u] = pc[u] /\ seq'[u] = seq[u]
    BY <1>0, <1>t, <1>3, ClaimCases
  <2> QED
    BY ZenonT(60), <1>0, <1>t, <2>1, <2>2 DEF PayloadAt, Reached
<1>4. ASSUME NEW t \in Threads, WritePayload(t) PROVE Memory'
  <2> DEFINE i == SlotOf(seq[t])
  <2>1. /\ pc[t] = "payload" /\ pc' = [pc EXCEPT ![t] = "header"]
        /\ UNCHANGED <<indexVars, header, ev, seq, accepted, drainVars>>
    BY <1>4 DEF WritePayload
  <2>2. \A u \in Threads : pc[u] \notin {"header", "publish"}
    BY <1>0, <2>1, OneFilling
  <2>3. \A s \in Reached .. writeIdx - 1 : SlotOf(s) # i
    BY <1>0, <2>1, FillingSlot DEF Filling
  <2>4. overflow[i] = NoEvent
    BY <1>0, <1>s, <2>2, <2>3
  <2>5. \A j \in Slot : j # i => inline'[j] = inline[j] /\ overflow'[j] = overflow[j]
    BY <1>t, <1>4 DEF WritePayload
  <2>6. (IF overflow'[i] # NoEvent THEN overflow'[i] ELSE inline'[i]) = ev[t]
    BY <1>s, <1>t, <1>4, <2>4 DEF WritePayload, NoEvent
  <2> HIDE DEF i
  <2>7. \A s \in Reached .. writeIdx - 1 :
          header'[SlotOf(s)] = accepted'[s + 1] /\ PayloadAt(SlotOf(s))' = accepted'[s + 1]
    BY <1>0, <1>s, <2>1, <2>3, <2>5 DEF PayloadAt
  <2>8. \A u \in Threads : pc'[u] \in {"header", "publish"} => u = t
    BY <1>t, <2>1, <2>2
  <2>9. PayloadAt(SlotOf(seq[t]))' = ev'[t] /\ pc'[t] = "header"
    BY <1>t, <2>1, <2>6 DEF PayloadAt, i
  <2>10. ASSUME NEW j \in Slot, overflow'[j] # NoEvent
         PROVE  \/ \E s \in Reached .. writeIdx - 1 : SlotOf(s) = j
                \/ \E u \in Threads : pc'[u] \in {"header", "publish"} /\ SlotOf(seq'[u]) = j
    <3>1. CASE j = i
      BY <2>1, <2>9, <3>1 DEF i
    <3>2. CASE j # i
      BY <1>0, <2>2, <2>5, <2>10, <3>2
    <3> QED
      BY <3>1, <3>2
  <2>11. Reached' = Reached /\ writeIdx' = writeIdx /\ seq' = seq
    BY <2>1 DEF Reached
  <2> QED
    BY <2>7, <2>8, <2>9, <2>10, <2>11
<1>5. ASSUME NEW t \in Threads, WriteHeader(t) PROVE Memory'
  <2>1. /\ pc[t] = "header" /\ pc' = [pc EXCEPT ![t] = "publish"]
        /\ header' = [header EXCEPT ![SlotOf(seq[t])] = ev[t]]
        /\ UNCHANGED <<indexVars, inline, overflow, ev, seq, accepted, drainVars>>
    BY <1>5 DEF WriteHeader
  <2>2. \A s \in Reached .. writeIdx - 1 : SlotOf(s) # SlotOf(seq[t])
    BY <1>0, <2>1, FillingSlot DEF Filling
  <2>3. \A u \in Threads : pc'[u] \in {"header", "publish"} => u = t
    BY <1>0, <1>t, <2>1, OneFilling
  <2>4. Reached' = Reached /\ \A i : PayloadAt(i)' = PayloadAt(i)
    BY <2>1 DEF Reached, PayloadAt
  <2>5. \A s \in Reached .. writeIdx - 1 : header'[SlotOf(s)] = header[SlotOf(s)]
    BY <1>s, <1>t, <2>1, <2>2
  <2>6. header'[SlotOf(seq[t])] = ev[t] /\ pc'[t] = "publish"
    BY <1>s, <1>t, <2>1
  <2>7. \A i \in Slot : overflow'[i] # NoEvent =>
          \/ \E s \in Reached .. writeIdx - 1 : SlotOf(s) = i
          \/ \E u \in Threads : pc'[u] \in {"header", "publish"} /\ SlotOf(seq'[u]) = i
    BY <1>0, <1>t, <2>1
  <2> QED
    BY <1>0, <2>1, <2>3, <2>4, <2>5, <2>6, <2>7
<1>6. ASSUME NEW t \in Threads, Publish(t) PROVE Memory'
  <2>1. /\ pc[t] = "publish" /\ pc' = [pc EXCEPT ![t] = "idle"]
        /\ writeIdx' = seq[t] + 1 /\ accepted' = Append(accepted, ev[t])
        /\ UNCHANGED <<readIdx, slotVars, ev, seq, drainVars>>
    BY <1>6 DEF Publish
  <2>2. seq[t] = writeIdx /\ Len(accepted) = writeIdx /\ Reached <= writeIdx
    BY <1>0, <1>t, <2>1 DEF Indices, Filling, Output, Drain, Reached
  <2>3. /\ accepted'[writeIdx + 1] = ev[t]
        /\ \A k \in 1 .. writeIdx : accepted'[k] = accepted[k]
    BY <1>t, <2>1, <2>2, AppendAt
  <2>4. Reached' = Reached /\ \A i : PayloadAt(i)' = PayloadAt(i)
    BY <2>1 DEF Reached, PayloadAt
  <2>5. \A u \in Threads : pc'[u] \notin {"header", "publish"}
    BY <1>0, <1>t, <2>1, OneFilling
  <2>6. ASSUME NEW s \in Reached .. writeIdx
        PROVE  header'[SlotOf(s)] = accepted'[s + 1] /\ PayloadAt(SlotOf(s)) = accepted'[s + 1]
    <3>1. CASE s = writeIdx
      BY <1>0, <2>1, <2>2, <2>3, <3>1
    <3>2. CASE s \in Reached .. writeIdx - 1
      <4>1. s + 1 \in 1 .. writeIdx
        BY <1>t, <3>2
      <4> QED
        BY <1>0, <2>1, <2>3, <3>2, <4>1
    <3> QED
      BY <1>t, <3>1, <3>2
  <2>7. ASSUME NEW i \in Slot, overflow'[i] # NoEvent
        PROVE  \E s \in Reached .. writeIdx : SlotOf(s) = i
    <3>1. CASE \E s \in Reached .. writeIdx - 1 : SlotOf(s) = i
      BY <1>t, <3>1
    <3>2. CASE \E u \in Threads : pc[u] \in {"header", "publish"} /\ SlotOf(seq[u]) = i
      <4>1. SlotOf(seq[t]) = i
        BY <1>0, <2>1, <3>2, OneFilling
      <4> QED
        BY <1>t, <2>2, <4>1
    <3> QED
      BY <1>0, <2>1, <2>7, <3>1, <3>2
  <2>8. writeIdx' - 1 = writeIdx
    BY <1>t, <2>1, <2>2
  <2> QED
    BY <2>4, <2>5, <2>6, <2>7, <2>8
<1>7. CASE BeginDrain
  BY <1>0, <1>t, <1>7 DEF BeginDrain, PayloadAt, Reached
<1>8. CASE ReadHeader
  BY <1>0, <1>t, <1>8 DEF ReadHeader, PayloadAt, Reached
<1>9. CASE TakePayload
  <2>1. /\ cpc = "payload" /\ cpc' = "drain" /\ r' = r + 1
        /\ overflow' = [overflow EXCEPT ![SlotOf(r)] = NoEvent]
        /\ UNCHANGED <<indexVars, inline, header, pc, ev, seq, accepted>>
    BY <1>9 DEF TakePayload, DropReference
  <2>2. Reached = r /\ Reached' = r + 1 /\ r \in Reached .. writeIdx - 1
    BY <1>0, <1>t, <2>1 DEF Reached, Drain
  <2>3. \A j \in Slot : j # SlotOf(r) =>
          overflow'[j] = overflow[j] /\ PayloadAt(j)' = PayloadAt(j)
    BY <1>t, <2>1 DEF PayloadAt
  <2>4. overflow'[SlotOf(r)] = NoEvent
    BY <1>s, <1>t, <2>1, <2>2
  <2>5. \A s \in r + 1 .. writeIdx - 1 : s \in Reached .. writeIdx - 1 /\ SlotOf(s) # SlotOf(r)
    BY <1>0, <1>t, <2>2, WindowSlots
  <2>6. \A t \in Threads : pc[t] \in {"header", "publish"} => SlotOf(seq[t]) # SlotOf(r)
    BY <1>0, <2>2, FillingSlot DEF Filling
  <2>7. \A s \in r + 1 .. writeIdx - 1 :
          header[SlotOf(s)] = accepted[s + 1] /\ PayloadAt(SlotOf(s))' = accepted[s + 1]
    BY <1>0, <1>s, <2>3, <2>5
  <2>8. \A t \in Threads : pc[t] \in {"header", "publish"} =>
          PayloadAt(SlotOf(seq[t]))' = ev[t]
    BY <1>0, <1>s, <2>1, <2>3, <2>6
  <2>9. ASSUME NEW j \in Slot, overflow'[j] # NoEvent
        PROVE  \/ \E s \in r + 1 .. writeIdx - 1 : SlotOf(s) = j
               \/ \E t \in Threads : pc[t] \in {"header", "publish"} /\ SlotOf(seq[t]) = j
    <3>1. j # SlotOf(r) /\ overflow[j] # NoEvent
      BY <2>3, <2>4, <2>9
    <3>2. \A s \in Reached .. writeIdx - 1 : SlotOf(s) = j => s \in r + 1 .. writeIdx - 1
      BY <1>t, <2>2, <3>1
    <3> QED
      BY <1>0, <3>1, <3>2
  <2>10. UNCHANGED <<writeIdx, header, seq, pc, ev, accepted>>
    BY <2>1
  <2> QED
    BY <1>0, <2>2, <2>7, <2>8, <2>9, <2>10
<1>10. CASE EndDrain
  <2>1. Reached' = Reached
    BY <1>0, <1>10 DEF EndDrain, Reached
  <2> QED
    BY <1>0, <1>10, <2>1 DEF EndDrain, PayloadAt
<1> QED
  BY <1>1, <1>2, <1>3, <1>4, <1>5, <1>6, <1>7, <1>8, <1>9, <1>10
  DEF Next, Produce, Consume

\* The parts together: the invariant is inductive.
LEMMA InvariantPreserved == ASSUME SoleFirstThread PROVE IInv /\ [Next]_vars => IInv'
<1>1. ASSUME IInv, Next PROVE IInv'
  BY <1>1, TypePreserved, OwnershipPreserved, IndicesPreserved, DrainPreserved,
     OutputPreserved, MemoryPreserved DEF IInv
<1>2. ASSUME IInv, UNCHANGED vars PROVE IInv'
  BY <1>2 DEF IInv, TypeOK, Ownership, Indices, Drain, Output, Memory, Reached,
     Filling, PayloadAt, vars, indexVars, slotVars, countVars, prodVars, drainVars
<1> QED
  BY <1>1, <1>2
-----------------------------------------------------------------------------
(* The theorems *)

\* The invariant holds of the ring.
THEOREM RingInvariant == ASSUME SoleFirstThread PROVE Spec => []IInv
<1>1. Init => IInv
  BY InitEstablishes
<1>2. IInv /\ [Next]_vars => IInv'
  BY InvariantPreserved
<1> QED
  BY <1>1, <1>2, PTL DEF Spec

\* Types, and the bound on what a drain has left: EventRing's fields.
THEOREM RingTypes == ASSUME SoleFirstThread PROVE Spec => []TypeOK
<1>1. IInv => TypeOK
  BY DEF IInv
<1> QED
  BY <1>1, RingInvariant, PTL

\* "Each ring gets exactly one" producer, once only one thread can open it.
THEOREM RingHasOneProducer == ASSUME SoleFirstThread PROVE Spec => []OneProducerPerRing
<1>1. IInv => OneProducerPerRing
  BY OneFilling DEF IInv, OneProducerPerRing, Filling
<1> QED
  BY <1>1, RingInvariant, PTL

\* claim() never hands out a slot the drain has still to read.
THEOREM RingIsRaceFree == ASSUME SoleFirstThread PROVE Spec => []NoSlotRace
<1>1. ASSUME IInv PROVE NoSlotRace
  <2> SUFFICES ASSUME NEW t \in Threads, Filling(t), cpc # "idle", NEW s \in r .. w - 1
               PROVE  SlotOf(seq[t]) # SlotOf(s)
    BY DEF NoSlotRace
  <2>1. s \in Reached .. writeIdx - 1
    BY <1>1 DEF IInv, TypeOK, Drain, Reached
  <2> QED
    BY <1>1, <2>1, FillingSlot DEF IInv
<1> QED
  BY <1>1, RingInvariant, PTL

\* encodeTo delivers the published events, all of them, whole and in order.
THEOREM RingDeliversInOrder == ASSUME SoleFirstThread PROVE Spec => []EncodedInOrder
<1>1. ASSUME IInv PROVE EncodedInOrder
  <2> DEFINE out == encoded \o batch
  <2>1. /\ readIdx \in Nat /\ Reached \in Nat /\ writeIdx \in Nat
        /\ readIdx <= Reached /\ Reached <= writeIdx
    BY <1>1 DEF IInv, TypeOK, Drain, Indices, Reached
  <2>2. Len(encoded) = readIdx /\ Len(batch) = Reached - readIdx /\ Len(accepted) = writeIdx
    BY <1>1 DEF IInv, Output
  <2>3. /\ Len(out) = Len(encoded) + Len(batch)
        /\ \A k \in 1 .. Len(encoded) : out[k] = encoded[k]
        /\ \A k \in Len(encoded) + 1 .. Len(encoded) + Len(batch) :
             out[k] = batch[k - Len(encoded)]
    <3>1. encoded \in Seq(Event \X Event) /\ batch \in Seq(Event \X Event)
      BY <1>1 DEF IInv, TypeOK
    <3> QED
      BY <3>1, ConcatAt
  <2> HIDE DEF out
  <2>4. ASSUME NEW k \in 1 .. Reached PROVE out[k] = <<accepted[k], accepted[k]>>
    <3>1. CASE k <= readIdx
      BY <1>1, <2>1, <2>2, <2>3, <3>1 DEF IInv, Output
    <3>2. CASE k > readIdx
      <4>1. k - readIdx \in 1 .. Reached - readIdx /\ readIdx + (k - readIdx) = k
        BY <2>1, <3>2
      <4>2. out[k] = batch[k - readIdx]
        BY <2>1, <2>2, <2>3, <3>2
      <4> QED
        BY <1>1, <4>1, <4>2 DEF IInv, Output
    <3> QED
      BY <2>1, <3>1, <3>2
  <2>5. Len(out) = Reached
    BY <2>1, <2>2, <2>3
  <2> QED
    BY <2>1, <2>2, <2>4, <2>5 DEF EncodedInOrder, out
<1> QED
  BY <1>1, RingInvariant, PTL

\* A slot at rest never keeps a side array: payload() and the drain clear it.
THEOREM RingForgetsSideArrays == ASSUME SoleFirstThread PROVE Spec => []FreeSlotsHoldNothing
<1>1. IInv => FreeSlotsHoldNothing
  BY DEF IInv, Memory, FreeSlotsHoldNothing, Filling
<1> QED
  BY <1>1, RingInvariant, PTL
-----------------------------------------------------------------------------
(* Two accounts of the events.  Read back from the slots, those the ring    *)
(* holds are those published and not released, so that the ring implements  *)
(* a bounded FIFO; and whatever was offered is recorded, counted or still   *)
(* in hand.                                                                 *)

\* The events published and not released, header and payload of the same one.
Waiting == [k \in 1 .. writeIdx - readIdx |-> <<accepted[readIdx + k], accepted[readIdx + k]>>]

\* Two sequences of one length with the same entries are the same.
LEMMA SameEntries ==
  ASSUME NEW S, NEW a \in Seq(S), NEW b \in Seq(S), Len(a) = Len(b),
         \A k \in 1 .. Len(a) : a[k] = b[k]
  PROVE  a = b
<1>1. a \in [1 .. Len(a) -> S] /\ b \in [1 .. Len(a) -> S]
  BY LenProperties
<1>. QED BY <1>1

\* The order of the indices, and how many events wait.
LEMMA WaitingFits ==
  ASSUME IInv
  PROVE  /\ readIdx \in Nat /\ Reached \in Nat /\ writeIdx \in Nat
         /\ readIdx <= Reached /\ Reached <= writeIdx
         /\ Waiting \in Seq(Event \X Event) /\ Len(Waiting) = writeIdx - readIdx
<1>1. /\ readIdx \in Nat /\ Reached \in Nat /\ writeIdx \in Nat
      /\ readIdx <= Reached /\ Reached <= writeIdx
  BY DEF IInv, TypeOK, Drain, Indices, Reached
<1>2. accepted \in Seq(Event) /\ Len(accepted) = writeIdx
  BY DEF IInv, TypeOK, Output
<1>3. \A k \in 1 .. writeIdx - readIdx : accepted[readIdx + k] \in Event
  BY <1>1, <1>2
<1>4. Waiting \in Seq(Event \X Event) /\ Len(Waiting) = writeIdx - readIdx
  BY <1>1, <1>3 DEF Waiting
<1>. QED BY <1>1, <1>4

\* What the slots and the drain's hands hold is what waits.
LEMMA HeldWaits ==
  ASSUME IInv
  PROVE  Held = Waiting
<1>. DEFINE m == writeIdx - Reached
            n == writeIdx - readIdx
            At(k) == LET i == SlotOf(Reached + k - 1)
                     IN IF cpc = "payload" /\ k = 1 THEN <<head, PayloadAt(i)>>
                                                    ELSE <<header[i], PayloadAt(i)>>
            Rest == [k \in 1 .. m |-> At(k)]
            Twice(k) == <<accepted[readIdx + k], accepted[readIdx + k]>>
<1>1. /\ readIdx \in Nat /\ Reached \in Nat /\ writeIdx \in Nat
      /\ readIdx <= Reached /\ Reached <= writeIdx
  BY WaitingFits
<1>2. accepted \in Seq(Event) /\ Len(accepted) = writeIdx
  BY DEF IInv, TypeOK, Output
<1>3. ASSUME NEW k \in 1 .. m
      PROVE  At(k) = <<accepted[Reached + k], accepted[Reached + k]>>
  <2>1. /\ Reached + k - 1 \in Reached .. writeIdx - 1
        /\ (Reached + k - 1) + 1 = Reached + k
    BY <1>1
  <2>2. /\ header[SlotOf(Reached + k - 1)] = accepted[Reached + k]
        /\ PayloadAt(SlotOf(Reached + k - 1)) = accepted[Reached + k]
    BY <2>1 DEF IInv, Memory
  <2>3. cpc = "payload" /\ k = 1 => head = accepted[Reached + k]
    BY DEF IInv, Drain, Reached
  <2>. QED BY <2>2, <2>3
<1>4. \A k \in 1 .. m : Reached + k \in 1 .. Len(accepted) /\ accepted[Reached + k] \in Event
  BY <1>1, <1>2
<1>5. Rest \in Seq(Event \X Event) /\ Len(Rest) = m
  <2>1. \A k \in 1 .. m : At(k) \in Event \X Event
    BY <1>3, <1>4
  <2>2. m \in Nat
    BY <1>1
  <2>. HIDE DEF At, m
  <2>3. Rest \in [1 .. m -> Event \X Event]
    BY <2>1
  <2>4. Rest \in Seq(Event \X Event)
    BY <2>2, <2>3
  <2>. QED BY <2>2, <2>3, <2>4, LenProperties
<1>6. batch \in Seq(Event \X Event) /\ Len(batch) = Reached - readIdx
  BY DEF IInv, TypeOK, Output
<1>7. Held = batch \o Rest
  BY DEF Held
<1>. HIDE DEF At, Rest
<1>8. /\ Held \in Seq(Event \X Event) /\ Len(Held) = n /\ n \in Nat
      /\ \A k \in 1 .. Reached - readIdx : Held[k] = batch[k]
      /\ \A k \in Reached - readIdx + 1 .. n : Held[k] = Rest[k - (Reached - readIdx)]
  <2>1. Held \in Seq(Event \X Event)
    BY <1>5, <1>6, <1>7
  <2>2. /\ Len(Held) = Len(batch) + Len(Rest)
        /\ \A k \in 1 .. Len(batch) : Held[k] = batch[k]
        /\ \A k \in Len(batch) + 1 .. Len(batch) + Len(Rest) : Held[k] = Rest[k - Len(batch)]
    BY <1>5, <1>6, <1>7, ConcatAt
  <2>3. Len(batch) + Len(Rest) = n /\ n \in Nat
    BY <1>1, <1>5, <1>6
  <2>. QED BY <1>6, <2>1, <2>2, <2>3
<1>9. ASSUME NEW k \in 1 .. n PROVE Held[k] = Twice(k)
  <2>1. CASE k <= Reached - readIdx
    BY <1>1, <1>8, <2>1 DEF IInv, Output
  <2>2. CASE k > Reached - readIdx
    <3>1. k - (Reached - readIdx) \in 1 .. m
          /\ Reached + (k - (Reached - readIdx)) = readIdx + k
      BY <1>1, <2>2
    <3>2. Held[k] = Rest[k - (Reached - readIdx)]
      BY <1>1, <1>8, <2>2
    <3>3. \A i \in 1 .. m : Rest[i] = At(i)
      BY DEF Rest
    <3>. HIDE DEF m, Twice
    <3>4. Held[k] = At(k - (Reached - readIdx))
      BY <3>1, <3>2, <3>3
    <3>. QED BY <1>3, <3>1, <3>4 DEF Twice
  <2>. QED BY <1>1, <2>1, <2>2
<1>10. Waiting \in Seq(Event \X Event) /\ Len(Waiting) = n
  BY WaitingFits
<1>11. \A k \in 1 .. n : Waiting[k] = Twice(k)
  BY DEF Waiting
<1>. HIDE DEF Twice, n
<1>. QED BY <1>8, <1>9, <1>10, <1>11, SameEntries
-----------------------------------------------------------------------------
(* A step of the ring is a step of the queue, or none *)

\* An empty ring is an empty queue.
LEMMA EmptyQueue == Init => Held = <<>> /\ Queue!QueueInit
<1>. SUFFICES ASSUME Init PROVE Held = <<>> /\ Queue!QueueInit
  OBVIOUS
<1>1. IInv
  BY InitEstablishes
<1>2. Held = Waiting /\ Len(Waiting) = 0 /\ Waiting \in Seq(Event \X Event)
  BY <1>1, HeldWaits, WaitingFits DEF Init
<1>3. Held = <<>>
  BY <1>2
<1>. QED BY <1>3 DEF Queue!QueueInit, Init

\* Publishing an event puts it into the queue, which has room.
LEMMA PublishPuts ==
  ASSUME IInv, NEW t \in Threads, Publish(t)
  PROVE  /\ Len(Waiting) < Slots
         /\ ev[t] \in Event /\ Waiting' = Append(Waiting, <<ev[t], ev[t]>>)
<1>. DEFINE n == writeIdx - readIdx
            e == <<ev[t], ev[t]>>
<1>1. /\ readIdx \in Nat /\ writeIdx \in Nat /\ readIdx <= writeIdx /\ n \in Nat
      /\ Waiting \in Seq(Event \X Event) /\ Len(Waiting) = n
  BY WaitingFits
<1>2. /\ accepted \in Seq(Event) /\ Len(accepted) = writeIdx /\ ev[t] \in Event
      /\ accepted' = Append(accepted, ev[t]) /\ readIdx' = readIdx
      /\ writeIdx' = writeIdx + 1
  BY DEF IInv, TypeOK, Output, Indices, Filling, Publish
<1>3. Len(Waiting) < Slots
  BY <1>1, RingAssumption DEF IInv, TypeOK, Indices, Filling, Publish
<1>4. /\ \A k \in 1 .. writeIdx : accepted'[k] = accepted[k]
      /\ accepted'[writeIdx + 1] = ev[t]
  BY <1>1, <1>2, AppendAt
<1>5. Waiting' = [k \in 1 .. n + 1 |-> <<accepted'[readIdx + k], accepted'[readIdx + k]>>]
  <2>1. writeIdx' - readIdx' = n + 1
    BY <1>1, <1>2
  <2>. QED BY <1>2, <2>1 DEF Waiting
<1>6. /\ Append(Waiting, e) \in Seq(Event \X Event) /\ Len(Append(Waiting, e)) = n + 1
      /\ \A k \in 1 .. n : Append(Waiting, e)[k] = Waiting[k]
      /\ Append(Waiting, e)[n + 1] = e
  BY <1>1, <1>2, AppendAt
<1>7. ASSUME NEW k \in 1 .. n + 1 PROVE Waiting'[k] = Append(Waiting, e)[k]
  <2>1. Waiting'[k] = <<accepted'[readIdx + k], accepted'[readIdx + k]>>
    BY <1>5
  <2>2. CASE k = n + 1
    <3>1. readIdx + k = writeIdx + 1
      BY <1>1, <2>2
    <3>. QED BY <1>4, <1>6, <2>1, <2>2, <3>1
  <2>3. CASE k \in 1 .. n
    <3>1. readIdx + k \in 1 .. writeIdx
      BY <1>1, <2>3
    <3>2. Waiting[k] = <<accepted[readIdx + k], accepted[readIdx + k]>>
      BY <2>3 DEF Waiting
    <3>. QED BY <1>4, <1>6, <2>1, <2>3, <3>1, <3>2
  <2>. QED BY <1>1, <2>2, <2>3
<1>. HIDE DEF n, e
<1>8. Waiting' \in [1 .. n + 1 -> Event \X Event]
  <2>1. Append(Waiting, e) \in [1 .. n + 1 -> Event \X Event]
    BY <1>6, LenProperties
  <2>. QED BY <1>5, <1>7, <2>1
<1>9. Waiting' = Append(Waiting, e)
  BY <1>6, <1>7, <1>8, LenProperties
<1>. QED BY <1>2, <1>3, <1>9 DEF e

\* A refusal finds a full ring: the drain's index was read again before it.
LEMMA RefusedWhenFull ==
  ASSUME IInv, NEW t \in Threads, Claim(t), Full
  PROVE  Len(Waiting) = Slots
<1>1. Len(Waiting) = writeIdx - readIdx
  BY WaitingFits
<1>2. /\ writeLocal = writeIdx /\ readCache <= readIdx /\ writeIdx <= readCache + Slots
      /\ writeIdx \in Nat /\ readIdx \in Nat /\ readCache \in Nat
  BY DEF IInv, Indices, TypeOK
<1>3. Refreshed = readIdx
  BY <1>2, RingAssumption DEF Full, Refreshed
<1>. QED BY <1>1, <1>2, <1>3, RingAssumption DEF Full

\* The release hands the writer the batch, which is the front of the queue.
LEMMA ReleaseTakes ==
  ASSUME IInv, EndDrain
  PROVE  /\ Len(batch) <= Len(Waiting)
         /\ batch = SubSeq(Waiting, 1, Len(batch))
         /\ Waiting' = SubSeq(Waiting, Len(batch) + 1, Len(Waiting))
<1>. DEFINE n == writeIdx - readIdx
            b == r - readIdx
<1>1. /\ readIdx \in Nat /\ writeIdx \in Nat /\ r \in Nat /\ readIdx <= r /\ r <= writeIdx
      /\ Waiting \in Seq(Event \X Event) /\ Len(Waiting) = n
  BY WaitingFits DEF EndDrain, Reached
<1>2. /\ batch \in Seq(Event \X Event) /\ Len(batch) = b
      /\ \A k \in 1 .. b : batch[k] = <<accepted[readIdx + k], accepted[readIdx + k]>>
  BY DEF IInv, TypeOK, Output, EndDrain, Reached
<1>3. /\ b \in 0 .. n /\ n \in Nat /\ b \in Nat
  BY <1>1
<1>4. /\ SubSeq(Waiting, 1, b) \in Seq(Event \X Event) /\ Len(SubSeq(Waiting, 1, b)) = b
      /\ \A k \in 1 .. b : SubSeq(Waiting, 1, b)[k] = Waiting[k]
  BY <1>1, <1>3
<1>5. \A k \in 1 .. n : Waiting[k] = <<accepted[readIdx + k], accepted[readIdx + k]>>
  BY DEF Waiting
<1>6. batch = SubSeq(Waiting, 1, b)
  <2>. DEFINE front == SubSeq(Waiting, 1, b)
  <2>0. /\ front \in Seq(Event \X Event) /\ Len(front) = b
        /\ \A k \in 1 .. b : front[k] = Waiting[k]
    BY <1>4
  <2>. HIDE DEF b, n, front
  <2>1. ASSUME NEW k \in 1 .. b PROVE batch[k] = front[k]
    <3>1. k \in 1 .. n
      BY <1>3
    <3>. QED BY <1>2, <1>5, <2>0, <3>1
  <2>3. batch = front
    BY <1>2, <2>1, <2>0, SameEntries
  <2>. QED BY <2>3 DEF front
<1>7. Waiting' = [k \in 1 .. n - b |-> <<accepted[r + k], accepted[r + k]>>]
  <2>1. readIdx' = r /\ writeIdx' = writeIdx /\ accepted' = accepted /\ writeIdx - r = n - b
    BY <1>1 DEF EndDrain, indexVars
  <2>. QED BY <2>1 DEF Waiting
<1>. DEFINE left == SubSeq(Waiting, b + 1, n)
<1>8. /\ left \in Seq(Event \X Event) /\ Len(left) = n - b
      /\ \A k \in 1 .. n - b : left[k] = Waiting[b + k]
  <2>. HIDE DEF b, n
  <2>1. b + 1 \in Int /\ n \in Int /\ n - (b + 1) + 1 = n - b
        /\ (b + 1 <= n \/ b = n) /\ \A k \in b + 1 .. n : Waiting[k] \in Event \X Event
    BY <1>1, <1>3
  <2>2. /\ left \in Seq(Event \X Event)
        /\ Len(left) = IF b + 1 <= n THEN n - (b + 1) + 1 ELSE 0
        /\ \A k \in 1 .. n - (b + 1) + 1 : left[k] = Waiting[b + 1 + k - 1]
    BY <2>1, SubSeqProperties
  <2>3. \A k \in 1 .. n - b : b + 1 + k - 1 = b + k
    BY <1>3
  <2>. QED BY <1>3, <2>1, <2>2, <2>3
<1>9. \A k \in 1 .. n - b : b + k \in 1 .. n /\ readIdx + (b + k) = r + k
  BY <1>1, <1>3
<1>10. \A k \in 1 .. n - b : left[k] = <<accepted[r + k], accepted[r + k]>>
  BY <1>5, <1>8, <1>9
<1>11. Waiting' = left
  <2>. HIDE DEF left, b, n
  <2>1. left \in [1 .. n - b -> Event \X Event]
    BY <1>8, LenProperties
  <2>. QED BY <1>7, <1>10, <2>1
<1>. QED BY <1>1, <1>2, <1>3, <1>6, <1>11

\* Every other step leaves what waits, what was delivered and what was refused.
LEMMA NothingMoves ==
  ASSUME UNCHANGED <<accepted, writeIdx, readIdx>>
  PROVE  Waiting' = Waiting
BY DEF Waiting

\* One step of the ring, with the queue read back before and after it.
LEMMA StepOfQueue ==
  ASSUME IInv, [Next]_vars, Held = Waiting, Held' = Waiting'
  PROVE  [Queue!QueueNext]_(Queue!qvars)
<1>. USE DEF Queue!qvars, indexVars, countVars, prodVars, drainVars
<1>0. Waiting \in Seq(Event \X Event)
  BY WaitingFits
<1>1. ASSUME UNCHANGED <<accepted, writeIdx, readIdx, encoded, dropped>>
      PROVE  UNCHANGED Queue!qvars
  BY <1>1, NothingMoves
<1>2. CASE UNCHANGED vars
  BY <1>1, <1>2 DEF vars
<1>3. ASSUME NEW t \in Threads, Offer(t) PROVE UNCHANGED Queue!qvars
  BY <1>1, <1>3 DEF Offer
<1>4. ASSUME NEW t \in Threads, Bind(t) PROVE UNCHANGED Queue!qvars
  BY <1>1, <1>4 DEF Bind
<1>5. ASSUME NEW t \in Threads, Claim(t) PROVE Queue!Refuse \/ UNCHANGED Queue!qvars
  <2>1. CASE Full
    <3>1. Waiting' = Waiting /\ encoded' = encoded /\ dropped' = dropped + 1
      BY <1>5, <2>1, NothingMoves DEF Claim
    <3>. QED BY <1>5, <2>1, <3>1, RefusedWhenFull DEF Queue!Refuse
  <2>2. CASE ~Full
    BY <1>1, <1>5, <2>2 DEF Claim
  <2>. QED BY <2>1, <2>2
<1>6. ASSUME NEW t \in Threads, WritePayload(t) PROVE UNCHANGED Queue!qvars
  BY <1>1, <1>6 DEF WritePayload
<1>7. ASSUME NEW t \in Threads, WriteHeader(t) PROVE UNCHANGED Queue!qvars
  BY <1>1, <1>7 DEF WriteHeader
<1>8. ASSUME NEW t \in Threads, Publish(t)
      PROVE  \E e \in {<<x, x>> : x \in Event} : Queue!Put(e)
  <2>1. encoded' = encoded /\ dropped' = dropped
    BY <1>8 DEF Publish
  <2>2. Queue!Put(<<ev[t], ev[t]>>)
    BY <1>8, <2>1, PublishPuts DEF Queue!Put
  <2>. QED BY <1>8, <2>2, PublishPuts
<1>9. CASE BeginDrain
  BY <1>1, <1>9 DEF BeginDrain
<1>10. CASE ReadHeader
  BY <1>1, <1>10 DEF ReadHeader
<1>11. CASE TakePayload
  BY <1>1, <1>11 DEF TakePayload
<1>12. CASE EndDrain
  <2>1. encoded' = encoded \o batch /\ dropped' = dropped
    BY <1>12 DEF EndDrain
  <2>2. batch \in Seq(Event \X Event) /\ encoded \in Seq(Event \X Event)
    BY DEF IInv, TypeOK
  <2>3. CASE Len(batch) = 0
    <3>1. batch = <<>> /\ encoded' = encoded
      BY <2>1, <2>2, <2>3
    <3>2. Waiting' = Waiting
      <4>1. Waiting' = SubSeq(Waiting, 1, Len(Waiting))
        BY <1>12, <2>3, ReleaseTakes
      <4>. QED BY <1>0, <4>1, SubSeqFull
    <3>. QED BY <2>1, <3>1, <3>2
  <2>4. CASE Len(batch) # 0
    <3>1. Len(batch) \in 1 .. Len(Waiting)
      BY <1>0, <1>12, <2>2, <2>4, ReleaseTakes
    <3>. QED BY <1>12, <2>1, <3>1, ReleaseTakes DEF Queue!TakeBatch, Queue!QueueNext
  <2>. QED BY <2>3, <2>4
<1>. QED BY <1>2, <1>3, <1>4, <1>5, <1>6, <1>7, <1>8, <1>9, <1>10, <1>11, <1>12
         DEF Next, Produce, Consume, Queue!QueueNext

-----------------------------------------------------------------------------
(* Where the offered events are *)

Busy == {t \in Threads : pc[t] # "idle"}

\* A step of one thread takes it into the set of the busy ones, or out of it.
LEMMA BusyStep ==
  ASSUME IsFiniteSet(Threads), TypeOK, NEW t \in Threads, pc' \in [Threads -> Steps],
         \A u \in Threads \ {t} : pc'[u] = pc[u]
  PROVE  /\ Cardinality(Busy) \in Nat /\ Cardinality(Busy') \in Nat
         /\ pc[t] = "idle" /\ pc'[t] # "idle" => Cardinality(Busy') = Cardinality(Busy) + 1
         /\ pc[t] # "idle" /\ pc'[t] = "idle" => Cardinality(Busy') = Cardinality(Busy) - 1
         /\ (pc[t] = "idle" <=> pc'[t] = "idle") => Cardinality(Busy') = Cardinality(Busy)
<1>1. IsFiniteSet(Busy) /\ Cardinality(Busy) \in Nat
  BY FS_Subset, FS_CardinalityType DEF Busy
<1>2. IsFiniteSet(Busy') /\ Cardinality(Busy') \in Nat
  BY FS_Subset, FS_CardinalityType DEF Busy
<1>3. t \in Busy <=> pc[t] # "idle"
  BY DEF Busy
<1>4. CASE pc'[t] # "idle"
  <2>1. Busy' = Busy \cup {t}
    BY <1>4 DEF Busy
  <2>2. Cardinality(Busy') = IF t \in Busy THEN Cardinality(Busy) ELSE Cardinality(Busy) + 1
    BY <1>1, <2>1, FS_AddElement
  <2>. QED BY <1>1, <1>2, <1>3, <1>4, <2>2
<1>5. CASE pc'[t] = "idle"
  <2>1. Busy' = Busy \ {t}
    BY <1>5 DEF Busy
  <2>2. Cardinality(Busy') = IF t \in Busy THEN Cardinality(Busy) - 1 ELSE Cardinality(Busy)
    BY <1>1, <2>1, FS_RemoveElement
  <2>. QED BY <1>1, <1>2, <1>3, <1>5, <2>2
<1>. QED BY <1>4, <1>5

\* Each step of a producer moves one event on; the drain moves none.
LEMMA AccountKept ==
  ASSUME IsFiniteSet(Threads), IInv, NothingUnaccounted, [Next]_vars
  PROVE  NothingUnaccounted'
<1>. USE DEF indexVars, countVars, prodVars, drainVars, Steps
<1>0. /\ TypeOK /\ pc \in [Threads -> Steps] /\ dropped \in Nat /\ offThread \in Nat
      /\ accepted \in Seq(Event) /\ Len(accepted) \in Nat /\ offers \in Nat
  BY DEF IInv, TypeOK
<1>1. offers = Len(accepted) + dropped + offThread + Cardinality(Busy)
  BY DEF NothingUnaccounted, Busy
<1>2. SUFFICES offers' = Len(accepted') + dropped' + offThread' + Cardinality(Busy')
  BY DEF NothingUnaccounted, Busy
<1>c. Cardinality(Busy) \in Nat
  BY FS_Subset, FS_CardinalityType DEF Busy
<1>3. ASSUME UNCHANGED <<offers, accepted, dropped, offThread, pc>> PROVE Busy' = Busy
  BY <1>3 DEF Busy
<1>4. CASE UNCHANGED vars
  BY <1>1, <1>3, <1>4 DEF vars
<1>5. ASSUME NEW t \in Threads, Offer(t)
      PROVE offers' = Len(accepted') + dropped' + offThread' + Cardinality(Busy')
  <2>1. /\ offers' = offers + 1 /\ pc[t] = "idle" /\ pc' = [pc EXCEPT ![t] = Admitted(t)]
        /\ offThread' = IF Admitted(t) = "idle" THEN offThread + 1 ELSE offThread
        /\ UNCHANGED <<dropped, accepted>> /\ Admitted(t) \in Steps
    BY <1>5 DEF Offer, Admitted
  <2>2. /\ pc' \in [Threads -> Steps] /\ pc'[t] = Admitted(t)
        /\ \A u \in Threads \ {t} : pc'[u] = pc[u]
    BY <1>0, <2>1
  <2>3. Cardinality(Busy') = IF Admitted(t) = "idle" THEN Cardinality(Busy)
                            ELSE Cardinality(Busy) + 1
    BY <1>0, <2>1, <2>2, BusyStep
  <2>. QED BY <1>0, <1>1, <1>c, <2>1, <2>3
<1>6. ASSUME NEW t \in Threads, NEW next \in Steps,
             pc[t] # "idle", pc' = [pc EXCEPT ![t] = next]
      PROVE  Cardinality(Busy') = IF next = "idle" THEN Cardinality(Busy) - 1
                                 ELSE Cardinality(Busy)
  <2>1. /\ pc' \in [Threads -> Steps] /\ pc'[t] = next
        /\ \A u \in Threads \ {t} : pc'[u] = pc[u]
    BY <1>0, <1>6
  <2>. QED BY <1>0, <1>6, <2>1, BusyStep
<1>7. ASSUME NEW t \in Threads, Bind(t)
      PROVE offers' = Len(accepted') + dropped' + offThread' + Cardinality(Busy')
  <2>1. Cardinality(Busy') = Cardinality(Busy)
    BY <1>6, <1>7 DEF Bind
  <2>. QED BY <1>1, <1>7, <2>1 DEF Bind
<1>8. ASSUME NEW t \in Threads, Claim(t)
      PROVE offers' = Len(accepted') + dropped' + offThread' + Cardinality(Busy')
  <2>1. pc[t] = "claim" /\ UNCHANGED <<offers, accepted, offThread>>
    BY <1>8 DEF Claim
  <2>2. CASE dropped' = dropped + 1 /\ pc' = [pc EXCEPT ![t] = "idle"]
    <3>1. Cardinality(Busy') = Cardinality(Busy) - 1
      BY <1>6, <2>1, <2>2
    <3>. QED BY <1>0, <1>1, <1>c, <2>1, <2>2, <3>1
  <2>3. CASE dropped' = dropped /\ pc' = [pc EXCEPT ![t] = "payload"]
    <3>1. Cardinality(Busy') = Cardinality(Busy)
      BY <1>6, <2>1, <2>3
    <3>. QED BY <1>1, <2>1, <2>3, <3>1
  <2>. QED BY <1>0, <1>8, <2>2, <2>3, ClaimCases
<1>9. ASSUME NEW t \in Threads, WritePayload(t)
      PROVE offers' = Len(accepted') + dropped' + offThread' + Cardinality(Busy')
  <2>1. Cardinality(Busy') = Cardinality(Busy)
    BY <1>6, <1>9 DEF WritePayload
  <2>. QED BY <1>1, <1>9, <2>1 DEF WritePayload
<1>10. ASSUME NEW t \in Threads, WriteHeader(t)
       PROVE offers' = Len(accepted') + dropped' + offThread' + Cardinality(Busy')
  <2>1. Cardinality(Busy') = Cardinality(Busy)
    BY <1>6, <1>10 DEF WriteHeader
  <2>. QED BY <1>1, <1>10, <2>1 DEF WriteHeader
<1>11. ASSUME NEW t \in Threads, Publish(t)
       PROVE offers' = Len(accepted') + dropped' + offThread' + Cardinality(Busy')
  <2>1. /\ pc[t] = "publish" /\ pc' = [pc EXCEPT ![t] = "idle"]
        /\ accepted' = Append(accepted, ev[t]) /\ ev[t] \in Event
        /\ UNCHANGED <<offers, dropped, offThread>>
    BY <1>0, <1>11 DEF Publish, TypeOK
  <2>2. Len(accepted') = Len(accepted) + 1
    BY <1>0, <2>1, AppendAt
  <2>3. Cardinality(Busy') = Cardinality(Busy) - 1
    BY <1>6, <2>1
  <2>. QED BY <1>0, <1>1, <1>c, <2>1, <2>2, <2>3
<1>12. ASSUME Consume
       PROVE offers' = Len(accepted') + dropped' + offThread' + Cardinality(Busy')
  BY <1>1, <1>3, <1>12 DEF Consume, BeginDrain, ReadHeader, TakePayload, EndDrain
<1>. QED BY <1>4, <1>5, <1>7, <1>8, <1>9, <1>10, <1>11, <1>12 DEF Next, Produce

-----------------------------------------------------------------------------
(* The theorems *)

\* The ring is a bounded FIFO: an event is refused only when as many as there
\* are slots wait, and the writer gets batches from the front, in order, each
\* event once (claim, publish and encodeTo of EventRing).
THEOREM RingImplementsQueue ==
  ASSUME SoleFirstThread
  PROVE  Spec => Queue!QueueInit /\ [][Queue!QueueNext]_(Queue!qvars)
<1>1. IInv => Held = Waiting
  BY HeldWaits
<1>2. IInv /\ [Next]_vars /\ Held = Waiting /\ (Held = Waiting)'
        => [Queue!QueueNext]_(Queue!qvars)
  BY StepOfQueue
<1>3. Init => Queue!QueueInit
  BY EmptyQueue
<1>. QED BY <1>1, <1>2, <1>3, RingInvariant, PTL DEF Spec

\* Every event offered to a ring is recorded, in one of the two counters of the
\* stats line, or still in a producer's hands (claimProducer and claim).
THEOREM RingAccounts ==
  ASSUME SoleFirstThread, IsFiniteSet(Threads)
  PROVE  Spec => []NothingUnaccounted
<1>1. Init => NothingUnaccounted
  <2>. SUFFICES ASSUME Init PROVE NothingUnaccounted
    OBVIOUS
  <2>1. {t \in Threads : pc[t] # "idle"} = {}
    BY DEF Init
  <2>2. Cardinality({t \in Threads : pc[t] # "idle"}) = 0
    BY <2>1, FS_EmptySet
  <2>. QED BY <2>2 DEF Init, NothingUnaccounted
<1>2. IInv /\ NothingUnaccounted /\ [Next]_vars => NothingUnaccounted'
  BY AccountKept
<1>. QED BY <1>1, <1>2, RingInvariant, PTL DEF Spec
=============================================================================
