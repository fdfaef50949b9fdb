----------------------------- MODULE EventRing -----------------------------
(***************************************************************************)
(* capture/model/EventRing.java: the ring one producer thread fills and    *)
(* the writer thread drains.  A slot is one cache line holding a header    *)
(* and an inline payload; a payload that does not fit inline goes to a     *)
(* side array.  The two long indices never wrap and are published with     *)
(* release stores, so memory is sequentially consistent as long as no slot *)
(* is accessed from both sides at once: NoSlotRace is what makes the       *)
(* interleaving of plain accesses below a faithful picture of the JVM.     *)
(***************************************************************************)
EXTENDS Integers, Sequences, FiniteSets

CONSTANTS Slots,      \* slots of the ring, a power of two in the code
          Threads,    \* threads that may ever offer an event
          FirstThreads, \* those that may offer one while the ring is unbound
          NoThread,   \* the null of the producer field
          MaxOffers   \* bound on the number of offered events

ASSUME RingAssumption ==
  /\ Slots \in Nat \ {0}
  /\ MaxOffers \in Nat
  /\ FirstThreads \subseteq Threads
  /\ NoThread \notin Threads

\* How the caller writes the payload: "inplace" straight into the slot
\* (movement, mobs), "short" and "long" through payload(), by its length.
Path == {"inplace", "short", "long"}
Event == (0 .. MaxOffers) \X Path
NoEvent == <<0, "inplace">>   \* zeroed bytes, or a null side-array entry

VARIABLES
  producer,                    \* thread bound on the first claim
  writeIdx, readIdx,           \* the published indices
  writeLocal, readCache,       \* the producer's private mirrors
  dropped,                     \* claims refused because the ring was full
  offThread,                   \* offers refused by claimProducer
  inline, header, overflow,    \* slot contents: the event each part is of
  pc, ev, seq,                 \* per thread: step, event in hand, claimed slot
  offers,                      \* events offered so far; the next event's name
  accepted,                    \* history: published events in order
  cpc, r, w, head, batch,      \* the drain: step, cursor, limit, header read,
                               \* entries encoded so far
  encoded                      \* entries of completed drains

indexVars == <<writeIdx, readIdx, writeLocal, readCache>>
slotVars  == <<inline, header, overflow>>
countVars == <<dropped, offThread>>
prodVars  == <<pc, ev, seq, offers>>
drainVars == <<cpc, r, w, head, batch, encoded>>
vars == <<producer, indexVars, countVars, slotVars, prodVars, accepted, drainVars>>

Slot == 0 .. Slots - 1
SlotOf(s) == s % Slots

\* Inside the window from claim() to publish().
Filling(t) == pc[t] \in {"payload", "header", "publish"}

Init ==
  /\ producer = NoThread
  /\ writeIdx = 0 /\ readIdx = 0 /\ writeLocal = 0 /\ readCache = 0
  /\ dropped = 0 /\ offThread = 0
  /\ inline   = [i \in Slot |-> NoEvent]
  /\ header   = [i \in Slot |-> NoEvent]
  /\ overflow = [i \in Slot |-> NoEvent]
  /\ pc  = [t \in Threads |-> "idle"]
  /\ ev  = [t \in Threads |-> NoEvent]
  /\ seq = [t \in Threads |-> 0]
  /\ offers = 0
  /\ accepted = <<>>
  /\ cpc = "idle" /\ r = 0 /\ w = 0 /\ head = NoEvent /\ batch = <<>>
  /\ encoded = <<>>
-----------------------------------------------------------------------------
(* Producer side *)

\* claimProducer reads the field: unbound, bound to the caller, or another's.
\* (Mutants: bugs the runs must notice, each ahead of the definition it spoils.)
NobodyRefused(t) == IF producer = NoThread THEN "bind" ELSE "claim"
Admitted(t) == IF producer = NoThread THEN "bind"
               ELSE IF producer = t THEN "claim" ELSE "idle"

Offer(t) ==
  /\ pc[t] = "idle"
  /\ offers < MaxOffers
  /\ producer = NoThread => t \in FirstThreads
  /\ offers' = offers + 1
  /\ \E p \in Path : ev' = [ev EXCEPT ![t] = <<offers + 1, p>>]
  /\ pc' = [pc EXCEPT ![t] = Admitted(t)]
  /\ offThread' = IF Admitted(t) = "idle" THEN offThread + 1 ELSE offThread
  /\ UNCHANGED <<producer, indexVars, dropped, slotVars, seq, accepted, drainVars>>

\* ... and, having seen null, stores itself: check and store are two steps.
Bind(t) ==
  /\ pc[t] = "bind"
  /\ producer' = t
  /\ pc' = [pc EXCEPT ![t] = "claim"]
  /\ UNCHANGED <<indexVars, countVars, slotVars, ev, seq, offers, accepted, drainVars>>

\* claim: the consumer's index is read only when the ring looks full.
NeverRefreshed == readCache
Refreshed == IF writeLocal - readCache >= Slots THEN readIdx ELSE readCache

FullOffByOne == writeLocal - Refreshed > Slots
Full == writeLocal - Refreshed >= Slots

UncountedDrop(t) ==
  /\ pc[t] = "claim"
  /\ readCache' = Refreshed
  /\ seq' = IF Full THEN seq ELSE [seq EXCEPT ![t] = writeLocal]
  /\ pc' = [pc EXCEPT ![t] = IF Full THEN "idle" ELSE "payload"]
  /\ UNCHANGED <<producer, writeIdx, readIdx, writeLocal, countVars, slotVars,
                 ev, offers, accepted, drainVars>>

Claim(t) ==
  /\ pc[t] = "claim"
  /\ readCache' = Refreshed
  /\ IF Full
       THEN /\ dropped' = dropped + 1
            /\ pc' = [pc EXCEPT ![t] = "idle"]
            /\ UNCHANGED seq
       ELSE /\ seq' = [seq EXCEPT ![t] = writeLocal]
            /\ pc' = [pc EXCEPT ![t] = "payload"]
            /\ UNCHANGED dropped
  /\ UNCHANGED <<producer, writeIdx, readIdx, writeLocal, offThread, slotVars,
                 ev, offers, accepted, drainVars>>

\* The in-place callers never touch the side array, payload() always does.
WritePayload(t) ==
  LET i == SlotOf(seq[t])
      e == ev[t]
  IN /\ pc[t] = "payload"
     /\ \/ /\ e[2] = "inplace"
           /\ inline' = [inline EXCEPT ![i] = e]
           /\ UNCHANGED overflow
        \/ /\ e[2] = "short"
           /\ inline' = [inline EXCEPT ![i] = e]
           /\ overflow' = [overflow EXCEPT ![i] = NoEvent]
        \/ /\ e[2] = "long"
           /\ overflow' = [overflow EXCEPT ![i] = e]
           /\ UNCHANGED inline
     /\ pc' = [pc EXCEPT ![t] = "header"]
     /\ UNCHANGED <<producer, indexVars, countVars, header, ev, seq, offers,
                    accepted, drainVars>>

WriteHeader(t) ==
  /\ pc[t] = "header"
  /\ header' = [header EXCEPT ![SlotOf(seq[t])] = ev[t]]
  /\ pc' = [pc EXCEPT ![t] = "publish"]
  /\ UNCHANGED <<producer, indexVars, countVars, inline, overflow, ev, seq,
                 offers, accepted, drainVars>>

Publish(t) ==
  /\ pc[t] = "publish"
  /\ writeLocal' = seq[t] + 1
  /\ writeIdx' = seq[t] + 1
  /\ accepted' = Append(accepted, ev[t])
  /\ pc' = [pc EXCEPT ![t] = "idle"]
  /\ UNCHANGED <<producer, readIdx, readCache, countVars, slotVars, ev, seq,
                 offers, drainVars>>
-----------------------------------------------------------------------------
(* Consumer side: encodeTo, and drainTo, which takes the same steps *)

BeginDrain ==
  /\ cpc = "idle"
  /\ r' = readIdx
  /\ w' = writeIdx
  /\ cpc' = "drain"
  /\ UNCHANGED <<producer, indexVars, countVars, slotVars, prodVars, accepted,
                 head, batch, encoded>>

OneTooMany == r <= w
MoreToRead == r < w

ReadHeader ==
  /\ cpc = "drain"
  /\ MoreToRead
  /\ head' = header[SlotOf(r)]
  /\ cpc' = "payload"
  /\ UNCHANGED <<producer, indexVars, countVars, slotVars, prodVars, accepted,
                 r, w, batch, encoded>>

\* The entry pairs the header read before with the payload found now; a side
\* array entry wins over the inline bytes and is released.
PayloadAt(i) == IF overflow[i] # NoEvent THEN overflow[i] ELSE inline[i]

KeepReference(i) == overflow
DropReference(i) == [overflow EXCEPT ![i] = NoEvent]

TakePayload ==
  /\ cpc = "payload"
  /\ batch' = Append(batch, <<head, PayloadAt(SlotOf(r))>>)
  /\ overflow' = DropReference(SlotOf(r))
  /\ r' = r + 1
  /\ cpc' = "drain"
  /\ UNCHANGED <<producer, indexVars, countVars, inline, header, prodVars,
                 accepted, w, head, encoded>>

\* One store releases the whole batch.
EndDrain ==
  /\ cpc = "drain"
  /\ ~MoreToRead
  /\ readIdx' = r
  /\ encoded' = encoded \o batch
  /\ batch' = <<>>
  /\ cpc' = "idle"
  /\ UNCHANGED <<producer, writeIdx, writeLocal, readCache, countVars, slotVars,
                 prodVars, accepted, r, w, head>>
-----------------------------------------------------------------------------
Produce(t) == \/ Offer(t) \/ Bind(t) \/ Claim(t)
              \/ WritePayload(t) \/ WriteHeader(t) \/ Publish(t)
Consume == BeginDrain \/ ReadHeader \/ TakePayload \/ EndDrain

Next == Consume \/ \E t \in Threads : Produce(t)

Spec == Init /\ [][Next]_vars

\* The writer is a scheduled task that drains every flush interval, so the
\* consumer always goes on; no producer ever has to.
FairSpec == Spec /\ WF_vars(Consume)
-----------------------------------------------------------------------------
(* Properties *)

\* The first published event the drain has not taken.
Reached == IF cpc = "idle" THEN readIdx ELSE r

Steps == {"idle", "bind", "claim", "payload", "header", "publish"}

\* Types; what is left of a drain is between nothing and a full ring.
TypeOK ==
  /\ producer \in Threads \cup {NoThread}
  /\ writeIdx \in Nat /\ readIdx \in Nat /\ writeLocal \in Nat /\ readCache \in Nat
  /\ dropped \in Nat /\ offThread \in Nat /\ offers \in Nat
  /\ inline \in [Slot -> Event] /\ header \in [Slot -> Event]
  /\ overflow \in [Slot -> Event]
  /\ pc \in [Threads -> Steps]
  /\ ev \in [Threads -> Event]
  /\ seq \in [Threads -> Nat]
  /\ accepted \in Seq(Event)
  /\ cpc \in {"idle", "drain", "payload"}
  /\ r \in Nat /\ w \in r .. r + Slots
  /\ head \in Event
  /\ batch \in Seq(Event \X Event) /\ encoded \in Seq(Event \X Event)

\* "Each ring gets exactly one [producer]; a second thread is refused and
\* counted": no two threads are ever between claim and publish (EventRing's
\* claimProducer).
OneProducerPerRing ==
  \A t, u \in Threads : Filling(t) /\ Filling(u) => t = u

\* The producer never writes a slot the drain is reading, nor one it has yet to
\* read: claim's cached index may only be too cautious.
NoSlotRace ==
  \A t \in Threads : Filling(t) /\ cpc # "idle" =>
    \A s \in r .. w - 1 : SlotOf(seq[t]) # SlotOf(s)

\* Every entry of a frame is the event published at its position, its header
\* and payload of the same event: none lost, repeated, reordered, torn or
\* carrying the payload a previous user of the slot left in the side array.
EncodedInOrder ==
  LET out == encoded \o batch
  IN /\ Len(out) <= Len(accepted)
     /\ \A k \in 1 .. Len(out) : out[k] = <<accepted[k], accepted[k]>>

\* A slot that is neither awaiting the drain nor being filled holds no side
\* array, so an in-place payload can never be shadowed by a stale one.
FreeSlotsHoldNothing ==
  \A i \in Slot : overflow[i] # NoEvent =>
    \/ \E s \in Reached .. writeIdx - 1 : SlotOf(s) = i
    \/ \E t \in Threads : Filling(t) /\ SlotOf(seq[t]) = i

\* Every offered event is recorded, or in one of the two counters the stats
\* line prints, or still in a producer's hands.
NothingUnaccounted ==
  offers = Len(accepted) + dropped + offThread
           + Cardinality({t \in Threads : pc[t] # "idle"})

\* The events the ring holds, read back from its memory: those this drain has
\* encoded but not released, then the published ones it has not reached.
Held == batch \o [k \in 1 .. writeIdx - Reached |->
                    LET i == SlotOf(Reached + k - 1)
                    IN IF cpc = "payload" /\ k = 1 THEN <<head, PayloadAt(i)>>
                                                  ELSE <<header[i], PayloadAt(i)>>]

Queue == INSTANCE BoundedEventQueue WITH
           Capacity <- Slots, Event <- {<<e, e>> : e \in Event},
           queue <- Held, delivered <- encoded, dropped <- dropped

\* The ring's memory implements a bounded FIFO: an event is refused only when
\* Slots events really are waiting, and every published event is eventually
\* handed to the writer.
ImplementsQueue == Queue!QueueSpec
=============================================================================
