-------------------------- MODULE DigLedgerProofs --------------------------
(***************************************************************************)
(* The digs of a replay session for any traces, passes, positions and      *)
(* dimensions, of whatever heights: what reaches the server is well        *)
(* paired, nothing is confirmed twice, the ledger follows the world where  *)
(* the origin it goes by is right, and every success is paid for.          *)
(***************************************************************************)
EXTENDS DigLedger, TLAPS, FiniteSetTheorems, SequenceTheorems

StepName == {"next", "finish", "note", "pend", "sent", "placed"}
Counter == {"sent", "confirmed", "intoAir", "unverifiable", "synthesised", "placesSent",
            "placesConfirmed", "unparsed"}

\* What the server may have under way to the client.
Chunks == {[kind |-> "chunk", states |-> s, from |-> d] : s \in [Positions -> Blocks], d \in Dims}
Changes == {[kind |-> k, states |-> One(p, b), from |-> d] :
              k \in {"update", "section"}, p \in Positions, b \in Blocks, d \in Dims}
Msg == Chunks \cup Changes

Types ==
  /\ trace \in Traces /\ pass \in 0 .. Loops /\ idx \in 1 .. Len(trace) + 1
  /\ step \in StepName
  /\ step # "next" => idx <= Len(trace)
  /\ step \in {"finish", "note", "pend", "sent"} => Ev.op = "finish"
  /\ step = "placed" => Ev.op = "place"
  /\ digStarted \in SUBSET Positions /\ digPending \in SUBSET Positions
  /\ placePending \in SUBSET Positions
  /\ ledger \in [Positions -> Blocks \cup {Unknown}]
  /\ minSectionY \in {None, -4, 0}
  /\ reading = None \/ \E p \in Positions, b \in Blocks : reading = One(p, b)
  /\ count \in [Counter -> Nat]
  /\ toServer \in Seq(Event) /\ toClient \in Seq(Msg)
  /\ open \in BOOLEAN /\ tracked \in BOOLEAN /\ serverDig \in Positions \cup {None}
  /\ world \in [Dims -> [Positions -> Blocks]] /\ here \in Dims
  /\ format \in {"read", "moved"}
-----------------------------------------------------------------------------
(* Sequences, messages and counters *)

LEMMA TailOf ==
  ASSUME NEW S, NEW q \in Seq(S), q # <<>>
  PROVE  /\ Head(q) = q[1] /\ Head(q) \in S /\ Tail(q) \in Seq(S) /\ Len(q) \in Nat \ {0}
         /\ Len(Tail(q)) = Len(q) - 1 /\ DOMAIN q = 1 .. Len(q) /\ DOMAIN Tail(q) = 1 .. Len(q) - 1
         /\ \A i \in 1 .. Len(q) - 1 : Tail(q)[i] = q[i + 1]
  BY HeadTailProperties, EmptySeq, LenProperties

LEMMA AppendOf ==
  ASSUME NEW S, NEW q \in Seq(S), NEW e \in S
  PROVE  /\ Append(q, e) \in Seq(S) /\ Len(q) \in Nat /\ Len(Append(q, e)) = Len(q) + 1
         /\ DOMAIN q = 1 .. Len(q) /\ DOMAIN Append(q, e) = 1 .. Len(q) + 1
         /\ Append(q, e)[Len(q) + 1] = e
         /\ \A i \in 1 .. Len(q) : Append(q, e)[i] = q[i]
  BY AppendProperties, LenProperties

LEMMA OneOf ==
  ASSUME NEW p, NEW b
  PROVE  DOMAIN One(p, b) = {p} /\ One(p, b)[p] = b
  BY DEF One

LEMMA Heard ==
  ASSUME NEW m \in Msg
  PROVE  /\ m.kind \in {"chunk", "update", "section"} /\ m.from \in Dims
         /\ m.kind = "chunk" => m.states \in [Positions -> Blocks]
         /\ m.kind # "chunk" => \E p \in Positions, b \in Blocks : m.states = One(p, b)
         /\ DOMAIN m.states \subseteq Positions
         /\ \A p \in DOMAIN m.states : m.states[p] \in Blocks
<1>1. CASE m \in Chunks
  BY <1>1 DEF Chunks
<1>2. CASE m \in Changes
  <2>1. PICK k \in {"update", "section"}, p \in Positions, b \in Blocks, d \in Dims :
          m = [kind |-> k, states |-> One(p, b), from |-> d]
    BY <1>2 DEF Changes
  <2>2. m.kind = k /\ m.states = One(p, b) /\ m.from = d /\ m.kind # "chunk"
    BY <2>1
  <2>3. DOMAIN m.states = {p} /\ m.states[p] = b
    BY <2>2, OneOf
  <2> QED
    BY <2>2, <2>3
<1> QED
  BY <1>1, <1>2 DEF Msg

LEMMA Bumps ==
  ASSUME Types, NEW c \in Counter
  PROVE  /\ Bump(c) \in [Counter -> Nat] /\ Bump(c)[c] = count[c] + 1
         /\ \A d \in Counter \ {c} : Bump(c)[d] = count[d]
  BY DEF Types, Bump

\* The event the dispatcher is at, and those of the trace.
LEMMA Events ==
  ASSUME Types
  PROVE  /\ trace \in Seq(Event) /\ Len(trace) \in Nat
         /\ DOMAIN trace = 1 .. Len(trace) /\ idx \in Nat \ {0}
         /\ \A i \in 1 .. Len(trace) : /\ trace[i] \in Event /\ trace[i].at \in Positions
                                       /\ trace[i].op \in {"start", "abort", "finish", "place"}
         /\ idx <= Len(trace) => Ev \in Event /\ Ev.at \in Positions
<1>1. trace \in Seq(Event)
  BY LedgerAssumption DEF Types
<1>2. Len(trace) \in Nat /\ DOMAIN trace = 1 .. Len(trace) /\ idx \in Nat \ {0}
  BY <1>1, LenProperties DEF Types
<1>3. \A i \in 1 .. Len(trace) : trace[i] \in Event
  BY <1>1, ElementOfSeq
<1> QED
  BY <1>1, <1>2, <1>3 DEF Event, Ev

\* Each send adds to what is under way, or fails on a closed connection.
LEMMA Sends ==
  ASSUME Types, idx <= Len(trace), NEW op \in {"start", "abort", "finish", "place"}, Send(op)
  PROVE  /\ toServer' \in Seq(Event)
         /\ open => toServer' = Append(toServer, [op |-> op, at |-> Ev.at])
         /\ ~open => toServer' = toServer
<1>1. [op |-> op, at |-> Ev.at] \in Event
  BY Events DEF Event
<1>2. Append(toServer, [op |-> op, at |-> Ev.at]) \in Seq(Event)
  BY <1>1, AppendOf DEF Types
<1> QED
  BY <1>2 DEF Send, Types
-----------------------------------------------------------------------------
(* Types *)

LEMMA DispatchTypes == Types /\ Dispatch => Types'
<1> SUFFICES ASSUME Types, Dispatch PROVE Types'
  OBVIOUS
<1>0. /\ "sent" \in Counter /\ "intoAir" \in Counter /\ "unverifiable" \in Counter
      /\ "synthesised" \in Counter /\ "placesSent" \in Counter
  BY DEF Counter
<1>1. CASE DigStart
  <2>1. idx <= Len(trace) /\ Send("start") /\ Ev.at \in Positions
    BY <1>1, Events DEF DigStart, Running
  <2>2. toServer' \in Seq(Event)
    BY <2>1, Sends
  <2> QED
    BY <1>1, <2>1, <2>2, Events DEF DigStart, ToNextEvent, Types, StepName, server, others
<1>2. CASE DigAbort
  <2>1. idx <= Len(trace) /\ Send("abort") /\ Ev.at \in Positions
    BY <1>2, Events DEF DigAbort, Running
  <2>2. toServer' \in Seq(Event)
    BY <2>1, Sends
  <2> QED
    BY <1>2, <2>1, <2>2, Events DEF DigAbort, ToNextEvent, Types, StepName, server, others
<1>3. CASE Synthesise
  <2>1. idx <= Len(trace) /\ Send("start")
    BY <1>3 DEF Synthesise, Running
  <2>2. toServer' \in Seq(Event)
    BY <2>1, Sends
  <2>3. count' \in [Counter -> Nat]
    BY <1>0, <1>3, Bumps DEF Synthesise
  <2> QED
    BY <1>3, <2>1, <2>2, <2>3 DEF Synthesise, Types, StepName, server, others, Ev
<1>4. CASE DigFinish
  <2>1. idx <= Len(trace) /\ Send("finish")
    BY <1>4 DEF DigFinish, Running
  <2>2. toServer' \in Seq(Event)
    BY <2>1, Sends
  <2> QED
    BY <1>4, <2>1, <2>2 DEF DigFinish, Types, StepName, server, others, Ev
<1>5. CASE NoteDig
  <2>1. count' \in [Counter -> Nat]
    BY <1>0, <1>5, Bumps DEF NoteDig, Types
  <2> QED
    BY <1>5, <2>1, Events DEF NoteDig, ToNextEvent, Types, StepName, server, others, Ev
<1>6. CASE AddPending
  <2>1. Ev.at \in Positions
    BY <1>6, Events DEF AddPending, Types
  <2> QED
    BY <1>6, <2>1 DEF AddPending, Types, StepName, server, others, Ev
<1>7. CASE CountDig
  <2>1. count' \in [Counter -> Nat]
    BY <1>0, <1>7, Bumps DEF CountDig
  <2> QED
    BY <1>7, <2>1, Events DEF CountDig, ToNextEvent, Types, StepName, server, others
<1>8. CASE PlaceBlock
  <2>1. idx <= Len(trace) /\ Send("place")
    BY <1>8 DEF PlaceBlock, Running
  <2>2. toServer' \in Seq(Event)
    BY <2>1, Sends
  <2> QED
    BY <1>8, <2>1, <2>2 DEF PlaceBlock, Types, StepName, server, others, Ev
<1>9. CASE NotePlace
  <2>1. count' \in [Counter -> Nat]
    BY <1>0, <1>9, Bumps DEF NotePlace
  <2>2. Ev.at \in Positions
    BY <1>9, Events DEF NotePlace, Types
  <2> QED
    BY <1>9, <2>1, <2>2, Events DEF NotePlace, ToNextEvent, Types, StepName, server, others
<1>10. CASE NextPass
  BY <1>10, Events, LedgerAssumption DEF NextPass, Types, StepName, server, others
<1> QED
  BY <1>1, <1>2, <1>3, <1>4, <1>5, <1>6, <1>7, <1>8, <1>9, <1>10 DEF Dispatch

LEMMA LearnType ==
  ASSUME Types, NEW m \in Msg
  PROVE  Learn(m.states) \in [Positions -> Blocks \cup {Unknown}]
  BY Heard DEF Learn, Types

LEMMA ReaderTypes == Types /\ Reader => Types'
<1> SUFFICES ASSUME Types, Reader PROVE Types'
  OBVIOUS
<1>0. /\ "unparsed" \in Counter /\ "confirmed" \in Counter /\ "placesConfirmed" \in Counter
      /\ toClient \in Seq(Msg)
  BY DEF Counter, Types
<1>1. CASE ReadChunk
  <2> DEFINE m == Head(toClient)
  <2>1. m \in Msg /\ m.kind = "chunk" /\ toClient' \in Seq(Msg)
    BY <1>0, <1>1, TailOf DEF ReadChunk
  <2>2. m.states \in [Positions -> Blocks]
    BY <2>1, Heard
  <2>3. minSectionY' \in {None, -4, 0}
    BY <1>1 DEF ReadChunk, KnownOrigin, Types
  <2>4. count' \in [Counter -> Nat]
    BY <1>0, <1>1, Bumps DEF ReadChunk, Types
  <2>5. ledger' \in [Positions -> Blocks \cup {Unknown}]
    BY <1>1, <2>2 DEF ReadChunk, Types
  <2> QED
    BY <1>1, <2>1, <2>3, <2>4, <2>5 DEF ReadChunk, Types, StepName, server, others, Ev
<1>2. CASE ReadSection
  <2>1. Head(toClient) \in Msg /\ toClient' \in Seq(Msg)
    BY <1>0, <1>2, TailOf DEF ReadSection
  <2>2. ledger' \in [Positions -> Blocks \cup {Unknown}]
    BY <1>2, <2>1, LearnType DEF ReadSection
  <2> QED
    BY <1>2, <2>1, <2>2 DEF ReadSection, Types, StepName, server, others, Ev
<1>3. CASE ReadUpdate
  <2>1. Head(toClient) \in Msg /\ toClient' \in Seq(Msg)
    BY <1>0, <1>3, TailOf DEF ReadUpdate
  <2>2. ledger' \in [Positions -> Blocks \cup {Unknown}]
    BY <1>3, <2>1, LearnType DEF ReadUpdate
  <2>3. \E p \in Positions, b \in Blocks : reading' = One(p, b)
    BY <1>3, <2>1, Heard DEF ReadUpdate
  <2> QED
    BY <1>3, <2>1, <2>2, <2>3 DEF ReadUpdate, Types, StepName, server, others, Ev
<1>4. CASE Confirm
  <2>1. count' \in [Counter -> Nat]
    BY <1>0, <1>4, Bumps DEF Confirm, Types
  <2> QED
    BY <1>4, <2>1 DEF Confirm, Types, StepName, server, others, Ev
<1> QED
  BY <1>1, <1>2, <1>3, <1>4 DEF Reader

LEMMA Tells ==
  ASSUME Types, NEW m \in Msg, Len(toClient) < MaxToClient, toClient' = Append(toClient, m)
  PROVE  toClient' \in Seq(Msg)
  BY AppendOf DEF Types

\* Telling of one block, and of a whole column.
LEMMA TellsOne ==
  ASSUME Types, NEW k \in {"update", "section"}, NEW p \in Positions, NEW b \in Blocks,
         Tell(k, One(p, b))
  PROVE  \E m \in Msg : /\ m.kind = k /\ m.states = One(p, b) /\ m.from = here
                        /\ toClient' = Append(toClient, m) /\ toClient' \in Seq(Msg)
<1> DEFINE m == [kind |-> k, states |-> One(p, b), from |-> here]
<1>1. m \in Msg
  BY DEF Msg, Changes, Types
<1>2. toClient' = Append(toClient, m)
  BY DEF Tell
<1>3. toClient' \in Seq(Msg)
  BY <1>1, <1>2, AppendOf DEF Types
<1> QED
  BY <1>1, <1>2, <1>3

LEMMA TellsColumn ==
  ASSUME Types, Tell("chunk", world[here])
  PROVE  \E m \in Msg : /\ m.kind = "chunk" /\ m.states = world[here] /\ m.from = here
                        /\ toClient' = Append(toClient, m) /\ toClient' \in Seq(Msg)
<1> DEFINE m == [kind |-> "chunk", states |-> world[here], from |-> here]
<1>1. m \in Msg
  BY DEF Msg, Chunks, Types
<1>2. toClient' = Append(toClient, m)
  BY DEF Tell
<1>3. toClient' \in Seq(Msg)
  BY <1>1, <1>2, AppendOf DEF Types
<1> QED
  BY <1>1, <1>2, <1>3

LEMMA WorldTypes ==
  ASSUME Types, NEW p \in Positions, NEW b \in Blocks
  PROVE  /\ Refuse(p) => toClient' \in Seq(Msg) /\ UNCHANGED world
         /\ Change(p, b) => toClient' \in Seq(Msg) /\ world' \in [Dims -> [Positions -> Blocks]]
<1>1. Refuse(p) => toClient' \in Seq(Msg) /\ UNCHANGED world
  <2>1. world[here][p] \in Blocks
    BY DEF Types
  <2> QED
    BY <2>1, TellsOne DEF Refuse, Types
<1>2. Change(p, b) => world' \in [Dims -> [Positions -> Blocks]]
  BY DEF Change, Types
<1>3. Change(p, b) => toClient' \in Seq(Msg)
  BY TellsOne DEF Change, Types
<1> QED
  BY <1>1, <1>2, <1>3

LEMMA ServerTypes == Types /\ Server => Types'
<1> SUFFICES ASSUME Types, Server PROVE Types'
  OBVIOUS
<1>1. CASE ServerReceives
  <2> DEFINE m == Head(toServer)
  <2>1. m \in Event /\ toServer' \in Seq(Event)
    BY <1>1, TailOf DEF ServerReceives, Types
  <2>2. m.at \in Positions
    BY <2>1 DEF Event
  <2>3. /\ toClient' \in Seq(Msg) /\ world' \in [Dims -> [Positions -> Blocks]]
        /\ serverDig' \in Positions \cup {None}
    BY <1>1, <2>2, WorldTypes DEF ServerReceives, Types, Blocks
  <2> QED
    BY <1>1, <2>1, <2>3 DEF ServerReceives, Types, StepName, client, Ev
<1>2. CASE OtherChange
  <2>1. toClient' \in Seq(Msg) /\ world' \in [Dims -> [Positions -> Blocks]]
    BY <1>2, WorldTypes DEF OtherChange
  <2> QED
    BY <1>2, <2>1 DEF OtherChange, Types, StepName, client, Ev
<1>3. CASE Track
  BY <1>3, TellsColumn DEF Track, Types, StepName, client, Ev
<1>4. CASE Untrack
  BY <1>4 DEF Untrack, Types, StepName, client, Ev
<1>5. CASE Disconnect
  <2>1. toServer' \in Seq(Event) /\ toClient' \in Seq(Msg)
    BY <1>5, EmptySeq DEF Disconnect
  <2> QED
    BY <1>5, <2>1 DEF Disconnect, Types, StepName, client, server, others, Ev
<1> QED
  BY <1>1, <1>2, <1>3, <1>4, <1>5 DEF Server

LEMMA InitTypes == Init => Types
<1> SUFFICES ASSUME Init PROVE Types
  OBVIOUS
<1>1. Len(trace) \in Nat
  BY LedgerAssumption, LenProperties DEF Init
<1>2. count \in [Counter -> Nat]
  BY DEF Init, Zero, Counter
<1>3. toServer \in Seq(Event) /\ toClient \in Seq(Msg)
  BY EmptySeq DEF Init
<1>4. /\ trace \in Traces /\ step = "next" /\ idx = 1 /\ pass = 0 /\ reading = None
      /\ minSectionY = None /\ serverDig = None /\ open \in BOOLEAN /\ tracked \in BOOLEAN
  BY DEF Init
<1>5. idx \in 1 .. Len(trace) + 1 /\ pass \in 0 .. Loops
  BY <1>1, <1>4, LedgerAssumption
<1>6. /\ digStarted \in SUBSET Positions /\ digPending \in SUBSET Positions
      /\ placePending \in SUBSET Positions /\ format \in {"read", "moved"}
  BY DEF Init
<1>7. ledger \in [Positions -> Blocks \cup {Unknown}]
  BY DEF Init
<1>8. world \in [Dims -> [Positions -> Blocks]] /\ here \in Dims
  BY DEF Init
<1> QED
  BY <1>2, <1>3, <1>4, <1>5, <1>6, <1>7, <1>8 DEF Types, StepName

LEMMA StepTypes == Types /\ [Next]_vars => Types'
<1>1. Types /\ UNCHANGED vars => Types'
  BY DEF vars, client, server, others, Types, Ev
<1> QED
  BY <1>1, DispatchTypes, ReaderTypes, ServerTypes DEF Next

(* Every variable keeps its type, for any traces and passes. *)
THEOREM LedgerTypes == Spec => []TypeOK
<1>1. Types => TypeOK
  <2> SUFFICES ASSUME Types PROVE TypeOK
    OBVIOUS
  <2>1. trace \in Seq(Event)
    BY Events
  <2>2. count \in [DOMAIN Zero -> Nat]
    BY DEF Types, Counter, Zero
  <2>3. \A i \in DOMAIN toServer : toServer[i] \in Event
    BY LenProperties, ElementOfSeq DEF Types
  <2>4. \A i \in DOMAIN toClient : toClient[i].kind \in {"update", "section", "chunk"}
    <3>1. \A i \in DOMAIN toClient : toClient[i] \in Msg
      BY LenProperties, ElementOfSeq DEF Types
    <3> QED
      BY <3>1, Heard
  <2>5. /\ pass \in 0 .. Loops /\ idx \in 1 .. Len(trace) + 1 /\ step \in StepName
        /\ digStarted \subseteq Positions /\ digPending \subseteq Positions
        /\ placePending \subseteq Positions /\ minSectionY \in {None, -4, 0}
        /\ ledger \in [Positions -> Blocks \cup {Unknown}]
        /\ reading = None \/ \E p \in Positions, b \in Blocks : reading = One(p, b)
        /\ open \in BOOLEAN /\ tracked \in BOOLEAN /\ serverDig \in Positions \cup {None}
        /\ world \in [Dims -> [Positions -> Blocks]] /\ here \in Dims
    BY DEF Types
  <2> QED
    BY <2>1, <2>2, <2>3, <2>4, <2>5 DEF TypeOK, StepName
<1> QED
  BY <1>1, InitTypes, StepTypes, PTL DEF Spec
-----------------------------------------------------------------------------
(* Nothing is confirmed twice *)

\* What is pending has been counted as sent, but for the dig being counted.
Counted ==
  /\ IsFiniteSet(digPending)
  /\ count.confirmed + Cardinality(digPending) <= count.sent + (IF step = "sent" THEN 1 ELSE 0)

LEMMA CountersOf ==
  ASSUME Types
  PROVE  count.confirmed \in Nat /\ count.sent \in Nat
  BY DEF Types, Counter

LEMMA Adding ==
  ASSUME NEW S, IsFiniteSet(S), NEW x
  PROVE  IsFiniteSet(S \cup {x}) /\ Cardinality(S \cup {x}) <= Cardinality(S) + 1
<1>1. Cardinality(S) \in Nat
  BY FS_CardinalityType
<1>2. IsFiniteSet(S \cup {x})
  BY FS_AddElement
<1>3. Cardinality(S \cup {x}) = IF x \in S THEN Cardinality(S) ELSE Cardinality(S) + 1
  BY FS_AddElement
<1> QED
  BY <1>1, <1>2, <1>3

LEMMA StepCounted == Types /\ Counted /\ [Next]_vars => Counted'
<1> SUFFICES ASSUME Types, Counted, [Next]_vars PROVE Counted'
  OBVIOUS
<1>0. /\ count.confirmed \in Nat /\ count.sent \in Nat
      /\ IsFiniteSet(digPending) /\ Cardinality(digPending) \in Nat
  BY CountersOf, FS_CardinalityType DEF Counted
<1>b. \A c \in Counter \ {"sent", "confirmed"} :
        count' = Bump(c) => count'.sent = count.sent /\ count'.confirmed = count.confirmed
  BY Bumps DEF Counter
<1>1. CASE /\ digPending' = digPending /\ step # "sent"
           /\ count'.sent = count.sent /\ count'.confirmed = count.confirmed
  BY <1>0, <1>1 DEF Counted
<1>2. CASE AddPending
  <2>1. IsFiniteSet(digPending') /\ Cardinality(digPending') <= Cardinality(digPending) + 1
    BY <1>0, <1>2, Adding DEF AddPending
  <2>2. Cardinality(digPending') \in Nat
    BY <2>1, FS_CardinalityType
  <2>3. count' = count /\ step' = "sent" /\ step = "pend"
    BY <1>2 DEF AddPending
  <2> QED
    BY <1>0, <2>1, <2>2, <2>3 DEF Counted
<1>3. CASE CountDig
  <2>1. count'.sent = count.sent + 1 /\ count'.confirmed = count.confirmed
    BY <1>3, Bumps DEF CountDig, Counter
  <2> QED
    BY <1>0, <1>3, <2>1 DEF CountDig, ToNextEvent, Counted
<1>4. CASE Confirm
  <2> DEFINE p == CHOOSE q \in DOMAIN reading : TRUE
  <2>1. CASE reading[p] = "air" /\ p \in digPending
    <3>1. count'.sent = count.sent /\ count'.confirmed = count.confirmed + 1
      BY <1>4, <2>1, Bumps DEF Confirm, Counter
    <3>2. digPending' = digPending \ {p} /\ step' = step
      BY <1>4, <2>1 DEF Confirm
    <3>3. IsFiniteSet(digPending') /\ Cardinality(digPending') = Cardinality(digPending) - 1
      BY <1>0, <2>1, <3>2, FS_RemoveElement
    <3> QED
      BY <1>0, <3>1, <3>2, <3>3 DEF Counted
  <2>2. CASE ~(reading[p] = "air" /\ p \in digPending)
    <3>1. digPending' = digPending /\ step' = step
      BY <1>4, <2>2 DEF Confirm
    <3>2. count'.sent = count.sent /\ count'.confirmed = count.confirmed
      BY <1>4, <2>2, <1>b DEF Confirm, Counter
    <3> QED
      BY <1>0, <3>1, <3>2 DEF Counted
  <2> QED
    BY <2>1, <2>2
<1>5. ASSUME DigStart \/ DigAbort \/ Synthesise \/ DigFinish \/ NoteDig \/ PlaceBlock
             \/ NotePlace \/ NextPass
      PROVE  Counted'
  <2>1. digPending' = digPending /\ step # "sent"
    BY <1>5 DEF DigStart, DigAbort, Synthesise, DigFinish, NoteDig, PlaceBlock, NotePlace, NextPass
  <2>2. count'.sent = count.sent /\ count'.confirmed = count.confirmed
    BY <1>5, <1>b DEF DigStart, DigAbort, Synthesise, DigFinish, NoteDig, PlaceBlock, NotePlace,
       NextPass, Counter
  <2> QED
    BY <1>1, <2>1, <2>2
<1>6. ASSUME ReadChunk \/ ReadSection \/ ReadUpdate \/ Server \/ UNCHANGED vars
      PROVE  Counted'
  <2>1. digPending' = digPending /\ step' = step
    BY <1>6 DEF ReadChunk, ReadSection, ReadUpdate, Server, ServerReceives, OtherChange, Track,
       Untrack, Disconnect, client, vars
  <2>2. count'.sent = count.sent /\ count'.confirmed = count.confirmed
    BY <1>6, <1>b DEF ReadChunk, ReadSection, ReadUpdate, Server, ServerReceives, OtherChange,
       Track, Untrack, Disconnect, client, vars, Counter
  <2> QED
    BY <1>0, <2>1, <2>2 DEF Counted
<1> QED
  BY <1>2, <1>3, <1>4, <1>5, <1>6 DEF Next, Dispatch, Reader

LEMMA InitCounted == Init => Counted
<1> SUFFICES ASSUME Init PROVE Counted
  OBVIOUS
<1>1. digPending = {} /\ count.confirmed = 0 /\ count.sent = 0 /\ step = "next"
  BY DEF Init, Zero
<1> QED
  BY <1>1, FS_EmptySet DEF Counted

(* A dig is confirmed at most as often as one was sent, although the reader *)
(* may confirm it before the dispatcher counts it (dispatch.go, session.go). *)
THEOREM DigsConfirmedOnce == Spec => []ConfirmedOnce
<1>1. Types /\ Counted => ConfirmedOnce
  <2> SUFFICES ASSUME Types, Counted PROVE ConfirmedOnce
    OBVIOUS
  <2>1. count.confirmed \in Nat /\ count.sent \in Nat /\ Cardinality(digPending) \in Nat
    BY CountersOf, FS_CardinalityType DEF Counted
  <2> QED
    BY <2>1 DEF Counted, ConfirmedOnce
<1>2. Init => Types /\ Counted
  BY InitTypes, InitCounted
<1>3. Types /\ Counted /\ [Next]_vars => (Types /\ Counted)'
  BY StepTypes, StepCounted
<1> QED
  BY <1>1, <1>2, <1>3, PTL DEF Spec
-----------------------------------------------------------------------------
(* Every finish follows its start *)

\* The last dig of t before its n-th event is its i-th.
PrevAt(t, i, n) == i \in 1 .. n - 1 /\ IsDig(t[i]) /\ \A k \in i + 1 .. n - 1 : ~IsDig(t[k])
StartOf(p) == [op |-> "start", at |-> p]

\* The last dig of t at p before its n-th event is its i-th.
LastAt(t, p, i, n) ==
  /\ i \in 1 .. n - 1 /\ IsDig(t[i]) /\ t[i].at = p
  /\ \A k \in i + 1 .. n - 1 : IsDig(t[k]) => t[k].at # p

\* The last dig of what is started and not finished was its start, in this pass or
\* in the one before.
Known ==
  /\ \A x \in digStarted :
       \/ \E i \in 1 .. Len(trace) : LastAt(trace, x, i, idx) /\ trace[i] = StartOf(x)
       \/ /\ pass > 0
          /\ \E i \in 1 .. Len(trace) : LastAt(trace, x, i, Len(trace) + 1) /\ trace[i] = StartOf(x)
          /\ \A k \in 1 .. idx - 1 : IsDig(trace[k]) => trace[k].at # x
  /\ step \in {"finish", "note", "pend", "sent"} => Ev.at \notin digStarted

\* Once the server has taken the first n packets of q it is digging at p, if
\* it digs at d now.
DiggingAfter(q, n, d, p) ==
  \/ \E j \in 1 .. n : q[j] = StartOf(p) /\ \A l \in j + 1 .. n : q[l].op = "place"
  \/ d = p /\ \A l \in 1 .. n : q[l].op = "place"
Digging(p) == DiggingAfter(toServer, Len(toServer), serverDig, p)
Paired == \A k \in 1 .. Len(toServer) :
            toServer[k].op = "finish" => \/ DiggingAfter(toServer, k - 1, serverDig, toServer[k].at)
                                        \/ LeftOver(trace, toServer[k].at)

Pairs ==
  /\ ~open => toServer = <<>>
  /\ open => /\ Paired
             /\ step = "finish" => Digging(Ev.at)
             /\ step \in {"next", "placed"} =>
                  \A i \in 1 .. Len(trace) :
                    trace[i].op = "start" =>
                      /\ PrevAt(trace, i, idx) => Digging(trace[i].at)
                      /\ /\ pass > 0 /\ PrevAt(trace, i, Len(trace) + 1)
                         /\ \A k \in 1 .. idx - 1 : ~IsDig(trace[k])
                         => Digging(trace[i].at)

LEMMA DiggingAppend ==
  ASSUME NEW q \in Seq(Event), NEW e \in Event, NEW n \in 0 .. Len(q), NEW d, NEW p
  PROVE  DiggingAfter(q, n, d, p) <=> DiggingAfter(Append(q, e), n, d, p)
<1>1. \A i \in 1 .. n : Append(q, e)[i] = q[i]
  BY AppendOf
<1>2. n \in Nat
  BY AppendOf
<1> QED
  BY <1>1, <1>2 DEF DiggingAfter

LEMMA DiggingAppended ==
  ASSUME NEW q \in Seq(Event), NEW e \in Event, NEW d, NEW p,
         e = StartOf(p) \/ (e.op = "place" /\ DiggingAfter(q, Len(q), d, p))
  PROVE  DiggingAfter(Append(q, e), Len(Append(q, e)), d, p)
<1>1. Len(q) \in Nat /\ Len(Append(q, e)) = Len(q) + 1 /\ Append(q, e)[Len(q) + 1] = e
  BY AppendOf
<1>2. CASE e = StartOf(p)
  BY <1>1, <1>2 DEF DiggingAfter
<1>3. CASE e.op = "place" /\ DiggingAfter(q, Len(q), d, p)
  <2>1. DiggingAfter(Append(q, e), Len(q), d, p)
    BY <1>1, <1>3, DiggingAppend
  <2> QED
    BY <1>1, <1>3, <2>1 DEF DiggingAfter
<1> QED
  BY <1>2, <1>3

LEMMA DiggingTail ==
  ASSUME NEW q \in Seq(Event), q # <<>>, NEW n \in 1 .. Len(q), NEW d, NEW e, NEW p,
         DiggingAfter(q, n, d, p),
         Head(q).op = "start" => e = Head(q).at, Head(q).op = "place" => e = d
  PROVE  DiggingAfter(Tail(q), n - 1, e, p)
<1>1. /\ Head(q) = q[1] /\ Len(q) \in Nat /\ n \in Nat
      /\ \A i \in 1 .. n - 1 : Tail(q)[i] = q[i + 1]
  BY TailOf
<1>2. CASE d = p /\ \A l \in 1 .. n : q[l].op = "place"
  BY <1>1, <1>2 DEF DiggingAfter
<1>3. ASSUME NEW j \in 1 .. n, q[j] = StartOf(p), \A l \in j + 1 .. n : q[l].op = "place"
      PROVE  DiggingAfter(Tail(q), n - 1, e, p)
  <2>1. CASE j = 1
    <3>1. e = p
      BY <1>1, <1>3, <2>1 DEF StartOf
    <3>2. \A l \in 1 .. n - 1 : Tail(q)[l].op = "place"
      BY <1>1, <1>3, <2>1
    <3> QED
      BY <3>1, <3>2 DEF DiggingAfter
  <2>2. CASE j > 1
    <3>1. j - 1 \in 1 .. n - 1 /\ Tail(q)[j - 1] = StartOf(p)
      BY <1>1, <1>3, <2>2
    <3>2. \A l \in (j - 1) + 1 .. n - 1 : Tail(q)[l].op = "place"
      BY <1>1, <1>3, <2>2
    <3> QED
      BY <3>1, <3>2 DEF DiggingAfter
  <2> QED
    BY <1>1, <2>1, <2>2
<1> QED
  BY <1>2, <1>3 DEF DiggingAfter

\* What an event does to what came before it.
LEMMA PrevOf ==
  ASSUME Types, idx <= Len(trace)
  PROVE  /\ idx \in 1 .. Len(trace) /\ idx + 1 - 1 = idx
         /\ IsDig(Ev) => /\ PrevAt(trace, idx, idx + 1)
                         /\ \A i \in 1 .. Len(trace) : PrevAt(trace, i, idx + 1) => i = idx
         /\ ~IsDig(Ev) => \A i \in 1 .. Len(trace) : PrevAt(trace, i, idx + 1) <=> PrevAt(trace, i, idx)
  BY Events DEF PrevAt, Ev

LEMMA StepKnown == Types /\ Known /\ [Next]_vars => Known'
<1> SUFFICES ASSUME Types, Known, [Next]_vars PROVE Known'
  OBVIOUS
<1>0. /\ Len(trace) \in Nat /\ idx \in Nat \ {0} /\ idx <= Len(trace) + 1 /\ pass \in Nat
      /\ idx <= Len(trace) => Ev.at \in Positions
  BY Events, LedgerAssumption DEF Types
<1>1. CASE UNCHANGED <<trace, pass, idx, step, digStarted>>
  BY <1>1 DEF Known, Ev
<1>2. ASSUME UNCHANGED <<trace, pass, idx, digStarted>>, step' # "next",
             step' = "placed" \/ Ev.at \notin digStarted
      PROVE  Known'
  BY <1>2 DEF Known, Ev
<1>3. ASSUME UNCHANGED <<trace, pass>>, ToNextEvent, idx <= Len(trace), IsDig(Ev),
             step = "next" \/ (Ev.op = "finish" /\ Ev.at \notin digStarted),
             Ev.op = "start" => digStarted' = digStarted \cup {Ev.at},
             Ev.op # "start" => digStarted' = digStarted \ {Ev.at}
      PROVE  Known'
  <2>1. /\ idx \in 1 .. Len(trace) /\ idx' = idx + 1 /\ step' = "next"
        /\ trace' = trace /\ pass' = pass /\ Ev = trace[idx]
    BY <1>0, <1>3 DEF ToNextEvent, Ev
  <2>2. ASSUME NEW x \in digStarted'
        PROVE  \/ \E i \in 1 .. Len(trace) : LastAt(trace, x, i, idx') /\ trace[i] = StartOf(x)
               \/ /\ pass > 0
                  /\ \E i \in 1 .. Len(trace) : LastAt(trace, x, i, Len(trace) + 1) /\ trace[i] = StartOf(x)
                  /\ \A k \in 1 .. idx' - 1 : IsDig(trace[k]) => trace[k].at # x
    <3>1. CASE Ev.op = "start" /\ x = Ev.at
      <4>1. trace[idx] = StartOf(x)
        BY <2>1, <3>1, Events DEF StartOf, Event
      <4>2. LastAt(trace, x, idx, idx')
        BY <1>0, <1>3, <2>1, <3>1 DEF LastAt
      <4> QED
        BY <2>1, <4>1, <4>2
    <3>2. CASE ~(Ev.op = "start" /\ x = Ev.at)
      <4>1. x \in digStarted /\ x # trace[idx].at
        BY <1>3, <2>1, <2>2, <3>2
      <4>2. \A i \in 1 .. Len(trace) : LastAt(trace, x, i, idx) => LastAt(trace, x, i, idx')
        BY <1>0, <2>1, <4>1 DEF LastAt
      <4>3. (\A k \in 1 .. idx - 1 : IsDig(trace[k]) => trace[k].at # x)
              => \A k \in 1 .. idx' - 1 : IsDig(trace[k]) => trace[k].at # x
        BY <1>0, <2>1, <4>1
      <4> QED
        BY <4>1, <4>2, <4>3 DEF Known
    <3> QED
      BY <3>1, <3>2
  <2> QED
    BY <2>1, <2>2 DEF Known
<1>4. CASE DigStart \/ DigAbort
  <2>1. UNCHANGED <<trace, pass>> /\ ToNextEvent /\ idx <= Len(trace) /\ IsDig(Ev) /\ step = "next"
    BY <1>4 DEF DigStart, DigAbort, Running, IsDig
  <2>2. Ev.op = "start" => digStarted' = digStarted \cup {Ev.at}
    BY <1>4 DEF DigStart, DigAbort
  <2>3. Ev.op # "start" => digStarted' = digStarted \ {Ev.at}
    BY <1>4 DEF DigStart, DigAbort
  <2> QED
    BY <1>3, <2>1, <2>2, <2>3
<1>5. CASE Synthesise
  BY <1>2, <1>5 DEF Synthesise
<1>6. CASE DigFinish
  BY <1>6 DEF DigFinish, Known, Ev
<1>7. CASE NoteDig \/ AddPending \/ CountDig
  <2>1. /\ step \in {"note", "pend", "sent"} /\ UNCHANGED <<trace, pass, digStarted>>
        /\ idx <= Len(trace) /\ Ev.op = "finish" /\ Ev.at \notin digStarted
    BY <1>7 DEF NoteDig, AddPending, CountDig, Types, Known
  <2>2. ToNextEvent \/ (step' # "next" /\ UNCHANGED idx)
    <3>1. NoteDig => ToNextEvent \/ (step' # "next" /\ UNCHANGED idx)
      BY DEF NoteDig
    <3>2. AddPending \/ CountDig => ToNextEvent \/ (step' # "next" /\ UNCHANGED idx)
      BY DEF AddPending, CountDig
    <3> QED
      BY <1>7, <3>1, <3>2
  <2>3. CASE ToNextEvent
    BY <1>3, <2>1, <2>3 DEF IsDig
  <2>4. CASE step' # "next" /\ UNCHANGED idx
    BY <1>2, <2>1, <2>4
  <2> QED
    BY <2>2, <2>3, <2>4
<1>8. CASE PlaceBlock
  BY <1>2, <1>8 DEF PlaceBlock
<1>9. CASE NotePlace
  <2>1. /\ UNCHANGED <<trace, pass, digStarted>> /\ ToNextEvent /\ idx <= Len(trace) /\ ~IsDig(Ev)
    BY <1>9 DEF NotePlace, Types, IsDig
  <2>2. /\ idx \in 1 .. Len(trace) /\ idx' = idx + 1 /\ step' = "next" /\ ~IsDig(trace[idx])
    BY <1>0, <2>1 DEF ToNextEvent, Ev
  <2>3. \A x : \A i \in 1 .. Len(trace) : LastAt(trace, x, i, idx) => LastAt(trace, x, i, idx')
    BY <1>0, <2>2 DEF LastAt
  <2>4. ASSUME NEW x, \A k \in 1 .. idx - 1 : IsDig(trace[k]) => trace[k].at # x
        PROVE  \A k \in 1 .. idx' - 1 : IsDig(trace[k]) => trace[k].at # x
    BY <1>0, <2>2, <2>4
  <2> QED
    BY <2>1, <2>2, <2>3, <2>4 DEF Known
<1>10. CASE NextPass
  <2>1. /\ UNCHANGED <<trace, digStarted, step>> /\ step = "next" /\ idx = Len(trace) + 1
        /\ idx' = 1 /\ pass' > 0
    BY <1>0, <1>10 DEF NextPass
  <2>2. \A x : \A k \in 1 .. idx' - 1 : IsDig(trace[k]) => trace[k].at # x
    BY <2>1
  <2>3. ASSUME NEW x \in digStarted
        PROVE  \E i \in 1 .. Len(trace) : LastAt(trace, x, i, Len(trace) + 1) /\ trace[i] = StartOf(x)
    BY <2>1, <2>3 DEF Known
  <2> QED
    BY <2>1, <2>2, <2>3 DEF Known
<1>11. CASE Reader \/ Server \/ UNCHANGED vars
  BY <1>1, <1>11 DEF Reader, ReadChunk, ReadSection, ReadUpdate, Confirm, Server, ServerReceives,
     OtherChange, Track, Untrack, Disconnect, client, vars
<1> QED
  BY <1>4, <1>5, <1>6, <1>7, <1>8, <1>9, <1>10, <1>11 DEF Next, Dispatch

LEMMA SendPairs ==
  ASSUME Types, idx <= Len(trace), NEW op \in {"start", "abort", "finish", "place"}, Send(op), open,
         serverDig' = serverDig, trace' = trace, Paired,
         op = "finish" => Digging(Ev.at) \/ LeftOver(trace, Ev.at)
  PROVE  /\ Paired'
         /\ \A p : (op = "start" /\ p = Ev.at) \/ (op = "place" /\ Digging(p)) => Digging(p)'
<1> DEFINE e == [op |-> op, at |-> Ev.at]
           n == Len(toServer)
<1>1. e \in Event /\ e.op = op /\ e.at = Ev.at
  BY Events DEF Event
<1>2. toServer' = Append(toServer, e) /\ toServer \in Seq(Event) /\ n \in Nat
  BY Sends, LenProperties DEF Types
<1>3. Len(toServer') = n + 1 /\ toServer'[n + 1] = e /\ \A k \in 1 .. n : toServer'[k] = toServer[k]
  BY <1>1, <1>2, AppendOf
<1>4. \A k \in 0 .. n : \A p : DiggingAfter(toServer, k, serverDig, p) => DiggingAfter(toServer', k, serverDig, p)
  BY <1>1, <1>2, DiggingAppend
<1>5. Paired'
  <2> SUFFICES ASSUME NEW k \in 1 .. Len(toServer'), toServer'[k].op = "finish",
                      ~LeftOver(trace, toServer'[k].at)
               PROVE  DiggingAfter(toServer', k - 1, serverDig, toServer'[k].at)
    BY DEF Paired
  <2>1. CASE k \in 1 .. n
    <3>1. DiggingAfter(toServer, k - 1, serverDig, toServer[k].at)
      BY <1>3, <2>1 DEF Paired
    <3> QED
      BY <1>2, <1>3, <1>4, <2>1, <3>1
  <2>2. CASE k = n + 1
    <3>1. DiggingAfter(toServer, n, serverDig, Ev.at)
      BY <1>1, <1>3, <2>2 DEF Digging
    <3> QED
      BY <1>1, <1>2, <1>3, <1>4, <2>2, <3>1
  <2> QED
    BY <1>2, <1>3, <2>1, <2>2
<1>6. ASSUME NEW p, (op = "start" /\ p = Ev.at) \/ (op = "place" /\ Digging(p))
      PROVE  DiggingAfter(toServer', Len(toServer'), serverDig, p)
  <2>1. e = StartOf(p) \/ (e.op = "place" /\ DiggingAfter(toServer, n, serverDig, p))
    BY <1>1, <1>6 DEF StartOf, Digging
  <2> QED
    BY <1>1, <1>2, <2>1, DiggingAppended
<1> QED
  BY <1>5, <1>6 DEF Digging

LEMMA ReceivePairs ==
  ASSUME Types, ServerReceives, trace' = trace, Paired
  PROVE  Paired' /\ \A p : Digging(p) => Digging(p)'
<1> DEFINE n == Len(toServer)
<1>1. /\ toServer \in Seq(Event) /\ toServer # <<>> /\ toServer' = Tail(toServer)
      /\ n \in Nat \ {0} /\ Len(toServer') = n - 1 /\ Head(toServer) = toServer[1]
      /\ \A i \in 1 .. n - 1 : toServer'[i] = toServer[i + 1]
  BY TailOf DEF ServerReceives, Types
<1>2. /\ Head(toServer).op = "start" => serverDig' = Head(toServer).at
      /\ Head(toServer).op = "place" => serverDig' = serverDig
  BY DEF ServerReceives
<1>3. \A k \in 1 .. n : \A p : DiggingAfter(toServer, k, serverDig, p)
                                 => DiggingAfter(toServer', k - 1, serverDig', p)
  BY <1>1, <1>2, DiggingTail
<1>4. Paired'
  <2> SUFFICES ASSUME NEW k \in 1 .. n - 1, toServer'[k].op = "finish",
                      ~LeftOver(trace, toServer'[k].at)
               PROVE  DiggingAfter(toServer', k - 1, serverDig', toServer'[k].at)
    BY <1>1 DEF Paired
  <2>1. k + 1 \in 1 .. n /\ k \in 1 .. n /\ (k + 1) - 1 = k /\ toServer[k + 1] = toServer'[k]
    BY <1>1
  <2>2. DiggingAfter(toServer, k, serverDig, toServer[k + 1].at)
    BY <2>1 DEF Paired
  <2> QED
    BY <1>3, <2>1, <2>2
<1>5. \A p : Digging(p) => DiggingAfter(toServer', Len(toServer'), serverDig', p)
  BY <1>1, <1>3 DEF Digging
<1> QED
  BY <1>4, <1>5 DEF Digging

LEMMA StepPairs == Types /\ Known /\ Pairs /\ [Next]_vars => Pairs'
<1> SUFFICES ASSUME Types, Known, Pairs, [Next]_vars PROVE Pairs'
  OBVIOUS
<1>0. /\ Len(trace) \in Nat /\ idx \in Nat \ {0} /\ idx <= Len(trace) + 1
      /\ idx <= Len(trace) => Ev.at \in Positions
  BY Events DEF Types
<1>1. CASE UNCHANGED <<trace, pass, idx, step, open, toServer, serverDig>>
  BY <1>1 DEF Pairs, Paired, Digging, Ev
<1>2. CASE Reader \/ OtherChange \/ Track \/ Untrack \/ UNCHANGED vars
  BY <1>1, <1>2 DEF Reader, ReadChunk, ReadSection, ReadUpdate, Confirm, OtherChange, Track, Untrack,
     server, others, client, vars
<1>3. CASE Disconnect
  BY <1>3 DEF Disconnect, Pairs
<1>4. CASE ~open
  <2>1. CASE Dispatch
    <3>1. ~open' /\ toServer' = toServer
      BY <1>4, <2>1 DEF Dispatch, DigStart, DigAbort, Synthesise, DigFinish, NoteDig, AddPending,
         CountDig, PlaceBlock, NotePlace, NextPass, Send
    <3> QED
      BY <1>4, <3>1 DEF Pairs
  <2> QED
    BY <1>2, <1>3, <1>4, <2>1 DEF Next, Server, ServerReceives
<1>5. CASE open /\ ServerReceives
  <2>1. UNCHANGED <<trace, pass, idx, step, open>>
    BY <1>5 DEF ServerReceives, client
  <2>2. Paired' /\ \A p : Digging(p) => Digging(p)'
    BY <1>5, <2>1, ReceivePairs DEF Pairs
  <2>3. step = "finish" => Digging(Ev.at)'
    BY <1>5, <2>1, <2>2 DEF Pairs, Ev, Digging
  <2>4. \A i \in 1 .. Len(trace) : Digging(trace[i].at) => Digging(trace[i].at)'
    BY <2>1, <2>2 DEF Digging
  <2> QED
    BY <1>5, <2>1, <2>2, <2>3, <2>4 DEF Pairs
<1>6. CASE open /\ DigStart
  <2>1. /\ UNCHANGED <<trace, pass, open, serverDig>> /\ idx' = idx + 1 /\ step' = "next"
        /\ idx <= Len(trace) /\ Ev.op = "start" /\ IsDig(Ev) /\ Send("start")
    BY <1>6 DEF DigStart, Running, ToNextEvent, server, others, IsDig
  <2>2. Paired' /\ \A p : p = Ev.at => Digging(p)'
    BY <1>6, <2>1, SendPairs DEF Pairs
  <2>3. idx \in 1 .. idx' - 1 /\ IsDig(trace[idx])
    BY <1>0, <2>1 DEF Ev
  <2>4. \A i \in 1 .. Len(trace) : PrevAt(trace, i, idx') => i = idx
    BY <2>1, PrevOf
  <2>5. \A i \in 1 .. Len(trace) : i = idx => Digging(trace[i].at)'
    BY <2>1, <2>2 DEF Ev, Digging
  <2> QED
    BY <1>6, <2>1, <2>2, <2>3, <2>4, <2>5 DEF Pairs
<1>7. CASE open /\ DigAbort
  <2>1. /\ UNCHANGED <<trace, pass, open, serverDig>> /\ idx' = idx + 1 /\ step' = "next"
        /\ idx <= Len(trace) /\ Ev.op = "abort" /\ IsDig(Ev) /\ Send("abort")
    BY <1>7 DEF DigAbort, Running, ToNextEvent, server, others, IsDig
  <2>2. Paired'
    BY <1>7, <2>1, SendPairs DEF Pairs
  <2>3. idx \in 1 .. idx' - 1 /\ IsDig(trace[idx]) /\ trace[idx].op # "start"
    BY <1>0, <2>1 DEF Ev
  <2>4. \A i \in 1 .. Len(trace) : PrevAt(trace, i, idx') => i = idx
    BY <2>1, PrevOf
  <2> QED
    BY <1>7, <2>1, <2>2, <2>3, <2>4 DEF Pairs
<1>8. CASE open /\ Synthesise
  <2>1. /\ UNCHANGED <<trace, pass, idx, open, serverDig>> /\ step' = "finish"
        /\ idx <= Len(trace) /\ Send("start")
    BY <1>8 DEF Synthesise, Running, server, others
  <2>2. Paired' /\ \A p : p = Ev.at => Digging(p)'
    BY <1>8, <2>1, SendPairs DEF Pairs
  <2>3. Digging(Ev.at)'
    BY <2>1, <2>2 DEF Digging, Ev
  <2> QED
    BY <1>8, <2>1, <2>2, <2>3 DEF Pairs
<1>9. CASE open /\ DigFinish
  <2>1. /\ UNCHANGED <<trace, pass, idx, open, serverDig>> /\ step' = "note"
        /\ idx \in 1 .. Len(trace) /\ idx <= Len(trace) /\ Ev.op = "finish" /\ IsDig(Ev) /\ Send("finish")
    BY <1>0, <1>9 DEF DigFinish, Running, server, others, IsDig
  <2>a. pass > 0 => Loops > 1
    BY <1>9, LedgerAssumption DEF DigFinish, Running, Types
  <2>2. Digging(Ev.at) \/ LeftOver(trace, Ev.at)
    <3>1. CASE step = "finish"
      BY <1>9, <3>1 DEF Pairs
    <3>2. CASE step = "next" /\ Ev.at \in digStarted
      <4>0. /\ trace[idx] = [op |-> "finish", at |-> Ev.at] /\ trace[idx].op = "finish"
            /\ DOMAIN trace = 1 .. Len(trace)
        BY <2>1, Events DEF Ev, Event
      <4>1. ASSUME NEW i \in 1 .. Len(trace), LastAt(trace, Ev.at, i, idx), trace[i] = StartOf(Ev.at)
            PROVE  Digging(Ev.at) \/ LeftOver(trace, Ev.at)
        <5>1. trace[i].op = "start" /\ trace[i].at = Ev.at /\ i < idx
          BY <1>0, <4>1 DEF StartOf, LastAt
        <5>2. CASE \A k \in i + 1 .. idx - 1 : ~IsDig(trace[k])
          BY <1>9, <3>2, <4>1, <5>1, <5>2 DEF Pairs, PrevAt, LastAt
        <5>3. CASE \E k \in i + 1 .. idx - 1 : IsDig(trace[k])
          <6>1. Between(trace, i, idx) = i + 1 .. idx - 1
            BY <5>1 DEF Between
          <6> QED
            BY <2>1, <4>0, <4>1, <5>1, <5>3, <6>1 DEF LeftOver, LastAt, StartOf
        <5> QED
          BY <5>2, <5>3
      <4>2. ASSUME pass > 0, NEW i \in 1 .. Len(trace), LastAt(trace, Ev.at, i, Len(trace) + 1),
                   trace[i] = StartOf(Ev.at), \A k \in 1 .. idx - 1 : IsDig(trace[k]) => trace[k].at # Ev.at
            PROVE  Digging(Ev.at) \/ LeftOver(trace, Ev.at)
        <5>1. trace[i].op = "start" /\ trace[i].at = Ev.at /\ IsDig(trace[i])
          BY <4>2 DEF StartOf, IsDig
        <5>2. ~(i < idx)
          BY <1>0, <4>2, <5>1
        <5>3. CASE (\A k \in i + 1 .. Len(trace) : ~IsDig(trace[k])) /\ \A k \in 1 .. idx - 1 : ~IsDig(trace[k])
          <6>1. PrevAt(trace, i, Len(trace) + 1)
            BY <1>0, <4>2, <5>1, <5>3 DEF PrevAt
          <6> QED
            BY <1>9, <3>2, <4>2, <5>1, <5>3, <6>1 DEF Pairs
        <5>4. CASE \E k \in (i + 1 .. Len(trace)) \cup (1 .. idx - 1) : IsDig(trace[k])
          <6>1. Between(trace, i, idx) = (i + 1 .. Len(trace)) \cup (1 .. idx - 1)
            BY <5>2 DEF Between
          <6>2. \A k \in i + 1 .. Len(trace) : IsDig(trace[k]) => trace[k].at # Ev.at
            BY <1>0, <4>2 DEF LastAt
          <6>3. Loops > 1
            BY <4>2, <2>a
          <6> QED
            BY <2>1, <4>0, <4>2, <5>4, <6>1, <6>2, <6>3 DEF LeftOver, StartOf
        <5> QED
          BY <5>3, <5>4
      <4> QED
        BY <3>2, <4>1, <4>2 DEF Known
    <3> QED
      BY <1>9, <3>1, <3>2 DEF DigFinish
  <2>3. Paired'
    BY <1>9, <2>1, <2>2, SendPairs DEF Pairs
  <2> QED
    BY <1>9, <2>1, <2>3 DEF Pairs
<1>10. CASE open /\ (NoteDig \/ AddPending \/ CountDig)
  <2>1. /\ UNCHANGED <<trace, pass, open, toServer, serverDig>>
        /\ idx \in 1 .. Len(trace) /\ idx <= Len(trace) /\ Ev.op = "finish" /\ IsDig(Ev)
    <3>1. step \in {"note", "pend", "sent"} /\ UNCHANGED <<trace, pass, open, toServer, serverDig>>
      BY <1>10 DEF NoteDig, AddPending, CountDig, server, others
    <3>2. idx <= Len(trace) /\ Ev.op = "finish"
      BY <3>1 DEF Types
    <3> QED
      BY <1>0, <3>1, <3>2 DEF IsDig
  <2>2. Paired'
    BY <1>10, <2>1 DEF Pairs, Paired
  <2>3. ToNextEvent \/ step' \in {"pend", "sent"}
    <3>1. NoteDig => ToNextEvent \/ step' \in {"pend", "sent"}
      BY DEF NoteDig
    <3>2. AddPending \/ CountDig => ToNextEvent \/ step' \in {"pend", "sent"}
      BY DEF AddPending, CountDig
    <3> QED
      BY <1>10, <3>1, <3>2
  <2>4. CASE ToNextEvent
    <3>1. idx' = idx + 1 /\ step' = "next" /\ idx \in 1 .. idx' - 1
      BY <1>0, <2>1, <2>4 DEF ToNextEvent
    <3>2. IsDig(trace[idx]) /\ trace[idx].op # "start"
      BY <2>1 DEF Ev
    <3>3. \A i \in 1 .. Len(trace) : PrevAt(trace, i, idx') => i = idx
      BY <2>1, <3>1, PrevOf
    <3> QED
      BY <1>10, <2>1, <2>2, <3>1, <3>2, <3>3 DEF Pairs
  <2>5. CASE step' \in {"pend", "sent"}
    BY <1>10, <2>1, <2>2, <2>5 DEF Pairs
  <2> QED
    BY <2>3, <2>4, <2>5
<1>11. CASE open /\ PlaceBlock
  <2>1. /\ UNCHANGED <<trace, pass, idx, open, serverDig>> /\ step = "next" /\ step' = "placed"
        /\ idx <= Len(trace) /\ Send("place")
    BY <1>11 DEF PlaceBlock, Running, server, others
  <2>2. Paired' /\ \A p : Digging(p) => Digging(p)'
    BY <1>11, <2>1, SendPairs DEF Pairs
  <2>3. \A i \in 1 .. Len(trace) : Digging(trace[i].at) => Digging(trace[i].at)'
    BY <2>1, <2>2 DEF Digging
  <2> QED
    BY <1>11, <2>1, <2>2, <2>3 DEF Pairs
<1>12. CASE open /\ NotePlace
  <2>1. /\ UNCHANGED <<trace, pass, open, toServer, serverDig>> /\ idx' = idx + 1 /\ step' = "next"
        /\ step = "placed" /\ idx <= Len(trace) /\ ~IsDig(Ev)
    BY <1>12 DEF NotePlace, ToNextEvent, Types, server, others, IsDig
  <2>2. \A i \in 1 .. Len(trace) : PrevAt(trace, i, idx') <=> PrevAt(trace, i, idx)
    BY <2>1, PrevOf
  <2>3. 1 .. idx - 1 \subseteq 1 .. idx' - 1
    BY <1>0, <2>1
  <2>4. Paired' /\ \A i \in 1 .. Len(trace) : Digging(trace[i].at) => Digging(trace[i].at)'
    BY <1>12, <2>1 DEF Pairs, Paired, Digging
  <2> QED
    BY <1>12, <2>1, <2>2, <2>3, <2>4 DEF Pairs
<1>13. CASE open /\ NextPass
  <2>1. /\ UNCHANGED <<trace, step, open, toServer, serverDig>> /\ idx' = 1 /\ step = "next"
        /\ idx = Len(trace) + 1
    BY <1>0, <1>13 DEF NextPass, server, others
  <2>2. \A i \in 1 .. Len(trace) : ~PrevAt(trace, i, idx')
    BY <2>1 DEF PrevAt
  <2>3. Paired' /\ \A i \in 1 .. Len(trace) : Digging(trace[i].at) => Digging(trace[i].at)'
    BY <1>13, <2>1 DEF Pairs, Paired, Digging
  <2> QED
    BY <1>13, <2>1, <2>2, <2>3 DEF Pairs
<1> QED
  BY <1>2, <1>3, <1>4, <1>5, <1>6, <1>7, <1>8, <1>9, <1>10, <1>11, <1>12, <1>13
     DEF Next, Dispatch, Server, Types

LEMMA InitPairs == Init => Known /\ Pairs
<1> SUFFICES ASSUME Init PROVE Known /\ Pairs
  OBVIOUS
<1>1. idx = 1 /\ step = "next" /\ digStarted = {} /\ toServer = <<>> /\ pass = 0
  BY DEF Init
<1>3. \A i \in 1 .. Len(trace) : ~PrevAt(trace, i, idx)
  BY <1>1 DEF PrevAt
<1>4. Paired
  BY <1>1 DEF Paired
<1> QED
  BY <1>1, <1>3, <1>4 DEF Known, Pairs

(* The server takes a finish only for the position it last saw started      *)
(* (dispatch.go): every finish that reaches it is one, whatever trace is     *)
(* replayed and however often, unless the trace has a start left alone at   *)
(* that position, which hides that a later finish lacks its own.            *)
THEOREM DigsArePaired == Spec => []FinishIsPaired
<1>1. Types /\ Pairs => FinishIsPaired
  <2> SUFFICES ASSUME Types, Pairs, toServer # <<>>, Head(toServer).op = "finish",
                      ~LeftOver(trace, Head(toServer).at)
               PROVE  serverDig = Head(toServer).at
    BY DEF FinishIsPaired
  <2>1. Len(toServer) \in Nat \ {0} /\ Head(toServer) = toServer[1]
    BY TailOf DEF Types
  <2>2. open /\ Paired
    BY DEF Pairs
  <2>3. DiggingAfter(toServer, 0, serverDig, toServer[1].at)
    BY <2>1, <2>2 DEF Paired
  <2> QED
    BY <2>1, <2>3 DEF DiggingAfter
<1>2. Init => Types /\ Known /\ Pairs
  BY InitTypes, InitPairs
<1>3. Types /\ Known /\ Pairs /\ [Next]_vars => (Types /\ Known /\ Pairs)'
  BY StepTypes, StepKnown, StepPairs
<1> QED
  BY <1>1, <1>2, <1>3, PTL DEF Spec
-----------------------------------------------------------------------------
(* The ledger follows the world *)

\* Who knows b of p, with the messages q to read yet, will know w of it.
Told(q, b, w, p) ==
  \/ \E k \in 1 .. Len(q) : /\ p \in DOMAIN q[k].states /\ q[k].states[p] = w
                            /\ \A l \in k + 1 .. Len(q) : p \notin DOMAIN q[l].states
  \/ b \in {Unknown, w} /\ \A l \in 1 .. Len(q) : p \notin DOMAIN q[l].states

\* The last of the columns in q, if there is one, is of dimension d.
NoColumn(q) == \A k \in 1 .. Len(q) : q[k].kind # "chunk"
LastFrom(q, d) ==
  \A k \in 1 .. Len(q) :
    q[k].kind = "chunk" /\ (\A j \in k + 1 .. Len(q) : q[j].kind # "chunk") => q[k].from = d

\* What is in view has been told of, or its column was read at a wrong height:
\* columns of dimensions left before may still be read, but it comes after them.
Follows ==
  format = "read" /\ open /\ tracked =>
    /\ LastFrom(toClient, here)
    /\ \/ \A p \in Positions : Told(toClient, ledger[p], world[here][p], p)
       \/ minSectionY # Origin[here] /\ NoColumn(toClient)

LEMMA ColumnsAppend ==
  ASSUME NEW q \in Seq(Msg), NEW m \in Msg
  PROVE  /\ LastFrom(q, m.from) \/ m.kind = "chunk" => LastFrom(Append(q, m), m.from)
         /\ NoColumn(q) /\ m.kind # "chunk" => NoColumn(Append(q, m))
<1>1. /\ Len(q) \in Nat /\ Len(Append(q, m)) = Len(q) + 1 /\ Append(q, m)[Len(q) + 1] = m
      /\ \A i \in 1 .. Len(q) : Append(q, m)[i] = q[i]
  BY AppendOf
<1>2. NoColumn(q) /\ m.kind # "chunk" => NoColumn(Append(q, m))
  BY <1>1 DEF NoColumn
<1>3. ASSUME LastFrom(q, m.from) \/ m.kind = "chunk",
             NEW k \in 1 .. Len(Append(q, m)), Append(q, m)[k].kind = "chunk",
             \A j \in k + 1 .. Len(Append(q, m)) : Append(q, m)[j].kind # "chunk"
      PROVE  Append(q, m)[k].from = m.from
  <2>1. CASE k = Len(q) + 1
    BY <1>1, <2>1
  <2>2. CASE k # Len(q) + 1
    <3>1. k \in 1 .. Len(q) /\ Append(q, m)[k] = q[k]
      BY <1>1, <2>2
    <3>2. m.kind # "chunk" /\ \A j \in k + 1 .. Len(q) : q[j].kind # "chunk"
      <4>1. Len(q) + 1 \in k + 1 .. Len(Append(q, m))
        BY <1>1, <3>1
      <4>2. \A j \in k + 1 .. Len(q) : j \in 1 .. Len(q) /\ j \in k + 1 .. Len(Append(q, m))
        BY <1>1, <3>1
      <4> QED
        BY <1>1, <1>3, <4>1, <4>2
    <3> QED
      BY <1>3, <3>1, <3>2 DEF LastFrom
  <2> QED
    BY <2>1, <2>2
<1> QED
  BY <1>2, <1>3 DEF LastFrom

LEMMA ColumnsTail ==
  ASSUME NEW q \in Seq(Msg), q # <<>>, NEW d
  PROVE  /\ LastFrom(q, d) => LastFrom(Tail(q), d)
         /\ NoColumn(q) => Head(q).kind # "chunk" /\ NoColumn(Tail(q))
         /\ LastFrom(q, d) /\ Head(q).kind = "chunk" /\ NoColumn(Tail(q)) => Head(q).from = d
<1>1. /\ Head(q) = q[1] /\ Len(q) \in Nat \ {0} /\ Len(Tail(q)) = Len(q) - 1
      /\ \A i \in 1 .. Len(q) - 1 : Tail(q)[i] = q[i + 1]
  BY TailOf
<1>2. NoColumn(q) => Head(q).kind # "chunk" /\ NoColumn(Tail(q))
  BY <1>1 DEF NoColumn
<1>3. \A j \in 2 .. Len(q) : j - 1 \in 1 .. Len(Tail(q)) /\ Tail(q)[j - 1] = q[j]
  BY <1>1
<1>4. ASSUME LastFrom(q, d), NEW k \in 1 .. Len(Tail(q)), Tail(q)[k].kind = "chunk",
             \A j \in k + 1 .. Len(Tail(q)) : Tail(q)[j].kind # "chunk"
      PROVE  Tail(q)[k].from = d
  <2>1. k + 1 \in 1 .. Len(q) /\ Tail(q)[k] = q[k + 1]
    BY <1>1
  <2>2. ASSUME NEW j \in (k + 1) + 1 .. Len(q) PROVE q[j].kind # "chunk"
    <3>1. j \in 2 .. Len(q) /\ j - 1 \in k + 1 .. Len(Tail(q))
      BY <1>1
    <3> QED
      BY <1>3, <1>4, <3>1
  <2> QED
    BY <1>4, <2>1, <2>2 DEF LastFrom
<1>5. ASSUME LastFrom(q, d), Head(q).kind = "chunk", NoColumn(Tail(q))
      PROVE  Head(q).from = d
  <2>1. \A j \in 1 + 1 .. Len(q) : q[j].kind # "chunk"
    BY <1>3, <1>5 DEF NoColumn
  <2> QED
    BY <1>1, <1>5, <2>1 DEF LastFrom
<1> QED
  BY <1>2, <1>4, <1>5 DEF LastFrom

LEMMA ToldAppend ==
  ASSUME NEW q \in Seq(Msg), NEW m \in Msg, NEW b, NEW w, NEW p,
         IF p \in DOMAIN m.states THEN m.states[p] = w ELSE Told(q, b, w, p)
  PROVE  Told(Append(q, m), b, w, p)
<1>1. /\ Len(q) \in Nat /\ Len(Append(q, m)) = Len(q) + 1 /\ Append(q, m)[Len(q) + 1] = m
      /\ \A i \in 1 .. Len(q) : Append(q, m)[i] = q[i]
  BY AppendOf
<1>2. CASE p \in DOMAIN m.states
  <2>1. Len(q) + 1 \in 1 .. Len(Append(q, m)) /\ m.states[p] = w
    BY <1>1, <1>2
  <2>2. \A l \in (Len(q) + 1) + 1 .. Len(Append(q, m)) : p \notin DOMAIN Append(q, m)[l].states
    BY <1>1
  <2> QED
    BY <1>1, <1>2, <2>1, <2>2 DEF Told
<1>3. CASE p \notin DOMAIN m.states
  <2>1. ASSUME NEW k \in 1 .. Len(q), p \in DOMAIN q[k].states, q[k].states[p] = w,
               \A l \in k + 1 .. Len(q) : p \notin DOMAIN q[l].states
        PROVE  Told(Append(q, m), b, w, p)
    <3>1. k \in 1 .. Len(Append(q, m)) /\ Append(q, m)[k] = q[k]
      BY <1>1, <2>1
    <3>2. \A l \in k + 1 .. Len(Append(q, m)) : p \notin DOMAIN Append(q, m)[l].states
      BY <1>1, <1>3, <2>1
    <3> QED
      BY <2>1, <3>1, <3>2 DEF Told
  <2>2. ASSUME b \in {Unknown, w}, \A l \in 1 .. Len(q) : p \notin DOMAIN q[l].states
        PROVE  Told(Append(q, m), b, w, p)
    <3>1. \A l \in 1 .. Len(Append(q, m)) : p \notin DOMAIN Append(q, m)[l].states
      BY <1>1, <1>3, <2>2
    <3> QED
      BY <2>2, <3>1 DEF Told
  <2> QED
    BY <1>3, <2>1, <2>2 DEF Told
<1> QED
  BY <1>2, <1>3

LEMMA ToldTail ==
  ASSUME NEW q \in Seq(Msg), q # <<>>, NEW b, NEW c, NEW w, NEW p, Told(q, b, w, p),
         c = IF p \in DOMAIN Head(q).states THEN Head(q).states[p] ELSE b
  PROVE  Told(Tail(q), c, w, p)
<1>1. /\ Head(q) = q[1] /\ Len(q) \in Nat \ {0} /\ Len(Tail(q)) = Len(q) - 1
      /\ \A i \in 1 .. Len(q) - 1 : Tail(q)[i] = q[i + 1]
  BY TailOf
<1>2. ASSUME b \in {Unknown, w}, \A l \in 1 .. Len(q) : p \notin DOMAIN q[l].states
      PROVE  Told(Tail(q), c, w, p)
  <2>1. c = b
    BY <1>1, <1>2
  <2>2. \A l \in 1 .. Len(Tail(q)) : p \notin DOMAIN Tail(q)[l].states
    BY <1>1, <1>2
  <2> QED
    BY <1>2, <2>1, <2>2 DEF Told
<1>3. ASSUME NEW k \in 1 .. Len(q), p \in DOMAIN q[k].states, q[k].states[p] = w,
             \A l \in k + 1 .. Len(q) : p \notin DOMAIN q[l].states
      PROVE  Told(Tail(q), c, w, p)
  <2>1. CASE k = 1
    <3>1. c = w
      BY <1>1, <1>3, <2>1
    <3>2. \A l \in 1 .. Len(Tail(q)) : p \notin DOMAIN Tail(q)[l].states
      BY <1>1, <1>3, <2>1
    <3> QED
      BY <3>1, <3>2 DEF Told
  <2>2. CASE k > 1
    <3>1. k - 1 \in 1 .. Len(Tail(q)) /\ Tail(q)[k - 1] = q[k]
      BY <1>1, <1>3, <2>2
    <3>2. \A l \in (k - 1) + 1 .. Len(Tail(q)) : p \notin DOMAIN Tail(q)[l].states
      BY <1>1, <1>3, <2>2
    <3> QED
      BY <1>3, <3>1, <3>2 DEF Told
  <2> QED
    BY <1>1, <2>1, <2>2
<1> QED
  BY <1>2, <1>3 DEF Told

\* Who is told of p later need not know it now.
LEMMA ToldLater ==
  ASSUME NEW q \in Seq(Msg), q # <<>>, NEW b, NEW c, NEW w, NEW p, Told(q, b, w, p),
         NEW n \in 1 .. Len(Tail(q)), p \in DOMAIN Tail(q)[n].states
  PROVE  Told(Tail(q), c, w, p)
<1>1. /\ Len(q) \in Nat \ {0} /\ Len(Tail(q)) = Len(q) - 1
      /\ \A i \in 1 .. Len(q) - 1 : Tail(q)[i] = q[i + 1]
  BY TailOf
<1>2. n + 1 \in 1 .. Len(q) /\ p \in DOMAIN q[n + 1].states
  BY <1>1
<1>3. PICK k \in 1 .. Len(q) : /\ p \in DOMAIN q[k].states /\ q[k].states[p] = w
                               /\ \A l \in k + 1 .. Len(q) : p \notin DOMAIN q[l].states
  BY <1>2 DEF Told
<1>4. k >= n + 1
  BY <1>1, <1>2, <1>3
<1>5. k - 1 \in 1 .. Len(Tail(q)) /\ Tail(q)[k - 1] = q[k]
  BY <1>1, <1>4
<1>6. \A l \in (k - 1) + 1 .. Len(Tail(q)) : p \notin DOMAIN Tail(q)[l].states
  BY <1>1, <1>3, <1>4
<1> QED
  BY <1>3, <1>5, <1>6 DEF Told

LEMMA ReaderFollows ==
  ASSUME Types, Follows, Reader
  PROVE  Follows'
<1> SUFFICES ASSUME format = "read", open, tracked, UNCHANGED <<format, open, tracked, world, here>>
             PROVE  Follows'
  BY DEF Follows, Reader, ReadChunk, ReadSection, ReadUpdate, Confirm, server, others
<1> DEFINE m == Head(toClient)
<1>0. /\ toClient \in Seq(Msg) /\ here \in Dims
      /\ toClient # <<>> => m \in Msg /\ Tail(toClient) \in Seq(Msg)
      /\ LastFrom(toClient, here)
  BY TailOf DEF Types, Follows
<1>1. ASSUME toClient # <<>>, toClient' = Tail(toClient),
             \A p \in Positions : ledger'[p] = IF p \in DOMAIN m.states THEN m.states[p] ELSE ledger[p],
             m.kind = "chunk" \/ minSectionY' = minSectionY
      PROVE  Follows'
  <2>1. \A p \in Positions : Told(toClient, ledger[p], world[here][p], p)
                              => Told(toClient', ledger'[p], world[here][p], p)
    BY <1>0, <1>1, ToldTail
  <2>2. LastFrom(toClient', here)
    BY <1>0, <1>1, ColumnsTail
  <2>3. CASE \A p \in Positions : Told(toClient, ledger[p], world[here][p], p)
    BY <2>1, <2>2, <2>3 DEF Follows
  <2>4. CASE minSectionY # Origin[here] /\ NoColumn(toClient)
    <3>1. minSectionY' # Origin[here] /\ NoColumn(toClient')
      BY <1>0, <1>1, <2>4, ColumnsTail
    <3> QED
      BY <2>2, <3>1 DEF Follows
  <2> QED
    BY <2>3, <2>4 DEF Follows
<1>2. CASE ReadChunk
  <2>1. /\ m \in Msg /\ m.kind = "chunk" /\ m.from \in Dims /\ m.states \in [Positions -> Blocks]
        /\ toClient # <<>> /\ toClient' = Tail(toClient)
    BY <1>0, <1>2, Heard DEF ReadChunk
  <2>2. CASE minSectionY' = Origin[m.from]
    <3>1. Origin[m.from] # None
      BY <2>1, LedgerAssumption
    <3>2. ledger' = m.states
      BY <1>2, <2>2, <3>1 DEF ReadChunk
    <3>3. \A p \in Positions : ledger'[p] = IF p \in DOMAIN m.states THEN m.states[p] ELSE ledger[p]
      BY <2>1, <3>2
    <3> QED
      BY <1>1, <2>1, <3>3
  <2>3. CASE minSectionY' # Origin[m.from]
    <3>1. LastFrom(toClient', here)
      BY <1>0, <2>1, ColumnsTail
    <3>2. CASE NoColumn(toClient')
      <4>1. m.from = here
        BY <1>0, <2>1, <3>2, ColumnsTail
      <4> QED
        BY <2>3, <3>1, <3>2, <4>1 DEF Follows
    <3>3. CASE ~NoColumn(toClient')
      <4>1. PICK n \in 1 .. Len(Tail(toClient)) : Tail(toClient)[n].kind = "chunk"
        BY <2>1, <3>3 DEF NoColumn
      <4>2. Tail(toClient)[n] \in Msg
        BY <1>0, <2>1, ElementOfSeq
      <4>3. DOMAIN Tail(toClient)[n].states = Positions
        BY <4>1, <4>2, Heard
      <4>4. \A p \in Positions : Told(toClient, ledger[p], world[here][p], p)
        BY <1>0, <2>1, ColumnsTail DEF Follows
      <4>5. ASSUME NEW p \in Positions PROVE Told(Tail(toClient), ledger'[p], world[here][p], p)
        BY <1>0, <2>1, <4>3, <4>4, ToldLater
      <4> QED
        BY <2>1, <3>1, <4>5 DEF Follows
    <3> QED
      BY <3>2, <3>3
  <2> QED
    BY <2>2, <2>3
<1>3. CASE ReadSection \/ ReadUpdate
  <2>1. /\ toClient # <<>> /\ toClient' = Tail(toClient) /\ minSectionY' = minSectionY
        /\ ledger' = Learn(m.states)
    BY <1>3 DEF ReadSection, ReadUpdate
  <2>2. \A p \in Positions : ledger'[p] = IF p \in DOMAIN m.states THEN m.states[p] ELSE ledger[p]
    BY <2>1 DEF Learn
  <2> QED
    BY <1>1, <2>1, <2>2
<1>4. CASE Confirm
  BY <1>4 DEF Confirm, Follows
<1> QED
  BY <1>2, <1>3, <1>4 DEF Reader

\* The server tells of every change while it tracks the column, and sends the
\* column anew when it tracks it again.
LEMMA ServerFollows ==
  ASSUME Types, Follows, Server
  PROVE  Follows'
<1> SUFFICES ASSUME format = "read", open', tracked', UNCHANGED <<format, minSectionY, ledger>>
             PROVE  Follows'
  BY DEF Follows, Server, ServerReceives, OtherChange, Track, Untrack, Disconnect, server, others, client
<1>0. /\ toClient \in Seq(Msg) /\ world \in [Dims -> [Positions -> Blocks]] /\ here \in Dims
  BY DEF Types
<1>1. ASSUME UNCHANGED <<open, tracked, here>>, UNCHANGED <<world, toClient>>
      PROVE  Follows'
  BY <1>1 DEF Follows
<1>2. ASSUME UNCHANGED <<open, tracked, here>>, NEW m \in Msg, m.kind # "chunk", m.from = here,
             toClient' = Append(toClient, m),
             \A q \in Positions : world'[here][q] = IF q \in DOMAIN m.states THEN m.states[q]
                                                    ELSE world[here][q]
      PROVE  Follows'
  <2>1. LastFrom(toClient', here)
    BY <1>0, <1>2, ColumnsAppend DEF Follows
  <2>2. \A q \in Positions : Told(toClient, ledger[q], world[here][q], q)
                              => Told(toClient', ledger[q], world'[here][q], q)
    BY <1>0, <1>2, ToldAppend
  <2>3. NoColumn(toClient) => NoColumn(toClient')
    BY <1>0, <1>2, ColumnsAppend
  <2>4. CASE \A q \in Positions : Told(toClient, ledger[q], world[here][q], q)
    BY <1>2, <2>1, <2>2, <2>4 DEF Follows
  <2>5. CASE minSectionY # Origin[here] /\ NoColumn(toClient)
    BY <1>2, <2>1, <2>3, <2>5 DEF Follows
  <2> QED
    BY <1>2, <2>4, <2>5 DEF Follows
<1>3. ASSUME UNCHANGED <<open, tracked, here>>, NEW p \in Positions, NEW b \in Blocks, Change(p, b)
      PROVE  Follows'
  <2>1. \A q \in Positions : world'[here][q] = IF q = p THEN b ELSE world[here][q]
    BY <1>0, <1>3 DEF Change
  <2>2. PICK k \in {"update", "section"} : Tell(k, One(p, b))
    BY <1>3 DEF Change
  <2>3. PICK m \in Msg : /\ m.kind = k /\ m.states = One(p, b) /\ m.from = here
                         /\ toClient' = Append(toClient, m)
    BY <2>2, TellsOne
  <2>4. DOMAIN m.states = {p} /\ m.states[p] = b
    BY <2>3, OneOf
  <2> QED
    BY <1>2, <1>3, <2>1, <2>3, <2>4
<1>4. ASSUME UNCHANGED <<open, tracked, here>>, NEW p \in Positions, Refuse(p)
      PROVE  Follows'
  <2>1. CASE UNCHANGED toClient
    BY <1>1, <1>4, <2>1 DEF Refuse
  <2>2. CASE Tell("update", One(p, world[here][p]))
    <3>1. world[here][p] \in Blocks
      BY <1>0
    <3>2. PICK m \in Msg : /\ m.kind = "update" /\ m.states = One(p, world[here][p])
                           /\ m.from = here /\ toClient' = Append(toClient, m)
      BY <2>2, <3>1, TellsOne
    <3>3. DOMAIN m.states = {p} /\ m.states[p] = world[here][p]
      <4>1. m.states = One(p, world[here][p])
        BY <3>2
      <4> QED
        BY <4>1, OneOf
    <3> QED
      BY <1>2, <1>4, <3>2, <3>3 DEF Refuse
  <2> QED
    BY <1>4, <2>1, <2>2 DEF Refuse
<1>5. CASE ServerReceives
  <2> DEFINE m == Head(toServer)
  <2>0. m \in Event
    BY <1>5, TailOf DEF ServerReceives, Types
  <2>1. UNCHANGED <<open, tracked, here>> /\ m.at \in Positions
    BY <1>5, <2>0 DEF ServerReceives, Event
  <2>2. \/ UNCHANGED <<world, toClient>> \/ Refuse(m.at)
        \/ Change(m.at, "air") \/ Change(m.at, "stone")
    BY <1>5 DEF ServerReceives
  <2> QED
    BY <1>1, <1>3, <1>4, <2>1, <2>2 DEF Blocks
<1>6. CASE OtherChange
  BY <1>3, <1>6 DEF OtherChange
<1>7. CASE Track
  <2>1. PICK m \in Msg : /\ m.kind = "chunk" /\ m.states = world[here] /\ m.from = here
                         /\ toClient' = Append(toClient, m)
    BY <1>7, TellsColumn DEF Track
  <2>2. \A q \in Positions : q \in DOMAIN m.states /\ m.states[q] = world[here][q]
    BY <1>0, <2>1
  <2>3. \A q \in Positions : Told(toClient', ledger[q], world[here][q], q)
    BY <1>0, <2>1, <2>2, ToldAppend
  <2>4. LastFrom(toClient', here)
    BY <1>0, <2>1, ColumnsAppend
  <2> QED
    BY <1>7, <2>3, <2>4 DEF Track, Follows
<1>8. CASE Untrack \/ Disconnect
  BY <1>8 DEF Untrack, Disconnect
<1> QED
  BY <1>5, <1>6, <1>7, <1>8 DEF Server

LEMMA StepFollows == Types /\ Follows /\ [Next]_vars => Follows'
<1>1. Follows /\ (Dispatch \/ UNCHANGED vars) => Follows'
  BY DEF Follows, Dispatch, DigStart, DigAbort, Synthesise, DigFinish, NoteDig, AddPending, CountDig,
     PlaceBlock, NotePlace, NextPass, server, others, client, vars
<1> QED
  BY <1>1, ReaderFollows, ServerFollows DEF Next

(* Whatever changes, by whomever, however often the column goes out of view  *)
(* and whatever dimensions the player passes through: once it has read all   *)
(* it was sent, the client knows the blocks in view as they are or not at    *)
(* all, if the origin it kept from its first column is that of the dimension *)
(* it is in (blocks.go 76-82).                                               *)
THEOREM LedgerIsRight == Spec => []LedgerFollowsWorld
<1>1. Types /\ Follows => LedgerFollowsWorld
  <2> SUFFICES ASSUME Types, Follows, open, tracked, toClient = <<>>, format = "read",
                      minSectionY = Origin[here], NEW p \in Positions
               PROVE  ledger[p] \in {Unknown, world[here][p]}
    BY DEF LedgerFollowsWorld
  <2>1. Told(toClient, ledger[p], world[here][p], p)
    BY DEF Follows
  <2> QED
    BY <2>1 DEF Told
<1>2. Init => Types /\ Follows
  <2>1. Init => Follows
    BY DEF Init, Follows
  <2> QED
    BY <2>1, InitTypes
<1>3. Types /\ Follows /\ [Next]_vars => (Types /\ Follows)'
  BY StepTypes, StepFollows
<1> QED
  BY <1>1, <1>2, <1>3, PTL DEF Spec
-----------------------------------------------------------------------------
(* No false success: every confirmation is paid for.  What the client still *)
(* owes -- pending digs of blocks it does not believe to be there, and the  *)
(* falls from stone to air between what it believes, the messages under way *)
(* and the world -- is counted with what it has confirmed.                  *)

\* What is said of p, in its order: by the ledger, each message and the world.
Line(q, l, w, p) ==
  [k \in 0 .. Len(q) + 1 |->
     IF k = 0 THEN l[p] ELSE IF k = Len(q) + 1 THEN w[p]
     ELSE IF p \in DOMAIN q[k].states THEN q[k].states[p] ELSE Unknown]

\* It falls at j: a block before, air now.
Falls(v, j) ==
  v[j] = "air" /\ \E i \in 0 .. j - 1 : v[i] = "stone" /\ \A k \in i + 1 .. j - 1 : v[k] = Unknown

OwedFor(P, q, l, w) ==
  {x \in Positions \X (0 .. Len(q) + 1) :
     IF x[2] = 0 THEN x[1] \in P /\ l[x[1]] # "stone" ELSE Falls(Line(q, l, w, x[1]), x[2])}

\* Nothing more is read once the connection has closed.
Owed == {x \in OwedFor(digPending, toClient, ledger, world[here]) : open \/ x[2] = 0}

\* The dig whose note is not made yet, of a block not known to be there any more.
Noting == IF step = "pend" /\ ledger[Ev.at] # "stone" THEN 1 ELSE 0

\* What was confirmed and what is still owed have been paid for, and an update
\* being matched is believed already.
Honest ==
  /\ ~open => toClient = <<>>
  /\ reading # None => \A p \in DOMAIN reading : ledger[p] = reading[p]
  /\ breaks \in Nat /\ late \in Nat /\ misled \in Nat /\ IsFiniteSet(Owed)
  /\ count.confirmed + Cardinality(Owed) + Noting <= (breaks + misled) + count.unverifiable + late

\* The first message is read: what it says takes the place of what was believed.
LEMMA FallsRead ==
  ASSUME NEW n \in Nat \ {0}, NEW u, NEW v, \A k \in 1 .. n - 1 : u[k] = v[k + 1],
         u[0] = IF v[1] = Unknown THEN v[0] ELSE v[1],
         NEW j \in 1 .. n - 1, Falls(u, j)
  PROVE  Falls(v, j + 1)
<1>1. PICK i \in 0 .. j - 1 : u[i] = "stone" /\ \A k \in i + 1 .. j - 1 : u[k] = Unknown
  BY DEF Falls
<1>2. v[j + 1] = "air"
  BY DEF Falls
<1>3. \A k \in i + 2 .. j : v[k] = Unknown
  <2>1. ASSUME NEW k \in i + 2 .. j PROVE v[k] = Unknown
    <3>1. k - 1 \in i + 1 .. j - 1 /\ k - 1 \in 1 .. n - 1 /\ (k - 1) + 1 = k
      OBVIOUS
    <3> QED
      BY <1>1, <3>1
  <2> QED
    BY <2>1
<1>4. CASE i > 0 \/ v[1] # Unknown
  <2>1. v[i + 1] = "stone"
    BY <1>1, <1>4
  <2> QED
    BY <1>2, <1>3, <2>1 DEF Falls
<1>5. CASE i = 0 /\ v[1] = Unknown
  <2>1. v[0] = "stone" /\ \A k \in 1 .. j : v[k] = Unknown
    BY <1>1, <1>3, <1>5
  <2> QED
    BY <1>2, <2>1 DEF Falls
<1> QED
  BY <1>4, <1>5

\* The first message is passed over.
LEMMA FallsDrop ==
  ASSUME NEW n \in Nat \ {0}, NEW u, NEW v, \A k \in 1 .. n - 1 : u[k] = v[k + 1],
         u[0] = v[0], v[1] \in Blocks \cup {Unknown},
         NEW j \in 1 .. n - 1, Falls(u, j)
  PROVE  Falls(v, j + 1) \/ (Falls(v, 1) /\ \A k \in 1 .. j - 1 : u[k] = Unknown)
<1>1. PICK i \in 0 .. j - 1 : u[i] = "stone" /\ \A k \in i + 1 .. j - 1 : u[k] = Unknown
  BY DEF Falls
<1>2. v[j + 1] = "air"
  BY DEF Falls
<1>3. CASE i = 0 /\ v[1] = "air"
  <2>1. \A k \in 1 .. 0 : v[k] = Unknown
    OBVIOUS
  <2>2. Falls(v, 1)
    BY <1>1, <1>3, <2>1 DEF Falls
  <2> QED
    BY <1>1, <1>3, <2>2
<1>4. CASE i > 0 \/ v[1] # "air"
  <2>1. \A k \in i + 2 .. j : v[k] = Unknown
    <3>1. ASSUME NEW k \in i + 2 .. j PROVE v[k] = Unknown
      <4>1. k - 1 \in i + 1 .. j - 1 /\ k - 1 \in 1 .. n - 1 /\ (k - 1) + 1 = k
        OBVIOUS
      <4> QED
        BY <1>1, <4>1
    <3> QED
      BY <3>1
  <2>2. CASE i > 0 \/ v[1] = "stone"
    <3>1. v[i + 1] = "stone"
      BY <1>1, <2>2
    <3> QED
      BY <1>2, <2>1, <3>1 DEF Falls
  <2>3. CASE i = 0 /\ v[1] = Unknown
    <3>1. v[0] = "stone" /\ \A k \in 1 .. j : v[k] = Unknown
      BY <1>1, <2>1, <2>3
    <3> QED
      BY <1>2, <3>1 DEF Falls
  <2> QED
    BY <1>4, <2>2, <2>3 DEF Blocks
<1> QED
  BY <1>3, <1>4

\* What the world is at the end is said once more before it.
LEMMA FallsAppend ==
  ASSUME NEW n \in Nat \ {0}, NEW u, NEW v, \A k \in 0 .. n - 1 : u[k] = v[k],
         u[n] \in {Unknown, v[n]}, u[n + 1] = v[n], v[n] # Unknown,
         NEW j \in 1 .. n + 1, Falls(u, j)
  PROVE  \/ j < n /\ Falls(v, j)
         \/ j = n /\ Falls(v, n) /\ u[n] # Unknown
         \/ j = n + 1 /\ Falls(v, n) /\ u[n] = Unknown
<1>1. PICK i \in 0 .. j - 1 : u[i] = "stone" /\ \A k \in i + 1 .. j - 1 : u[k] = Unknown
  BY DEF Falls
<1>2. u[j] = "air" /\ "air" # Unknown
  BY LedgerAssumption DEF Falls, Blocks
<1>3. CASE j < n
  <2>1. v[j] = "air" /\ v[i] = "stone" /\ \A k \in i + 1 .. j - 1 : v[k] = Unknown
    BY <1>1, <1>2, <1>3
  <2> QED
    BY <1>3, <2>1 DEF Falls
<1>4. CASE j = n
  <2>1. v[n] = "air" /\ v[i] = "stone" /\ \A k \in i + 1 .. n - 1 : v[k] = Unknown
    BY <1>1, <1>2, <1>4
  <2> QED
    BY <1>2, <1>4, <2>1 DEF Falls
<1>5. CASE j = n + 1
  <2>1. v[n] = "air" /\ i # n /\ u[n] = Unknown
    <3>1. v[n] = "air" /\ i \in 0 .. n
      BY <1>2, <1>5
    <3>2. u[n] # "stone"
      BY <3>1, LedgerAssumption DEF Blocks
    <3>3. n \in i + 1 .. j - 1
      BY <1>1, <1>5, <3>1, <3>2
    <3> QED
      BY <1>1, <3>1, <3>2, <3>3
  <2>2. v[i] = "stone" /\ \A k \in i + 1 .. n - 1 : v[k] = Unknown
    BY <1>1, <1>5, <2>1
  <2> QED
    BY <1>5, <2>1, <2>2 DEF Falls
<1> QED
  BY <1>3, <1>4, <1>5

LEMMA Fewer ==
  ASSUME NEW S, NEW T, IsFiniteSet(T), NEW f \in [S -> T],
         \A x, y \in S : f[x] = f[y] => x = y
  PROVE  IsFiniteSet(S) /\ Cardinality(S) <= Cardinality(T)
<1>1. f \in Injection(S, T)
  BY DEF Injection, IsInjective
<1> QED
  BY <1>1, FS_Injection
\* The line of a block with one message less, or one more.
LEMMA LineOf ==
  ASSUME NEW q \in Seq(Msg), NEW l \in [Positions -> Blocks \cup {Unknown}],
         NEW w \in [Positions -> Blocks], NEW p \in Positions
  PROVE  /\ Len(q) \in Nat
         /\ Line(q, l, w, p)[0] = l[p] /\ Line(q, l, w, p)[Len(q) + 1] = w[p]
         /\ \A k \in 1 .. Len(q) :
              /\ Line(q, l, w, p)[k] = IF p \in DOMAIN q[k].states THEN q[k].states[p] ELSE Unknown
              /\ Line(q, l, w, p)[k] \in Blocks \cup {Unknown}
<1>1. Len(q) \in Nat /\ \A k \in 1 .. Len(q) : q[k] \in Msg
  BY LenProperties, ElementOfSeq
<1>2. \A k \in 1 .. Len(q) : p \in DOMAIN q[k].states => q[k].states[p] \in Blocks
  BY <1>1, Heard
<1> QED
  BY <1>1, <1>2 DEF Line

LEMMA LineTail ==
  ASSUME NEW q \in Seq(Msg), q # <<>>, NEW l \in [Positions -> Blocks \cup {Unknown}],
         NEW m \in [Positions -> Blocks \cup {Unknown}],
         NEW w \in [Positions -> Blocks], NEW p \in Positions
  PROVE  \A k \in 1 .. Len(q) : Line(Tail(q), m, w, p)[k] = Line(q, l, w, p)[k + 1]
<1>1. /\ Tail(q) \in Seq(Msg) /\ Len(q) \in Nat \ {0} /\ Len(Tail(q)) = Len(q) - 1
      /\ \A i \in 1 .. Len(q) - 1 : Tail(q)[i] = q[i + 1]
  BY TailOf
<1>2. /\ \A k \in 1 .. Len(q) - 1 : Line(Tail(q), m, w, p)[k] =
           IF p \in DOMAIN Tail(q)[k].states THEN Tail(q)[k].states[p] ELSE Unknown
      /\ Line(Tail(q), m, w, p)[Len(q)] = w[p]
  <2> DEFINE r == Tail(q)
             v == Line(r, m, w, p)
  <2>1. r \in Seq(Msg) /\ Len(r) + 1 = Len(q) /\ Len(r) = Len(q) - 1
    BY <1>1
  <2> HIDE DEF r
  <2>2. /\ \A k \in 1 .. Len(r) : v[k] =
             IF p \in DOMAIN r[k].states THEN r[k].states[p] ELSE Unknown
        /\ v[Len(r) + 1] = w[p]
    BY <2>1, LineOf
  <2> HIDE DEF v
  <2>3. /\ \A k \in 1 .. Len(q) - 1 : v[k] =
             IF p \in DOMAIN r[k].states THEN r[k].states[p] ELSE Unknown
        /\ v[Len(q)] = w[p]
    BY <2>1, <2>2
  <2> QED
    BY <2>3 DEF r, v
<1>3. /\ \A k \in 1 .. Len(q) : Line(q, l, w, p)[k] =
           IF p \in DOMAIN q[k].states THEN q[k].states[p] ELSE Unknown
      /\ Line(q, l, w, p)[Len(q) + 1] = w[p]
  BY LineOf
<1>4. ASSUME NEW k \in 1 .. Len(q)
      PROVE  Line(Tail(q), m, w, p)[k] = Line(q, l, w, p)[k + 1]
  <2>1. CASE k = Len(q)
    BY <1>2, <1>3, <2>1
  <2>2. CASE k < Len(q)
    <3>1. k \in 1 .. Len(q) - 1 /\ k + 1 \in 1 .. Len(q)
      BY <1>1, <2>2
    <3>2. Tail(q)[k] = q[k + 1]
      BY <1>1, <3>1
    <3> QED
      BY <1>2, <1>3, <3>1, <3>2
  <2>3. k = Len(q) \/ k < Len(q)
    <3>1. Len(q) \in Nat /\ k \in 1 .. Len(q)
      BY <1>1
    <3> QED
      BY <3>1
  <2> QED
    BY <2>1, <2>2, <2>3
<1> QED
  BY <1>4

\* A message that is read costs nothing: what fell with it is now pending, if it
\* was dug at all.
LEMMA OwedRead ==
  ASSUME NEW q \in Seq(Msg), q # <<>>, NEW l \in [Positions -> Blocks \cup {Unknown}],
         NEW m \in [Positions -> Blocks \cup {Unknown}], NEW w \in [Positions -> Blocks],
         NEW P \in SUBSET Positions,
         \A p \in Positions : m[p] = IF p \in DOMAIN Head(q).states THEN Head(q).states[p] ELSE l[p],
         IsFiniteSet(OwedFor(P, q, l, w))
  PROVE  /\ IsFiniteSet(OwedFor(P, Tail(q), m, w))
         /\ Cardinality(OwedFor(P, Tail(q), m, w)) <= Cardinality(OwedFor(P, q, l, w))
<1> DEFINE n == Len(q) + 1
           Old == OwedFor(P, q, l, w)
           New == OwedFor(P, Tail(q), m, w)
           f == [x \in New |-> IF x[2] # 0 THEN <<x[1], x[2] + 1>>
                               ELSE IF l[x[1]] # "stone" THEN x ELSE <<x[1], 1>>]
<1>1. /\ Tail(q) \in Seq(Msg) /\ Len(q) \in Nat \ {0} /\ Len(Tail(q)) = Len(q) - 1
      /\ Head(q) = q[1] /\ n \in Nat \ {0} /\ Len(Tail(q)) + 1 = n - 1 /\ n - 1 = Len(q)
  BY TailOf
<1>2. New = {x \in Positions \X (0 .. n - 1) :
               IF x[2] = 0 THEN x[1] \in P /\ m[x[1]] # "stone"
               ELSE Falls(Line(Tail(q), m, w, x[1]), x[2])}
  BY <1>1 DEF OwedFor
<1>3. Old = {x \in Positions \X (0 .. n) :
               IF x[2] = 0 THEN x[1] \in P /\ l[x[1]] # "stone"
               ELSE Falls(Line(q, l, w, x[1]), x[2])}
  BY DEF OwedFor
<1> HIDE DEF New, Old, n
<1>4. ASSUME NEW p \in Positions
      PROVE  /\ \A k \in 1 .. n - 1 : Line(Tail(q), m, w, p)[k] = Line(q, l, w, p)[k + 1]
             /\ Line(Tail(q), m, w, p)[0] = m[p] /\ Line(q, l, w, p)[0] = l[p]
             /\ m[p] = IF Line(q, l, w, p)[1] = Unknown THEN l[p] ELSE Line(q, l, w, p)[1]
  <2>1. Line(q, l, w, p)[1] = IF p \in DOMAIN q[1].states THEN q[1].states[p] ELSE Unknown
    BY <1>1, LineOf
  <2>2. p \in DOMAIN q[1].states => q[1].states[p] # Unknown
    <3>1. q[1] \in Msg
      BY <1>1, TailOf
    <3> QED
      BY <3>1, Heard, LedgerAssumption
  <2>3. \A k \in 1 .. n - 1 : Line(Tail(q), m, w, p)[k] = Line(q, l, w, p)[k + 1]
    BY <1>1, LineTail
  <2>4. Line(Tail(q), m, w, p)[0] = m[p] /\ Line(q, l, w, p)[0] = l[p]
    BY DEF Line
  <2> QED
    BY <1>1, <2>1, <2>2, <2>3, <2>4
<1>5. \A x \in New : x[2] # 0 => <<x[1], x[2] + 1>> \in Old
  <2>1. ASSUME NEW x \in New, x[2] # 0 PROVE <<x[1], x[2] + 1>> \in Old
    <3>1. /\ x[1] \in Positions /\ x[2] \in 1 .. n - 1
          /\ Falls(Line(Tail(q), m, w, x[1]), x[2])
      BY <1>1, <1>2, <2>1
    <3>2. Falls(Line(q, l, w, x[1]), x[2] + 1)
      <4> DEFINE u == Line(Tail(q), m, w, x[1])
                 v == Line(q, l, w, x[1])
      <4>1. /\ \A k \in 1 .. n - 1 : u[k] = v[k + 1]
            /\ u[0] = IF v[1] = Unknown THEN v[0] ELSE v[1]
        BY <1>4, <3>1
      <4>2. Falls(u, x[2])
        BY <3>1
      <4> HIDE DEF u, v
      <4>3. Falls(v, x[2] + 1)
        BY <1>1, <3>1, <4>1, <4>2, FallsRead
      <4> QED
        BY <4>3 DEF v
    <3>3. x[2] + 1 \in 0 .. n /\ x[2] + 1 # 0
      BY <1>1, <3>1
    <3> QED
      BY <1>3, <3>1, <3>2, <3>3
  <2> QED
    BY <2>1
<1>6. \A x \in New : x[2] = 0 => f[x] \in Old
  <2>1. ASSUME NEW x \in New, x[2] = 0 PROVE f[x] \in Old
    <3>1. x[1] \in P /\ x[1] \in Positions /\ m[x[1]] # "stone" /\ x = <<x[1], 0>>
      BY <1>2, <2>1
    <3>2. CASE l[x[1]] # "stone"
      <4>1. <<x[1], 0>> \in Old
        BY <1>1, <1>3, <3>1, <3>2
      <4> QED
        BY <2>1, <3>1, <3>2, <4>1
    <3>3. CASE l[x[1]] = "stone"
      <4>1. Line(q, l, w, x[1])[1] # Unknown /\ m[x[1]] = Line(q, l, w, x[1])[1]
        BY <1>4, <3>1, <3>3
      <4>2. Line(q, l, w, x[1])[1] \in Blocks
        BY <1>1, <3>1, <4>1, LineOf
      <4>3. Line(q, l, w, x[1])[1] = "air"
        BY <3>1, <4>1, <4>2 DEF Blocks
      <4>4. Line(q, l, w, x[1])[0] = "stone"
        BY <1>4, <3>1, <3>3
      <4>5. Falls(Line(q, l, w, x[1]), 1)
        <5>1. 0 \in 0 .. 1 - 1 /\ \A k \in 0 + 1 .. 1 - 1 : Line(q, l, w, x[1])[k] = Unknown
          OBVIOUS
        <5> QED
          BY <4>3, <4>4, <5>1 DEF Falls
      <4>6. <<x[1], 1>> \in Old
        BY <1>1, <1>3, <3>1, <4>5
      <4> QED
        BY <2>1, <3>3, <4>6
    <3> QED
      BY <3>2, <3>3
  <2> QED
    BY <2>1
<1>7. f \in [New -> Old]
  BY <1>5, <1>6
<1>8. \A x, y \in New : f[x] = f[y] => x = y
  <2>1. \A x \in New : x = <<x[1], x[2]>> /\ x[2] \in Nat
    BY <1>1, <1>2
  <2>2. \A x \in New : /\ f[x][1] = x[1]
                       /\ x[2] # 0 => f[x][2] = x[2] + 1
                       /\ x[2] = 0 => f[x][2] \in {0, 1}
    BY <2>1
  <2> HIDE DEF f
  <2> QED
    BY <2>1, <2>2
<1> HIDE DEF f
<1> QED
  BY <1>7, <1>8, Fewer DEF Old, New
\* A message that cannot be read costs nothing either.
LEMMA OwedDrop ==
  ASSUME NEW q \in Seq(Msg), q # <<>>, NEW l \in [Positions -> Blocks \cup {Unknown}],
         NEW w \in [Positions -> Blocks], NEW P \in SUBSET Positions,
         IsFiniteSet(OwedFor(P, q, l, w))
  PROVE  /\ IsFiniteSet(OwedFor(P, Tail(q), l, w))
         /\ Cardinality(OwedFor(P, Tail(q), l, w)) <= Cardinality(OwedFor(P, q, l, w))
<1> DEFINE n == Len(q) + 1
           Old == OwedFor(P, q, l, w)
           New == OwedFor(P, Tail(q), l, w)
           f == [x \in New |-> IF x[2] = 0 THEN x
                               ELSE IF <<x[1], x[2] + 1>> \in Old THEN <<x[1], x[2] + 1>>
                               ELSE <<x[1], 1>>]
<1>1. /\ Tail(q) \in Seq(Msg) /\ Len(q) \in Nat \ {0} /\ Len(Tail(q)) = Len(q) - 1
      /\ n \in Nat \ {0} /\ Len(Tail(q)) + 1 = n - 1 /\ n - 1 = Len(q)
  BY TailOf
<1>2. New = {x \in Positions \X (0 .. n - 1) :
               IF x[2] = 0 THEN x[1] \in P /\ l[x[1]] # "stone"
               ELSE Falls(Line(Tail(q), l, w, x[1]), x[2])}
  BY <1>1 DEF OwedFor
<1>3. Old = {x \in Positions \X (0 .. n) :
               IF x[2] = 0 THEN x[1] \in P /\ l[x[1]] # "stone"
               ELSE Falls(Line(q, l, w, x[1]), x[2])}
  BY DEF OwedFor
<1> HIDE DEF New, Old, n
<1>4. ASSUME NEW p \in Positions
      PROVE  /\ \A k \in 1 .. n - 1 : Line(Tail(q), l, w, p)[k] = Line(q, l, w, p)[k + 1]
             /\ Line(Tail(q), l, w, p)[0] = Line(q, l, w, p)[0]
             /\ Line(q, l, w, p)[1] \in Blocks \cup {Unknown}
  <2>1. \A k \in 1 .. n - 1 : Line(Tail(q), l, w, p)[k] = Line(q, l, w, p)[k + 1]
    BY <1>1, LineTail
  <2>2. Line(Tail(q), l, w, p)[0] = Line(q, l, w, p)[0]
    BY DEF Line
  <2>3. Line(q, l, w, p)[1] \in Blocks \cup {Unknown}
    BY <1>1, LineOf
  <2> QED
    BY <2>1, <2>2, <2>3
\* What falls now fell one message later, or with the first message, and then
\* nothing was said since.
<1>5. ASSUME NEW x \in New, x[2] # 0, <<x[1], x[2] + 1>> \notin Old
      PROVE  <<x[1], 1>> \in Old /\ \A k \in 1 .. x[2] - 1 : Line(Tail(q), l, w, x[1])[k] = Unknown
  <2> DEFINE u == Line(Tail(q), l, w, x[1])
             v == Line(q, l, w, x[1])
  <2>1. /\ x[1] \in Positions /\ x[2] \in 1 .. n - 1 /\ Falls(u, x[2])
    BY <1>1, <1>2, <1>5
  <2>2. /\ \A k \in 1 .. n - 1 : u[k] = v[k + 1]
        /\ u[0] = v[0] /\ v[1] \in Blocks \cup {Unknown}
    BY <1>4, <2>1
  <2>3. ~Falls(v, x[2] + 1)
    <3>1. x[2] + 1 \in 0 .. n /\ x[2] + 1 # 0
      BY <1>1, <2>1
    <3> QED
      BY <1>3, <1>5, <2>1, <3>1
  <2> HIDE DEF u, v
  <2>4. Falls(v, 1) /\ \A k \in 1 .. x[2] - 1 : u[k] = Unknown
    <3> DEFINE j == x[2]
    <3>1. j \in 1 .. n - 1 /\ Falls(u, j) /\ ~Falls(v, j + 1)
      BY <2>1, <2>3
    <3> HIDE DEF j
    <3>2. Falls(v, j + 1) \/ (Falls(v, 1) /\ \A k \in 1 .. j - 1 : u[k] = Unknown)
      <4>1. /\ n \in Nat \ {0} /\ v[1] \in Blocks \cup {Unknown} /\ u[0] = v[0]
            /\ \A k \in 1 .. n - 1 : u[k] = v[k + 1]
        BY <1>1, <2>2
      <4>2. j \in 1 .. n - 1 /\ Falls(u, j)
        BY <3>1
      <4> QED
        BY ZenonT(60), <4>1, <4>2, FallsDrop
    <3>3. Falls(v, 1) /\ \A k \in 1 .. j - 1 : u[k] = Unknown
      BY <3>1, <3>2
    <3> QED
      BY <3>3 DEF j
  <2>5. <<x[1], 1>> \in Old
    BY <1>1, <1>3, <2>1, <2>4 DEF v
  <2> QED
    BY <2>4, <2>5 DEF u
<1>6. f \in [New -> Old]
  <2>1. ASSUME NEW x \in New PROVE f[x] \in Old
    <3>1. CASE x[2] = 0
      <4>1. x[1] \in P /\ l[x[1]] # "stone" /\ x \in Positions \X (0 .. n)
        BY <1>1, <1>2, <3>1
      <4>2. x \in Old
        BY <1>3, <3>1, <4>1
      <4> QED
        BY <3>1, <4>2
    <3>2. CASE x[2] # 0
      BY <1>5, <3>2
    <3> QED
      BY <3>1, <3>2
  <2> QED
    BY <2>1
<1>7. \A x \in New : /\ x = <<x[1], x[2]>> /\ x[1] \in Positions /\ x[2] \in Nat /\ x[2] <= n - 1
                     /\ x[2] # 0 => Line(Tail(q), l, w, x[1])[x[2]] = "air"
                     /\ f[x][1] = x[1]
                     /\ x[2] = 0 => f[x][2] = 0
                     /\ x[2] # 0 => f[x][2] = x[2] + 1 \/ (f[x][2] = 1 /\ <<x[1], x[2] + 1>> \notin Old)
  BY <1>1, <1>2 DEF Falls
<1>8. \A x, y \in New : f[x] = f[y] => x = y
  <2> HIDE DEF f
  <2>1. ASSUME NEW x \in New, NEW y \in New, f[x] = f[y], x[2] < y[2]
        PROVE  FALSE
    <3>a. /\ x[2] \in Nat /\ y[2] \in Nat /\ f[x][1] = x[1] /\ f[y][1] = y[1]
          /\ x[2] = 0 => f[x][2] = 0
          /\ x[2] # 0 => f[x][2] = x[2] + 1 \/ f[x][2] = 1
          /\ y[2] = 0 => f[y][2] = 0
          /\ y[2] # 0 => f[y][2] = y[2] + 1 \/ (f[y][2] = 1 /\ <<y[1], y[2] + 1>> \notin Old)
      BY <1>7
    <3>b. x[1] = y[1] /\ f[x][2] = f[y][2]
      BY <2>1, <3>a
    <3>1. x[1] = y[1] /\ x[2] # 0 /\ f[y][2] = 1 /\ <<y[1], y[2] + 1>> \notin Old
      BY <2>1, <3>a, <3>b
    <3>2. x[2] \in 1 .. y[2] - 1
      BY <2>1, <3>a, <3>1
    <3>3. y[2] # 0
      BY <2>1, <3>a
    <3>4. Line(Tail(q), l, w, y[1])[x[2]] = Unknown
      BY <1>5, <3>1, <3>2, <3>3
    <3> QED
      BY <1>7, <3>1, <3>4, LedgerAssumption DEF Blocks
  <2>2. ASSUME NEW x \in New, NEW y \in New, f[x] = f[y] PROVE x = y
    <3>1. /\ x[2] \in Nat /\ y[2] \in Nat /\ x[1] = f[x][1] /\ y[1] = f[y][1]
          /\ x = <<x[1], x[2]>> /\ y = <<y[1], y[2]>>
      BY <1>7
    <3>2. ~(x[2] < y[2]) /\ ~(y[2] < x[2])
      BY <2>1, <2>2
    <3>3. x[1] = y[1] /\ x[2] = y[2]
      BY <2>2, <3>1, <3>2
    <3> QED
      BY <3>1, <3>3
  <2> QED
    BY <2>2
<1> HIDE DEF f
<1> QED
  BY <1>6, <1>8, Fewer DEF Old, New

\* To tell what is so costs nothing.
LEMMA OwedAppend ==
  ASSUME NEW q \in Seq(Msg), NEW m \in Msg, NEW l \in [Positions -> Blocks \cup {Unknown}],
         NEW w \in [Positions -> Blocks], NEW P \in SUBSET Positions,
         \A p \in DOMAIN m.states : m.states[p] = w[p],
         IsFiniteSet(OwedFor(P, q, l, w))
  PROVE  /\ IsFiniteSet(OwedFor(P, Append(q, m), l, w))
         /\ Cardinality(OwedFor(P, Append(q, m), l, w)) <= Cardinality(OwedFor(P, q, l, w))
<1> DEFINE n == Len(q) + 1
           r == Append(q, m)
           Old == OwedFor(P, q, l, w)
           New == OwedFor(P, r, l, w)
           f == [x \in New |-> IF x[2] = n + 1 THEN <<x[1], n>> ELSE x]
<1>1. /\ r \in Seq(Msg) /\ Len(q) \in Nat /\ Len(r) = Len(q) + 1 /\ r[Len(q) + 1] = m
      /\ n \in Nat \ {0} /\ Len(r) + 1 = n + 1 /\ Len(r) = n
      /\ \A i \in 1 .. Len(q) : r[i] = q[i]
  BY AppendOf
<1> HIDE DEF r
<1>2. New = {x \in Positions \X (0 .. n + 1) :
               IF x[2] = 0 THEN x[1] \in P /\ l[x[1]] # "stone"
               ELSE Falls(Line(r, l, w, x[1]), x[2])}
  BY <1>1 DEF OwedFor
<1>3. Old = {x \in Positions \X (0 .. n) :
               IF x[2] = 0 THEN x[1] \in P /\ l[x[1]] # "stone"
               ELSE Falls(Line(q, l, w, x[1]), x[2])}
  BY DEF OwedFor
<1>4. ASSUME NEW p \in Positions
      PROVE  /\ \A k \in 0 .. n - 1 : Line(r, l, w, p)[k] = Line(q, l, w, p)[k]
             /\ Line(r, l, w, p)[n] \in {Unknown, Line(q, l, w, p)[n]}
             /\ Line(r, l, w, p)[n + 1] = Line(q, l, w, p)[n]
             /\ Line(q, l, w, p)[n] # Unknown
  <2> DEFINE u == Line(r, l, w, p)
             v == Line(q, l, w, p)
  <2>1. /\ \A k \in 1 .. Len(r) : u[k] = IF p \in DOMAIN r[k].states THEN r[k].states[p] ELSE Unknown
        /\ u[0] = l[p] /\ u[Len(r) + 1] = w[p]
    BY <1>1, LineOf
  <2>2. /\ \A k \in 1 .. Len(q) : v[k] = IF p \in DOMAIN q[k].states THEN q[k].states[p] ELSE Unknown
        /\ v[0] = l[p] /\ v[Len(q) + 1] = w[p]
    BY LineOf
  <2>3. w[p] # Unknown
    BY LedgerAssumption
  <2> HIDE DEF u, v
  <2>4. \A k \in 1 .. Len(q) : u[k] = v[k]
    BY <1>1, <2>1, <2>2
  <2>5. u[n] = IF p \in DOMAIN m.states THEN w[p] ELSE Unknown
    BY <1>1, <2>1
  <2>6. \A k \in 0 .. n - 1 : u[k] = v[k]
    <3>1. \A k \in 0 .. n - 1 : k = 0 \/ k \in 1 .. Len(q)
      BY <1>1
    <3> QED
      BY <2>1, <2>2, <2>4, <3>1
  <2>7. u[n + 1] = w[p] /\ v[n] = w[p]
    BY <1>1, <2>1, <2>2
  <2>8. /\ \A k \in 0 .. n - 1 : u[k] = v[k]
        /\ u[n] \in {Unknown, v[n]} /\ u[n + 1] = v[n] /\ v[n] # Unknown
    BY <2>3, <2>5, <2>6, <2>7
  <2> QED
    BY <2>8 DEF u, v
<1> HIDE DEF New, Old, n
<1>5. ASSUME NEW x \in New, x[2] # 0
      PROVE  \/ x[2] < n /\ x \in Old
             \/ x[2] = n /\ x \in Old /\ Line(r, l, w, x[1])[n] # Unknown
             \/ x[2] = n + 1 /\ <<x[1], n>> \in Old /\ Line(r, l, w, x[1])[n] = Unknown
  <2> DEFINE u == Line(r, l, w, x[1])
             v == Line(q, l, w, x[1])
  <2>1. /\ x[1] \in Positions /\ x[2] \in 1 .. n + 1 /\ Falls(u, x[2]) /\ x = <<x[1], x[2]>>
    BY <1>1, <1>2, <1>5
  <2>2. /\ \A k \in 0 .. n - 1 : u[k] = v[k]
        /\ u[n] \in {Unknown, v[n]} /\ u[n + 1] = v[n] /\ v[n] # Unknown
    BY <1>4, <2>1
  <2>3. \A j \in 1 .. n : Falls(v, j) => <<x[1], j>> \in Old
    BY <1>1, <1>3, <2>1
  <2> HIDE DEF u, v
  <2>4. \/ x[2] < n /\ Falls(v, x[2])
        \/ x[2] = n /\ Falls(v, n) /\ u[n] # Unknown
        \/ x[2] = n + 1 /\ Falls(v, n) /\ u[n] = Unknown
    BY <1>1, <2>1, <2>2, FallsAppend
  <2>5. n \in 1 .. n /\ (x[2] < n => x[2] \in 1 .. n)
    BY <1>1, <2>1
  <2>6. \/ x[2] < n /\ x \in Old
        \/ x[2] = n /\ x \in Old /\ u[n] # Unknown
        \/ x[2] = n + 1 /\ <<x[1], n>> \in Old /\ u[n] = Unknown
    BY <2>1, <2>3, <2>4, <2>5
  <2> QED
    BY <2>6 DEF u
<1>6. \A x \in New : x[2] = 0 => x \in Old /\ x[2] # n + 1
  BY <1>1, <1>2, <1>3
<1>7. f \in [New -> Old]
  <2>1. n # n + 1
    BY <1>1
  <2>2. \A x \in New : x[2] < n => x[2] # n + 1
    BY <1>1, <1>2
  <2> QED
    BY <1>5, <1>6, <2>1, <2>2
<1>8. \A x \in New : /\ x = <<x[1], x[2]>> /\ x[2] \in Nat
                     /\ f[x] = IF x[2] = n + 1 THEN <<x[1], n>> ELSE <<x[1], x[2]>>
                     /\ x[2] = n => Line(r, l, w, x[1])[n] # Unknown
                     /\ x[2] = n + 1 => Line(r, l, w, x[1])[n] = Unknown
  <2>1. \A x \in New : x = <<x[1], x[2]>> /\ x[2] \in Nat
    BY <1>1, <1>2
  <2>2. n # 0 /\ n + 1 # 0 /\ n # n + 1 /\ ~(n < n) /\ ~(n + 1 < n)
    BY <1>1
  <2> QED
    BY <1>5, <2>1, <2>2
<1>9. \A x, y \in New : f[x] = f[y] => x = y
  <2> HIDE DEF f
  <2>1. ASSUME NEW x \in New, NEW y \in New, f[x] = f[y] PROVE x = y
    <3>1. /\ x = <<x[1], x[2]>> /\ y = <<y[1], y[2]>>
          /\ f[x] = IF x[2] = n + 1 THEN <<x[1], n>> ELSE <<x[1], x[2]>>
          /\ f[y] = IF y[2] = n + 1 THEN <<y[1], n>> ELSE <<y[1], y[2]>>
      BY <1>8
    <3>2. x[1] = y[1]
      <4>1. f[x][1] = x[1] /\ f[y][1] = y[1]
        BY <3>1
      <4> QED
        BY <2>1, <4>1
    <3>3. CASE x[2] = n + 1 /\ y[2] # n + 1
      <4>1. y[2] = n
        <5>1. f[x][2] = n /\ f[y][2] = y[2]
          BY <3>1, <3>3
        <5> QED
          BY <2>1, <5>1
      <4> QED
        BY <1>8, <3>2, <3>3, <4>1
    <3>4. CASE x[2] # n + 1 /\ y[2] = n + 1
      <4>1. x[2] = n
        <5>1. f[y][2] = n /\ f[x][2] = x[2]
          BY <3>1, <3>4
        <5> QED
          BY <2>1, <5>1
      <4> QED
        BY <1>8, <3>2, <3>4, <4>1
    <3>5. CASE x[2] # n + 1 /\ y[2] # n + 1
      BY <2>1, <3>1, <3>2, <3>5
    <3>6. CASE x[2] = n + 1 /\ y[2] = n + 1
      BY <3>1, <3>2, <3>6
    <3> QED
      BY <3>3, <3>4, <3>5, <3>6
  <2> QED
    BY <2>1
<1> HIDE DEF f
<1> QED
  BY <1>7, <1>9, Fewer DEF Old, New, r
\* What is owed grows by no more than one for each position in G, if all that is
\* new of it is at those positions and at most one at each.
LEMMA Grows ==
  ASSUME NEW Old, IsFiniteSet(Old), NEW New, NEW G, IsFiniteSet(G),
         \A x \in New : x \in Old \/ x[1] \in G,
         \A x, y \in New \ Old : x[1] = y[1] => x = y
  PROVE  IsFiniteSet(New) /\ Cardinality(New) <= Cardinality(Old) + Cardinality(G)
<1> DEFINE Added == New \ Old
           f == [x \in Added |-> x[1]]
<1>1. f \in [Added -> G] /\ \A x, y \in Added : f[x] = f[y] => x = y
  OBVIOUS
<1>2. IsFiniteSet(Added) /\ Cardinality(Added) <= Cardinality(G)
  <2> HIDE DEF Added, f
  <2> QED
    BY <1>1, Fewer
<1>3. New \in SUBSET (Old \cup Added)
  OBVIOUS
<1> HIDE DEF Added
<1>4. /\ IsFiniteSet(Old \cup Added)
      /\ Cardinality(Old \cup Added) =
           Cardinality(Old) + Cardinality(Added) - Cardinality(Old \cap Added)
  BY <1>2, FS_Union
<1>5. IsFiniteSet(New) /\ Cardinality(New) <= Cardinality(Old \cup Added)
  BY <1>3, <1>4, FS_Subset
<1>6. /\ Cardinality(Old) \in Nat /\ Cardinality(Added) \in Nat /\ Cardinality(G) \in Nat
      /\ Cardinality(New) \in Nat /\ Cardinality(Old \cap Added) \in Nat
  BY <1>2, <1>5, FS_Intersection, FS_CardinalityType
<1> QED
  BY <1>2, <1>4, <1>5, <1>6

\* Another world costs what is air in it and was not in the one before.
Lost(w, v) == {p \in Positions : w[p] # "air" /\ v[p] = "air"}

LEMMA OwedWorld ==
  ASSUME NEW q \in Seq(Msg), NEW l \in [Positions -> Blocks \cup {Unknown}],
         NEW w \in [Positions -> Blocks], NEW v \in [Positions -> Blocks],
         NEW P \in SUBSET Positions, IsFiniteSet(OwedFor(P, q, l, w))
  PROVE  /\ IsFiniteSet(OwedFor(P, q, l, v)) /\ IsFiniteSet(Lost(w, v))
         /\ Cardinality(OwedFor(P, q, l, v)) <=
              Cardinality(OwedFor(P, q, l, w)) + Cardinality(Lost(w, v))
<1> DEFINE n == Len(q) + 1
           Old == OwedFor(P, q, l, w)
           New == OwedFor(P, q, l, v)
           G == Lost(w, v)
<1>1. Len(q) \in Nat /\ n \in Nat \ {0}
  BY LenProperties
<1>2. ASSUME NEW x \in New, x \notin Old
      PROVE  x = <<x[1], n>> /\ x[1] \in G
  <2>1. x \in Positions \X (0 .. n) /\ x = <<x[1], x[2]>> /\ x[1] \in Positions /\ x[2] \in 0 .. n
    BY DEF OwedFor
  <2>2. x[2] # 0
    BY <1>2, <2>1 DEF OwedFor
  <2> DEFINE u == Line(q, l, v, x[1])
             s == Line(q, l, w, x[1])
  <2>3. Falls(u, x[2]) /\ ~Falls(s, x[2])
    BY <1>2, <2>1, <2>2 DEF OwedFor
  <2>4. \A k \in 0 .. n - 1 : u[k] = s[k]
    BY <1>1 DEF Line
  <2>5. u[n] = v[x[1]] /\ s[n] = w[x[1]]
    BY <1>1 DEF Line
  <2> HIDE DEF u, s
  <2>6. PICK i \in 0 .. x[2] - 1 : u[i] = "stone" /\ \A k \in i + 1 .. x[2] - 1 : u[k] = Unknown
    BY <2>3 DEF Falls
  <2>7. s[i] = "stone" /\ \A k \in i + 1 .. x[2] - 1 : s[k] = Unknown
    BY <1>1, <2>1, <2>4, <2>6
  <2>8. u[x[2]] = "air" /\ s[x[2]] # "air"
    BY <2>3, <2>7 DEF Falls
  <2>9. x[2] = n
    BY <1>1, <2>1, <2>4, <2>8
  <2> QED
    BY <2>1, <2>5, <2>8, <2>9 DEF Lost
<1>3. IsFiniteSet(G)
  <2>1. G \in SUBSET Positions
    BY DEF Lost
  <2> QED
    BY <2>1, LedgerAssumption, FS_Subset
<1>4. \A x \in New : x \in Old \/ x[1] \in G
  BY <1>2
<1>5. ASSUME NEW x \in New, NEW y \in New, x \notin Old, y \notin Old, x[1] = y[1]
      PROVE  x = y
  BY <1>2, <1>5
<1> HIDE DEF Old, New, G
<1>6. IsFiniteSet(Old)
  BY DEF Old
<1>7. IsFiniteSet(New) /\ Cardinality(New) <= Cardinality(Old) + Cardinality(G)
  BY <1>3, <1>4, <1>5, <1>6, Grows
<1> QED
  BY <1>3, <1>7 DEF Old, New, G

\* Another belief costs no more than what it changed.
Changed(l, m) == {p \in Positions : m[p] # l[p]}

LEMMA OwedBelief ==
  ASSUME NEW q \in Seq(Msg), NEW l \in [Positions -> Blocks \cup {Unknown}],
         NEW m \in [Positions -> Blocks \cup {Unknown}], NEW w \in [Positions -> Blocks],
         NEW P \in SUBSET Positions, IsFiniteSet(OwedFor(P, q, l, w))
  PROVE  /\ IsFiniteSet(OwedFor(P, q, m, w)) /\ IsFiniteSet(Changed(l, m))
         /\ Cardinality(OwedFor(P, q, m, w)) <=
              Cardinality(OwedFor(P, q, l, w)) + Cardinality(Changed(l, m))
<1> DEFINE n == Len(q) + 1
           Old == OwedFor(P, q, l, w)
           New == OwedFor(P, q, m, w)
           G == Changed(l, m)
<1>1. Len(q) \in Nat /\ n \in Nat \ {0}
  BY LenProperties
<1>2. ASSUME NEW x \in New, x \notin Old
      PROVE  /\ x = <<x[1], x[2]>> /\ x[1] \in G /\ x[2] \in 0 .. n
             /\ x[2] # 0 => /\ m[x[1]] = "stone" /\ Line(q, m, w, x[1])[x[2]] = "air"
                            /\ \A k \in 1 .. x[2] - 1 : Line(q, m, w, x[1])[k] = Unknown
             /\ x[2] = 0 => m[x[1]] # "stone"
  <2>1. x \in Positions \X (0 .. n) /\ x = <<x[1], x[2]>> /\ x[1] \in Positions /\ x[2] \in 0 .. n
    BY DEF OwedFor
  <2>2. CASE x[2] = 0
    <3>1. x[1] \in P /\ m[x[1]] # "stone" /\ l[x[1]] = "stone"
      BY <1>2, <2>1, <2>2 DEF OwedFor
    <3> QED
      BY <2>1, <2>2, <3>1 DEF Changed
  <2>3. CASE x[2] # 0
    <3> DEFINE u == Line(q, m, w, x[1])
               s == Line(q, l, w, x[1])
    <3>1. Falls(u, x[2]) /\ ~Falls(s, x[2])
      BY <1>2, <2>1, <2>3 DEF OwedFor
    <3>2. \A k \in 1 .. n : u[k] = s[k]
      BY <1>1 DEF Line
    <3>3. u[0] = m[x[1]] /\ s[0] = l[x[1]]
      BY DEF Line
    <3> HIDE DEF u, s
    <3>4. PICK i \in 0 .. x[2] - 1 : u[i] = "stone" /\ \A k \in i + 1 .. x[2] - 1 : u[k] = Unknown
      BY <3>1 DEF Falls
    <3>5. u[x[2]] = "air" /\ s[x[2]] = "air"
      BY <2>1, <2>3, <3>1, <3>2 DEF Falls
    <3>6. \A k \in i + 1 .. x[2] - 1 : s[k] = Unknown
      BY <1>1, <2>1, <3>2, <3>4
    <3>7. s[i] # "stone"
      BY <3>1, <3>5, <3>6 DEF Falls
    <3>8. i = 0
      BY <1>1, <2>1, <3>2, <3>4, <3>7
    <3>9. m[x[1]] = "stone" /\ l[x[1]] # "stone"
      BY <3>3, <3>4, <3>7, <3>8
    <3> QED
      BY <2>1, <2>3, <3>4, <3>5, <3>8, <3>9 DEF Changed, u
  <2> QED
    BY <2>2, <2>3
<1>3. IsFiniteSet(G)
  <2>1. G \in SUBSET Positions
    BY DEF Changed
  <2> QED
    BY <2>1, LedgerAssumption, FS_Subset
<1>4. \A x \in New : x \in Old \/ x[1] \in G
  BY <1>2
<1> HIDE DEF Old, New, G, n
<1>5. ASSUME NEW x \in New, NEW y \in New, x \notin Old, y \notin Old, x[1] = y[1], x[2] # 0
      PROVE  x[2] <= y[2]
  <2>1. y[2] # 0
    BY <1>2, <1>5
  <2> DEFINE u == Line(q, m, w, x[1])
  <2>2. u[y[2]] = "air" /\ \A k \in 1 .. x[2] - 1 : u[k] = Unknown
    BY <1>2, <1>5, <2>1
  <2>3. "air" # Unknown
    BY LedgerAssumption DEF Blocks
  <2> HIDE DEF u
  <2>4. x[2] \in 0 .. n /\ y[2] \in 0 .. n
    BY <1>2, <1>5
  <2> QED
    BY <1>1, <2>1, <2>2, <2>3, <2>4
<1>6. ASSUME NEW x \in New, NEW y \in New, x \notin Old, y \notin Old, x[1] = y[1]
      PROVE  x = y
  <2>1. x[2] \in 0 .. n /\ y[2] \in 0 .. n /\ x = <<x[1], x[2]>> /\ y = <<y[1], y[2]>>
    BY <1>2, <1>6
  <2>2. x[2] = 0 <=> y[2] = 0
    BY <1>2, <1>6
  <2>3. x[2] # 0 => x[2] <= y[2] /\ y[2] <= x[2]
    BY <1>5, <1>6, <2>2
  <2>4. x[2] = y[2]
    BY <1>1, <2>1, <2>2, <2>3
  <2> QED
    BY <1>6, <2>1, <2>4
<1> QED
  BY <1>3, <1>4, <1>6, Grows DEF Old, New, G

\* What Types says of the counters and the world, and what is owed.
LEMMA OwedFacts ==
  ASSUME Types, Honest
  PROVE  /\ count.confirmed \in Nat /\ count.unverifiable \in Nat /\ count \in [Counter -> Nat]
         /\ Cardinality(Owed) \in Nat /\ IsFiniteSet(Owed)
         /\ breaks \in Nat /\ late \in Nat /\ misled \in Nat /\ Noting \in {0, 1}
         /\ toClient \in Seq(Msg) /\ ledger \in [Positions -> Blocks \cup {Unknown}]
         /\ here \in Dims /\ world \in [Dims -> [Positions -> Blocks]]
         /\ world[here] \in [Positions -> Blocks] /\ digPending \in SUBSET Positions
         /\ step = "pend" => Ev.at \in Positions
         /\ open => Owed = OwedFor(digPending, toClient, ledger, world[here])
<1>1. count.confirmed \in Nat /\ count.unverifiable \in Nat /\ count \in [Counter -> Nat]
  BY DEF Types, Counter
<1>2. Cardinality(Owed) \in Nat
  BY FS_CardinalityType DEF Honest
<1>3. step = "pend" => Ev.at \in Positions
  BY Events DEF Types
<1>4. open => Owed = OwedFor(digPending, toClient, ledger, world[here])
  BY DEF Owed, OwedFor
<1> QED
  BY <1>1, <1>2, <1>3, <1>4 DEF Types, Honest, Noting

\* The dispatcher notes a dig of what it does not know, or one the ledger then
\* finds gone; a note it makes adds to what is owed no more than that.
LEMMA DispatchHonest ==
  ASSUME Types, Honest, Dispatch
  PROVE  Honest'
<1>0. /\ count.confirmed \in Nat /\ count.unverifiable \in Nat /\ count \in [Counter -> Nat]
      /\ Cardinality(Owed) \in Nat /\ IsFiniteSet(Owed)
      /\ breaks \in Nat /\ late \in Nat /\ misled \in Nat /\ Noting \in {0, 1}
      /\ ledger \in [Positions -> Blocks \cup {Unknown}]
      /\ step = "pend" => Ev.at \in Positions
  BY OwedFacts
<1>1. /\ UNCHANGED <<open, toClient, ledger, world, here, reading, breaks, late, misled>>
  BY DEF Dispatch, DigStart, DigAbort, Synthesise, DigFinish, NoteDig, AddPending, CountDig,
     PlaceBlock, NotePlace, NextPass, server, others
<1>2. \A c \in Counter \ {"unverifiable", "confirmed"} :
        count' = Bump(c) => /\ count'.unverifiable = count.unverifiable
                            /\ count'.confirmed = count.confirmed
  BY Bumps DEF Counter
<1>3. digPending' = digPending => Owed' = Owed
  BY <1>1 DEF Owed
<1>4. ASSUME DigStart \/ DigAbort \/ Synthesise \/ DigFinish \/ CountDig \/ PlaceBlock
             \/ NotePlace \/ NextPass
      PROVE  Honest'
  <2>1. digPending' = digPending /\ step # "pend" /\ step' # "pend"
    BY <1>4 DEF DigStart, DigAbort, Synthesise, DigFinish, CountDig, PlaceBlock, NotePlace, NextPass,
       ToNextEvent
  <2>2. count'.unverifiable = count.unverifiable /\ count'.confirmed = count.confirmed
    BY <1>2, <1>4 DEF DigStart, DigAbort, Synthesise, DigFinish, CountDig, PlaceBlock, NotePlace,
       NextPass, Counter
  <2>3. Noting = 0 /\ Noting' = 0
    BY <2>1 DEF Noting
  <2> QED
    BY <1>0, <1>1, <1>3, <2>1, <2>2, <2>3 DEF Honest
<1>5. CASE NoteDig
  <2>2. Noting = 0 /\ Owed' = Owed
    BY <1>3, <1>5 DEF NoteDig, Noting
  <2>3. CASE ledger[Ev.at] = "air"
    <3>1. count' = Bump("intoAir") /\ step' = "next"
      BY <1>5, <2>3 DEF NoteDig, ToNextEvent
    <3>2. count'.unverifiable = count.unverifiable /\ count'.confirmed = count.confirmed
      BY <1>2, <3>1 DEF Counter
    <3>3. Noting' = 0
      BY <3>1 DEF Noting
    <3> QED
      BY <1>0, <1>1, <2>2, <3>2, <3>3 DEF Honest
  <2>4. CASE ledger[Ev.at] # "air" /\ ledger[Ev.at] = Unknown
    <3>1. count' = Bump("unverifiable")
      BY <1>5, <2>4 DEF NoteDig
    <3>2. count'.unverifiable = count.unverifiable + 1 /\ count'.confirmed = count.confirmed
      BY <3>1, Bumps DEF Counter
    <3>3. Noting' \in {0, 1}
      BY DEF Noting
    <3> QED
      BY <1>0, <1>1, <2>2, <3>2, <3>3 DEF Honest
  <2>5. CASE ledger[Ev.at] # "air" /\ ledger[Ev.at] # Unknown
    <3>1. count' = count /\ Ev' = Ev /\ idx' = idx /\ trace' = trace
      BY <1>5, <2>5 DEF NoteDig, Ev
    <3>2. Ev.at \in Positions
      BY <1>5, Events DEF NoteDig, Types
    <3>3. ledger[Ev.at] = "stone"
      BY <1>0, <2>5, <3>2 DEF Blocks
    <3>4. Noting' = 0
      BY <1>1, <3>1, <3>3 DEF Noting
    <3> QED
      BY <1>0, <1>1, <2>2, <3>1, <3>4 DEF Honest
  <2> QED
    BY <2>3, <2>4, <2>5
<1>6. CASE AddPending
  <2>1. /\ step = "pend" /\ step' = "sent" /\ digPending' = digPending \cup {Ev.at} /\ count' = count
        /\ Ev.at \in Positions
    BY <1>0, <1>6 DEF AddPending
  <2>2. Noting' = 0
    BY <2>1 DEF Noting
  <2>3. CASE ledger[Ev.at] = "stone"
    <3>1. Owed' = Owed
      BY <1>1, <2>1, <2>3 DEF Owed, OwedFor
    <3> QED
      BY <1>0, <1>1, <2>1, <2>2, <3>1 DEF Honest
  <2>4. CASE ledger[Ev.at] # "stone"
    <3>1. Owed' \in SUBSET (Owed \cup {<<Ev.at, 0>>})
      BY <1>1, <2>1, <2>4 DEF Owed, OwedFor
    <3>2. /\ IsFiniteSet(Owed \cup {<<Ev.at, 0>>})
          /\ Cardinality(Owed \cup {<<Ev.at, 0>>}) <= Cardinality(Owed) + 1
          /\ Cardinality(Owed \cup {<<Ev.at, 0>>}) \in Nat
      BY <1>0, Adding, FS_CardinalityType
    <3>3. /\ IsFiniteSet(Owed') /\ Cardinality(Owed') <= Cardinality(Owed \cup {<<Ev.at, 0>>})
          /\ Cardinality(Owed') \in Nat
      BY <3>1, <3>2, FS_Subset, FS_CardinalityType
    <3>4. Noting = 1
      BY <2>1, <2>4 DEF Noting
    <3> QED
      BY <1>0, <1>1, <2>1, <2>2, <3>2, <3>3, <3>4 DEF Honest
  <2> QED
    BY <2>3, <2>4
<1> QED
  BY <1>4, <1>5, <1>6 DEF Dispatch
\* How the two sides of the balance may move: what is owed falls while what is
\* noted and what came late move together, or grows no faster than the breaks.
LEMMA Balance ==
  ASSUME NEW c \in Nat, NEW u \in Nat, NEW o \in Nat, NEW p \in Nat, NEW n \in Nat,
         NEW n2 \in Nat, NEW b \in Nat, NEW b2 \in Nat, NEW l \in Nat, NEW l2 \in Nat,
         c + o + n <= b + u + l, p + b <= o + b2, n2 + l <= n + l2
  PROVE  c + p + n2 <= b2 + u + l2
OBVIOUS

\* A message is read: nothing new is owed but what is late.  It may be passed over
\* instead, and the client be misled by what it believes then.
LEMMA HeardHonest ==
  ASSUME Types, Honest, toClient # <<>>, toClient' = Tail(toClient),
         UNCHANGED <<trace, idx, step, digPending, world, here, open, breaks>>,
         count'.confirmed = count.confirmed, count'.unverifiable = count.unverifiable,
         ledger' \in [Positions -> Blocks \cup {Unknown}], CountLate,
         \/ /\ misled' = misled
            /\ \A p \in Positions : ledger'[p] = IF p \in DOMAIN Head(toClient).states
                                                 THEN Head(toClient).states[p] ELSE ledger[p]
         \/ /\ misled' = misled + Cardinality(Changed(ledger, ledger'))
            /\ \A p \in Positions : ledger'[p] # ledger[p] => ledger'[p] \in Blocks,
         reading' # None => \A p \in DOMAIN reading' : ledger'[p] = reading'[p]
  PROVE  Honest'
<1>0. /\ count.confirmed \in Nat /\ count.unverifiable \in Nat
      /\ Cardinality(Owed) \in Nat /\ IsFiniteSet(Owed)
      /\ breaks \in Nat /\ late \in Nat /\ misled \in Nat /\ Noting \in {0, 1}
      /\ toClient \in Seq(Msg) /\ ledger \in [Positions -> Blocks \cup {Unknown}]
      /\ world[here] \in [Positions -> Blocks] /\ digPending \in SUBSET Positions
      /\ step = "pend" => Ev.at \in Positions
      /\ open /\ Owed = OwedFor(digPending, toClient, ledger, world[here])
  <2>1. open
    BY DEF Honest
  <2> QED
    BY <2>1, OwedFacts
<1>1. Owed' = OwedFor(digPending, Tail(toClient), ledger', world[here])
  BY <1>0 DEF Owed, OwedFor
<1>2. /\ IsFiniteSet(Owed') /\ Cardinality(Owed') \in Nat /\ misled' \in Nat
      /\ Cardinality(Owed') + misled <= Cardinality(Owed) + misled'
  <2>1. CASE /\ misled' = misled + Cardinality(Changed(ledger, ledger'))
             /\ \A p \in Positions : ledger'[p] # ledger[p] => ledger'[p] \in Blocks
    <3> DEFINE Mid == OwedFor(digPending, Tail(toClient), ledger, world[here])
               G == Changed(ledger, ledger')
    <3>1. IsFiniteSet(Mid) /\ Cardinality(Mid) <= Cardinality(Owed)
      BY <1>0, OwedDrop
    <3>2. Tail(toClient) \in Seq(Msg)
      BY <1>0, TailOf
    <3>3. /\ IsFiniteSet(Owed') /\ IsFiniteSet(G)
          /\ Cardinality(Owed') <= Cardinality(Mid) + Cardinality(G)
      BY <1>0, <1>1, <3>1, <3>2, OwedBelief
    <3> HIDE DEF Mid, G
    <3>4. Cardinality(Mid) \in Nat /\ Cardinality(G) \in Nat /\ Cardinality(Owed') \in Nat
      BY <3>1, <3>3, FS_CardinalityType
    <3>5. misled' = misled + Cardinality(G)
      BY <2>1 DEF G
    <3> QED
      BY <1>0, <3>1, <3>3, <3>4, <3>5
  <2>2. CASE /\ misled' = misled
             /\ \A p \in Positions : ledger'[p] = IF p \in DOMAIN Head(toClient).states
                                                  THEN Head(toClient).states[p] ELSE ledger[p]
    <3>1. IsFiniteSet(Owed') /\ Cardinality(Owed') <= Cardinality(Owed)
      BY <1>0, <1>1, <2>2, OwedRead
    <3>2. Cardinality(Owed') \in Nat
      BY <3>1, FS_CardinalityType
    <3> QED
      BY <1>0, <2>2, <3>1, <3>2
  <2> QED
    BY <2>1, <2>2
<1>3. late' \in Nat /\ Noting' \in {0, 1} /\ Noting' + late <= Noting + late'
  <2>1. Ev' = Ev
    BY DEF Ev
  <2>2. late' = late + IF step = "pend" /\ ledger[Ev.at] # "air" /\ ledger'[Ev.at] = "air"
                       THEN 1 ELSE 0
    BY DEF CountLate
  <2>3. late' \in Nat /\ late' >= late
    BY <1>0, <2>2
  <2>0. Noting' \in {0, 1}
    BY DEF Noting
  <2>4. CASE Noting' = 0 \/ Noting = 1
    <3>1. \A n, m \in {0, 1}, l, k \in Nat : k >= l /\ (m = 0 \/ n = 1) => m + l <= n + k
      OBVIOUS
    <3>2. Noting \in {0, 1} /\ late \in Nat
      BY <1>0
    <3> QED
      BY <2>0, <2>3, <2>4, <3>1, <3>2, Zenon
  <2>5. CASE Noting' # 0 /\ Noting # 1
    <3>1. step = "pend" /\ ledger[Ev.at] = "stone" /\ ledger'[Ev.at] # "stone" /\ Ev.at \in Positions
      BY <1>0, <2>1, <2>5 DEF Noting
    <3>2. ledger'[Ev.at] = "air"
      <4>1. Head(toClient) \in Msg
        BY <1>0, TailOf
      <4> QED
        BY <3>1, <4>1, Heard DEF Blocks
    <3>3. late' = late + 1
      BY <2>2, <3>1, <3>2
    <3> QED
      <4>1. Noting' = 1 /\ Noting = 0
        BY <1>0, <2>0, <2>5
      <4>2. late \in Nat /\ late' \in Nat /\ Noting' \in {0, 1}
        BY <1>0, <2>0, <2>3
      <4>3. Noting' + late = Noting + late'
        BY <3>3, <4>1, <4>2
      <4> QED
        BY <4>2, <4>3
  <2> QED
    BY <2>4, <2>5
<1>4. count.confirmed + Cardinality(Owed) + Noting <= (breaks + misled) + count.unverifiable + late
  BY DEF Honest
<1>5. count'.confirmed + Cardinality(Owed') + Noting' <=
        (breaks' + misled') + count'.unverifiable + late'
  <2>1. count'.confirmed = count.confirmed /\ count'.unverifiable = count.unverifiable /\ breaks' = breaks
    OBVIOUS
  <2>2. Noting \in Nat /\ Noting' \in Nat /\ Noting' + late <= Noting + late'
    <3>1. Noting \in Nat
      BY <1>0
    <3>2. Noting' \in {0, 1} /\ Noting' + late <= Noting + late'
      BY <1>3
    <3>3. Noting' \in Nat
      BY <3>2
    <3> QED
      BY <3>1, <3>2, <3>3
  <2>3. Cardinality(Owed') + (breaks + misled) <= Cardinality(Owed) + (breaks + misled')
    BY <1>0, <1>2
  <2>4. count.confirmed + Cardinality(Owed') + Noting' <=
          (breaks + misled') + count.unverifiable + late'
    <3>1. /\ late' \in Nat /\ Cardinality(Owed') \in Nat
          /\ breaks + misled \in Nat /\ breaks + misled' \in Nat
      <4>1. \A i, j \in Nat : i + j \in Nat
        OBVIOUS
      <4> QED
        BY <1>0, <1>2, <1>3, <4>1
    <3> QED
      BY <1>0, <1>4, <2>2, <2>3, <3>1, Balance
  <2> QED
    BY <2>1, <2>4
<1>6. open' /\ breaks' \in Nat
  BY <1>0
<1> QED
  BY <1>2, <1>3, <1>5, <1>6 DEF Honest

\* The reader pays for what it confirms, and for what it misreads.
LEMMA ReaderHonest ==
  ASSUME Types, Types', Honest, Reader
  PROVE  Honest'
<1>0. /\ toClient \in Seq(Msg) /\ ledger' \in [Positions -> Blocks \cup {Unknown}]
      /\ toClient # <<>> => Head(toClient) \in Msg
      /\ ledger \in [Positions -> Blocks \cup {Unknown}] /\ misled \in Nat
  BY TailOf DEF Types, Honest
<1>1. CASE ReadChunk
  <2> DEFINE m == Head(toClient)
  <2>1. /\ m.states \in [Positions -> Blocks] /\ toClient # <<>> /\ toClient' = Tail(toClient)
        /\ reading' = None /\ CountLate
        /\ UNCHANGED <<trace, idx, step, digPending, world, here, open, breaks>>
    BY <1>0, <1>1, Heard DEF ReadChunk, others
  <2>2. count'.confirmed = count.confirmed /\ count'.unverifiable = count.unverifiable
    <3>1. count' = Bump("unparsed") \/ count' = count
      BY <1>1 DEF ReadChunk
    <3> QED
      BY <3>1, Bumps DEF Counter
  <2>3. \/ ledger' = ledger /\ misled' = misled
        \/ ledger' = m.states /\ misled' = misled
        \/ /\ misled' = misled + Cardinality(Changed(ledger, ledger'))
           /\ \A p \in Positions : ledger'[p] # ledger[p] => ledger'[p] \in Blocks
    BY <1>1 DEF ReadChunk, Changed
  <2>4. CASE ledger' = ledger /\ misled' = misled
    <3>1. Changed(ledger, ledger') = {}
      BY <2>4 DEF Changed
    <3>2. misled' = misled + Cardinality(Changed(ledger, ledger'))
      BY <1>0, <2>4, <3>1, FS_EmptySet
    <3> QED
      BY <1>0, <2>1, <2>2, <2>4, <3>2, HeardHonest
  <2>5. CASE ledger' = m.states /\ misled' = misled
    <3>1. \A p \in Positions : ledger'[p] = IF p \in DOMAIN m.states THEN m.states[p] ELSE ledger[p]
      BY <2>1, <2>5
    <3> QED
      BY <1>0, <2>1, <2>2, <2>5, <3>1, HeardHonest
  <2>6. CASE /\ misled' = misled + Cardinality(Changed(ledger, ledger'))
             /\ \A p \in Positions : ledger'[p] # ledger[p] => ledger'[p] \in Blocks
    BY <1>0, <2>1, <2>2, <2>6, HeardHonest
  <2> QED
    BY <2>3, <2>4, <2>5, <2>6
<1>2. CASE ReadSection
  <2>1. \A p \in Positions : ledger'[p] = IF p \in DOMAIN Head(toClient).states
                                          THEN Head(toClient).states[p] ELSE ledger[p]
    BY <1>2 DEF ReadSection, Learn
  <2> QED
    BY <1>0, <1>2, <2>1, HeardHonest DEF ReadSection, server, others
<1>3. CASE ReadUpdate
  <2>1. /\ reading' = Head(toClient).states /\ toClient # <<>>
        /\ \A p \in Positions : ledger'[p] = IF p \in DOMAIN Head(toClient).states
                                             THEN Head(toClient).states[p] ELSE ledger[p]
    BY <1>3 DEF ReadUpdate, Learn
  <2>2. \A p \in DOMAIN reading' : ledger'[p] = reading'[p]
    BY <1>0, <2>1, Heard
  <2> QED
    BY <1>0, <1>3, <2>1, <2>2, HeardHonest DEF ReadUpdate, server, others
<1>4. CASE Confirm
  <2>0. /\ count.confirmed \in Nat /\ count.unverifiable \in Nat /\ count \in [Counter -> Nat]
        /\ Cardinality(Owed) \in Nat /\ IsFiniteSet(Owed)
        /\ breaks \in Nat /\ late \in Nat /\ misled \in Nat /\ Noting \in {0, 1}
    BY OwedFacts
  <2>1. PICK p \in Positions, b \in Blocks : reading = One(p, b)
    BY <1>4 DEF Confirm, Types
  <2>2. (CHOOSE q \in DOMAIN reading : TRUE) = p /\ reading[p] = b /\ p \in DOMAIN reading
    BY <2>1, OneOf
  <2>3. /\ UNCHANGED <<trace, idx, step, ledger, late, toClient, open, world, here, breaks, misled>>
        /\ reading' = None
    BY <1>4 DEF Confirm, server, others
  <2>4. Noting' = Noting
    BY <2>3 DEF Noting, Ev
  <2>5. CASE b = "air" /\ p \in digPending
    <3>1. digPending' = digPending \ {p} /\ count' = Bump("confirmed")
      BY <1>4, <2>2, <2>5 DEF Confirm
    <3>2. count'.confirmed = count.confirmed + 1 /\ count'.unverifiable = count.unverifiable
      BY <3>1, Bumps DEF Counter
    <3>3. ledger[p] = "air"
      BY <1>4, <2>2, <2>5 DEF Honest, Confirm
    <3>4. <<p, 0>> \in Owed
      <4>1. 0 \in 0 .. Len(toClient) + 1
        BY <1>0, LenProperties
      <4> QED
        BY <2>5, <3>3, <4>1 DEF Owed, OwedFor
    <3>5. Owed' \in SUBSET (Owed \ {<<p, 0>>})
      BY <2>3, <3>1 DEF Owed, OwedFor
    <3>6. /\ IsFiniteSet(Owed \ {<<p, 0>>})
          /\ Cardinality(Owed \ {<<p, 0>>}) = Cardinality(Owed) - 1
      BY <2>0, <3>4, FS_RemoveElement
    <3>7. IsFiniteSet(Owed') /\ Cardinality(Owed') <= Cardinality(Owed \ {<<p, 0>>})
      BY <3>5, <3>6, FS_Subset
    <3>8. Cardinality(Owed') \in Nat
      BY <3>7, FS_CardinalityType
    <3> QED
      BY <2>0, <2>3, <2>4, <3>2, <3>6, <3>7, <3>8, SMTT(30) DEF Honest
  <2>6. CASE ~(b = "air" /\ p \in digPending)
    <3>1. digPending' = digPending /\ (count' = Bump("placesConfirmed") \/ count' = count)
      BY <1>4, <2>2, <2>6 DEF Confirm
    <3>2. count'.confirmed = count.confirmed /\ count'.unverifiable = count.unverifiable
      BY <3>1, Bumps DEF Counter
    <3>3. Owed' = Owed
      BY <2>3, <3>1 DEF Owed
    <3> QED
      BY <2>3, <2>4, <3>2, <3>3 DEF Honest
  <2> QED
    BY <2>5, <2>6
<1> QED
  BY <1>1, <1>2, <1>3, <1>4 DEF Reader
\* The server: a block that goes is a break, one left behind where the dimension
\* entered has air misleads, and nothing else it does adds to what is owed.
LEMMA ServerHonest ==
  ASSUME Types, Honest, Server
  PROVE  Honest'
<1>0. /\ count.confirmed \in Nat /\ count.unverifiable \in Nat
      /\ Cardinality(Owed) \in Nat /\ IsFiniteSet(Owed)
      /\ breaks \in Nat /\ late \in Nat /\ misled \in Nat /\ Noting \in {0, 1}
      /\ toClient \in Seq(Msg) /\ ledger \in [Positions -> Blocks \cup {Unknown}]
      /\ here \in Dims /\ world \in [Dims -> [Positions -> Blocks]]
      /\ world[here] \in [Positions -> Blocks] /\ digPending \in SUBSET Positions
  BY OwedFacts
<1>a. open /\ Owed = OwedFor(digPending, toClient, ledger, world[here])
  <2>1. open
    BY DEF Server, ServerReceives, OtherChange, Track, Untrack, Disconnect
  <2> QED
    BY <2>1, OwedFacts
<1>b. /\ UNCHANGED <<count, late, reading, ledger, digPending, step, idx, trace>>
      /\ Noting' = Noting
  <2>1. UNCHANGED <<count, late, reading, ledger, digPending, step, idx, trace>>
    BY DEF Server, ServerReceives, OtherChange, Track, Untrack, Disconnect, client
  <2> QED
    BY <2>1 DEF Noting, Ev
<1>1. ASSUME IsFiniteSet(Owed'), breaks' \in Nat, misled' \in Nat, ~open' => toClient' = <<>>,
             Cardinality(Owed') + (breaks + misled) <= Cardinality(Owed) + (breaks' + misled')
      PROVE  Honest'
  <2>1. Cardinality(Owed') \in Nat
    BY <1>1, FS_CardinalityType
  <2>2. count.confirmed + Cardinality(Owed) + Noting <=
          (breaks + misled) + count.unverifiable + late
    BY DEF Honest
  <2>3. count.confirmed + Cardinality(Owed') + Noting <=
          (breaks' + misled') + count.unverifiable + late
    <3>1. Noting \in Nat /\ breaks + misled \in Nat /\ breaks' + misled' \in Nat
      <4>1. \A i, j \in Nat : i + j \in Nat
        OBVIOUS
      <4>2. breaks \in Nat /\ misled \in Nat /\ Noting \in Nat
        BY <1>0
      <4> QED
        BY <1>1, <4>1, <4>2
    <3>2. Noting + late <= Noting + late
      BY <1>0
    <3> QED
      BY <1>0, <1>1, <2>1, <2>2, <3>1, <3>2, Balance
  <2> QED
    BY <1>1, <1>b, <2>3 DEF Honest
<1>2. ASSUME open', here' = here
      PROVE  Owed' = OwedFor(digPending, toClient', ledger, world'[here])
  BY <1>2, <1>b DEF Owed, OwedFor
<1>3. ASSUME UNCHANGED <<open, world, here, breaks, misled, toClient>>
      PROVE  Honest'
  <2>1. Owed' = Owed
    BY <1>3, <1>b DEF Owed
  <2> QED
    BY <1>0, <1>1, <1>3, <1>a, <2>1
<1>4. ASSUME UNCHANGED <<open, world, here, breaks, misled>>, NEW m \in Msg, toClient' = Append(toClient, m),
             \A p \in DOMAIN m.states : m.states[p] = world[here][p]
      PROVE  Honest'
  <2>1. Owed' = OwedFor(digPending, Append(toClient, m), ledger, world[here])
    BY <1>2, <1>4, <1>a
  <2>2. IsFiniteSet(Owed') /\ Cardinality(Owed') <= Cardinality(Owed)
    BY <1>0, <1>4, <1>a, <2>1, OwedAppend
  <2>3. Cardinality(Owed') \in Nat
    BY <2>2, FS_CardinalityType
  <2> QED
    BY <1>0, <1>1, <1>4, <1>a, <2>2, <2>3
<1>5. ASSUME UNCHANGED <<open, here, misled>>, NEW p \in Positions, Refuse(p)
      PROVE  Honest'
  <2>1. CASE UNCHANGED toClient
    BY <1>3, <1>5, <2>1 DEF Refuse
  <2>2. CASE Tell("update", One(p, world[here][p]))
    <3>1. world[here][p] \in Blocks
      BY <1>0
    <3>2. PICK m \in Msg : m.states = One(p, world[here][p]) /\ toClient' = Append(toClient, m)
      BY <2>2, <3>1, TellsOne
    <3>3. DOMAIN m.states = {p} /\ m.states[p] = world[here][p]
      BY <3>2, OneOf
    <3> QED
      BY <1>4, <1>5, <3>2, <3>3 DEF Refuse
  <2> QED
    BY <1>5, <2>1, <2>2 DEF Refuse
<1>6. ASSUME UNCHANGED <<open, here, misled>>, NEW p \in Positions, NEW b \in Blocks, Change(p, b)
      PROVE  Honest'
  <2> DEFINE w == world[here]
             v == [w EXCEPT ![p] = b]
             cost == IF b = "air" /\ w[p] # "air" THEN 1 ELSE 0
             Mid == OwedFor(digPending, toClient, ledger, v)
  <2>1. world'[here] = v /\ v \in [Positions -> Blocks] /\ v[p] = b
    BY <1>0, <1>6 DEF Change
  <2>2. breaks' = breaks + cost
    BY <1>6 DEF Change
  <2>3. cost \in {0, 1}
    OBVIOUS
  <2>4. IsFiniteSet(Mid) /\ Cardinality(Mid) <= Cardinality(Owed) + cost
    <3>1. /\ IsFiniteSet(Mid)
          /\ Cardinality(Mid) <= Cardinality(Owed) + Cardinality(Lost(w, v))
      <4>1. v \in [Positions -> Blocks]
        BY <2>1
      <4> HIDE DEF v
      <4> QED
        BY <1>0, <1>a, <4>1, OwedWorld
    <3>2. Lost(w, v) = IF b = "air" /\ w[p] # "air" THEN {p} ELSE {}
      BY <1>0 DEF Lost
    <3>3. Cardinality(Lost(w, v)) = cost
      <4> HIDE DEF v
      <4> QED
        BY <3>2, FS_EmptySet, FS_Singleton
    <3> QED
      BY <3>1, <3>3
  <2> HIDE DEF cost
  <2>5. Cardinality(Mid) \in Nat
    BY <2>4, FS_CardinalityType
  <2>6. Owed' = OwedFor(digPending, toClient', ledger, v)
    BY <1>2, <1>6, <1>a, <2>1
  <2>7. IsFiniteSet(Owed') /\ Cardinality(Owed') <= Cardinality(Mid)
    <3>1. CASE tracked
      <4>1. PICK m \in Msg : m.states = One(p, b) /\ toClient' = Append(toClient, m)
        BY <1>6, <3>1, TellsOne DEF Change
      <4>2. \A q \in DOMAIN m.states : m.states[q] = v[q]
        <5>1. DOMAIN m.states = {p} /\ m.states[p] = b
          BY <4>1, OneOf
        <5> HIDE DEF v
        <5> QED
          BY <2>1, <5>1
      <4> HIDE DEF v
      <4> QED
        BY <1>0, <2>1, <2>4, <2>6, <4>1, <4>2, OwedAppend
    <3>2. CASE ~tracked
      <4>1. toClient' = toClient
        BY <1>6, <3>2 DEF Change
      <4>2. Owed' = Mid
        BY <2>6, <4>1
      <4> QED
        BY <2>4, <2>5, <4>2
    <3> QED
      BY <3>1, <3>2
  <2>8. Cardinality(Owed') \in Nat
    BY <2>7, FS_CardinalityType
  <2> HIDE DEF Mid
  <2>9. /\ Cardinality(Owed') + (breaks + misled) <= Cardinality(Owed) + (breaks' + misled')
        /\ breaks' \in Nat /\ misled' \in Nat
    BY <1>0, <1>6, <2>2, <2>3, <2>4, <2>5, <2>7, <2>8
  <2> QED
    BY <1>1, <1>6, <1>a, <2>7, <2>9
<1>7. CASE ServerReceives
  <2> DEFINE m == Head(toServer)
  <2>0. m \in Event
    BY <1>7, TailOf DEF ServerReceives, Types
  <2>1. UNCHANGED <<open, here, misled>> /\ m.at \in Positions
    BY <1>7, <2>0 DEF ServerReceives, Event
  <2>2. \/ UNCHANGED <<world, breaks, toClient>> \/ Refuse(m.at)
        \/ Change(m.at, "air") \/ Change(m.at, "stone")
    BY <1>7 DEF ServerReceives
  <2> QED
    BY <1>3, <1>5, <1>6, <2>1, <2>2 DEF Blocks
<1>8. CASE OtherChange
  BY <1>6, <1>8 DEF OtherChange
<1>9. CASE Track
  <2>1. PICK m \in Msg : m.states = world[here] /\ toClient' = Append(toClient, m)
    BY <1>9, TellsColumn DEF Track
  <2>2. \A p \in DOMAIN m.states : m.states[p] = world[here][p]
    BY <2>1
  <2> QED
    BY <1>4, <1>9, <2>1, <2>2 DEF Track
<1>10. CASE Untrack
  <2> DEFINE w == world[here]
             v == world[here']
  <2>1. /\ v \in [Positions -> Blocks] /\ UNCHANGED <<world, toClient, breaks, open>>
        /\ misled' = misled + Cardinality(Lost(w, v))
    BY <1>0, <1>10 DEF Untrack, Lost
  <2>2. Owed' = OwedFor(digPending, toClient, ledger, v)
    BY <1>a, <1>b, <2>1 DEF Owed, OwedFor
  <2>3. w \in [Positions -> Blocks] /\ Owed = OwedFor(digPending, toClient, ledger, w)
    BY <1>0, <1>a
  <2> HIDE DEF w, v
  <2>4. /\ IsFiniteSet(Owed') /\ IsFiniteSet(Lost(w, v))
        /\ Cardinality(Owed') <= Cardinality(Owed) + Cardinality(Lost(w, v))
    BY <1>0, <2>1, <2>2, <2>3, OwedWorld
  <2>5. Cardinality(Owed') \in Nat /\ Cardinality(Lost(w, v)) \in Nat
    BY <2>4, FS_CardinalityType
  <2>6. /\ Cardinality(Owed') + (breaks + misled) <= Cardinality(Owed) + (breaks' + misled')
        /\ breaks' \in Nat /\ misled' \in Nat
    BY <1>0, <2>1, <2>4, <2>5
  <2> QED
    BY <1>1, <1>a, <2>1, <2>4, <2>6
<1>11. CASE Disconnect
  <2>1. ~open' /\ toClient' = <<>> /\ UNCHANGED <<breaks, misled, world, here>>
    BY <1>11 DEF Disconnect, server, others
  <2>2. Owed' \in SUBSET Owed
    <3>1. ASSUME NEW x \in Owed' PROVE x \in Owed
      <4>1. x \in Positions \X {0} /\ x[2] = 0 /\ x[1] \in digPending /\ ledger[x[1]] # "stone"
        BY <1>b, <2>1, <3>1 DEF Owed, OwedFor
      <4>2. 0 \in 0 .. Len(toClient) + 1
        BY <1>0, LenProperties
      <4> QED
        BY <4>1, <4>2 DEF Owed, OwedFor
    <3> QED
      BY <3>1
  <2>3. IsFiniteSet(Owed') /\ Cardinality(Owed') <= Cardinality(Owed)
    BY <1>0, <2>2, FS_Subset
  <2>4. Cardinality(Owed') \in Nat
    BY <2>3, FS_CardinalityType
  <2> QED
    BY <1>0, <1>1, <2>1, <2>3, <2>4
<1> QED
  BY <1>7, <1>8, <1>9, <1>10, <1>11 DEF Server

LEMMA StepHonest == Types /\ Types' /\ Honest /\ [Next]_vars => Honest'
<1> SUFFICES ASSUME Types, Types', Honest, [Next]_vars PROVE Honest'
  OBVIOUS
<1>1. CASE UNCHANGED vars
  <2>1. /\ Owed' = Owed /\ Noting' = Noting
        /\ UNCHANGED <<count, open, toClient, reading, ledger, breaks, late, misled>>
    BY <1>1 DEF vars, client, server, others, Owed, Noting, Ev
  <2> QED
    BY <2>1 DEF Honest
<1> QED
  BY <1>1, DispatchHonest, ReaderHonest, ServerHonest DEF Next

LEMMA InitHonest == Init => Honest
<1> SUFFICES ASSUME Init PROVE Honest
  OBVIOUS
<1>1. /\ toClient = <<>> /\ open = TRUE /\ reading = None /\ breaks = 0
      /\ misled = 0 /\ late = 0 /\ count.confirmed = 0 /\ count.unverifiable = 0 /\ step = "next"
      /\ digPending = {} /\ ledger = [p \in Positions |-> Unknown]
  BY DEF Init, Zero
<1>2. Owed = {}
  <2>1. ASSUME NEW x \in Owed PROVE FALSE
    <3>1. Len(toClient) + 1 = 1
      BY <1>1, EmptySeq
    <3>2. /\ x[1] \in Positions /\ x[2] \in 0 .. 1 /\ x[2] # 0
          /\ Falls(Line(toClient, ledger, world[here], x[1]), x[2])
      BY <1>1, <3>1 DEF Owed, OwedFor
    <3>3. Line(toClient, ledger, world[here], x[1])[0] = "stone"
      BY <3>2 DEF Falls
    <3>4. Line(toClient, ledger, world[here], x[1])[0] = Unknown
      BY <1>1, <3>1, <3>2 DEF Line
    <3> QED
      BY <3>3, <3>4, LedgerAssumption DEF Blocks
  <2> QED
    BY <2>1
<1>3. IsFiniteSet(Owed) /\ Cardinality(Owed) = 0 /\ Noting = 0
  BY <1>1, <1>2, FS_EmptySet DEF Noting
<1> QED
  BY <1>1, <1>3 DEF Honest

(* "air where we dug" is no false success: whoever changes the world, however *)
(* often the column goes out of view or cannot be read, whatever dimensions   *)
(* of whatever heights the player passes through and wherever the connection  *)
(* closes, every dig confirmed stands for a block that broke, a dig counted   *)
(* as unverifiable, one noted late (session.go 342-344) or a block the client *)
(* was misled about, and for no other dig.                                    *)
THEOREM NoSuccessIsFalse == Spec => []NoFalseSuccess
<1>1. Types /\ Honest => NoFalseSuccess
  <2> SUFFICES ASSUME Types, Honest PROVE NoFalseSuccess
    OBVIOUS
  <2>1. /\ count.confirmed \in Nat /\ count.unverifiable \in Nat /\ Cardinality(Owed) \in Nat
        /\ breaks \in Nat /\ late \in Nat /\ misled \in Nat /\ Noting \in {0, 1}
    BY OwedFacts
  <2>2. count.confirmed + Cardinality(Owed) + Noting <=
          (breaks + misled) + count.unverifiable + late
    BY DEF Honest
  <2> QED
    BY <2>1, <2>2 DEF NoFalseSuccess
<1>2. Init => Types /\ Honest
  BY InitTypes, InitHonest
<1>3. Types /\ Honest /\ [Next]_vars => (Types /\ Honest)'
  BY StepTypes, StepHonest
<1> QED
  BY <1>1, <1>2, <1>3, PTL DEF Spec
=============================================================================
