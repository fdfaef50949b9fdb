--------------------------- MODULE CaptureProofs ---------------------------
(***************************************************************************)
(* The hand-off of a capture session and the drains of its rings, for any  *)
(* number of players, sessions, shards and events: nothing published while *)
(* the session was live is out of the writers' reach, nothing is in two    *)
(* frames, and the final flush leaves nothing behind.                      *)
(***************************************************************************)
EXTENDS CapturePipeline, SumLemmas, SequenceTheorems

(* The inductive invariant *)

SrvSteps == {"idle", "joinShard", "joinStart", "quitRemove", "quitCount", "quitShard",
             "quitHandOff", "unregistered", "finalFlush", "closed"}
NetSteps == {"idle", "record", "publish"}
FlushSteps == {"idle", "active", "releaseActive", "departed", "releaseDeparted", "stats"}

FlushRec == [step : FlushSteps, must : SUBSET SessionId, seen : SUBSET SessionId,
             on : SUBSET (SessionId \X SUBSET EventId)]
TallyRec == [step : {"idle", "live"}, total : Nat, must : SUBSET SessionId,
             seen : SUBSET SessionId]

Types ==
  /\ nextSession \in 0 .. MaxSessions
  /\ player \in [SessionId -> Players \cup {NoSession}]
  /\ sessions \in [Players -> Working]
  /\ shardSessions \in SUBSET SessionId
  /\ shardDeparted \in [Shard -> Seq(SessionId)]
  /\ departedDropped \in Nat /\ offThread \in Nat /\ events \in 0 .. MaxEvents
  /\ ring \in [SessionId -> [Lane -> SUBSET EventId]]
  /\ owner \in [SessionId -> Working] /\ dropped \in [SessionId -> Nat]
  /\ net \in [SessionId -> [step : NetSteps, on : Working, event : Nat]]
  /\ srv \in [step : SrvSteps, on : Working \cup Shard]
  /\ flush \in [Flusher -> FlushRec] /\ frame \in [Flusher -> SUBSET EventId]
  /\ written \in SUBSET EventId /\ failed \in SUBSET EventId /\ late \in SUBSET EventId
  /\ tally \in TallyRec

\* The total is taken by one flusher at a time, and while one logs the stats.
Tallier ==
  /\ tally.step = "live" <=> \E f \in Flusher : flush[f].step = "stats"
  /\ \A f, g \in Flusher : flush[f].step = "stats" /\ flush[g].step = "stats" => f = g

\* A ring holds at most its slots.
Bounded ==
  \A s \in SessionId, l \in Lane :
    IsFiniteSet(ring[s][l]) /\ Cardinality(ring[s][l]) <= Cap[l]

Queued(s) == \E i \in DOMAIN shardDeparted[ShardOf(s)] : shardDeparted[ShardOf(s)][i] = s

\* The writers can come to a session without its ring being in their hands.
Known(s) == s \in shardSessions \/ Queued(s) \/ (srv.on = s /\ srv.step = "quitHandOff")

\* Who is registered where, and that a session that was retired never is again.
Registered ==
  /\ \A p \in Players : sessions[p] # NoSession =>
       sessions[p] < nextSession /\ player[sessions[p]] = p
  /\ \A s \in SessionId : Live(s) => s \in shardSessions \/ (srv.on = s /\ srv.step = "joinShard")
  /\ \A s \in SessionId : s \in shardSessions \/ Queued(s) => s < nextSession
  /\ \A s \in SessionId : Queued(s) => ~Live(s)
  /\ \A h \in Shard : \A i \in DOMAIN shardDeparted[h] : ShardOf(shardDeparted[h][i]) = h
  /\ srv.step \in {"joinShard", "joinStart", "quitRemove"} => srv.on \in SessionId /\ Live(srv.on)
  /\ srv.step \in {"quitCount", "quitShard", "quitHandOff"} =>
       srv.on \in SessionId /\ srv.on < nextSession /\ ~Live(srv.on)
  /\ srv.step = "finalFlush" => srv.on \in Shard
  /\ \A c \in SessionId : net[c].step # "idle" =>
       net[c].on \in SessionId /\ net[c].on < nextSession /\ player[c] # NoSession

Used(e) ==
  \/ \E s \in SessionId : e \in Contents(s)
  \/ \E f \in Flusher : e \in frame[f]
  \/ e \in written \cup failed

\* What is still to be published has not been.
Fresh ==
  /\ \A e \in EventId : Used(e) =>
       e[1] < nextSession /\ (e[2] \in {"main", "packet"} => e[3] < events)
  /\ \A s \in SessionId : srv.on = s /\ srv.step \in {"joinShard", "joinStart"} =>
       ~Used(<<s, "start", 0>>)
  /\ \A s \in SessionId : Live(s) /\ ~(srv.on = s /\ srv.step = "quitRemove") =>
       ~Used(<<s, "end", 0>>)
  /\ \A c \in SessionId : net[c].step # "idle" =>
       /\ net[c].event < events
       /\ \A s \in SessionId, i \in 0 .. MaxEvents :
            net[c].event = i => ~Used(<<s, "packet", i>>)
       /\ \A d \in SessionId \ {c} : net[d].step # "idle" => net[d].event # net[c].event

Releasing == {"releaseActive", "releaseDeparted"}
Iterating == {"active", "releaseActive"}

\* What a frame holds is of the flusher's own shard, on no disk yet, and still
\* in a ring only if that ring is about to be released.
Framed(f) ==
  /\ flush[f].step \in {"idle", "stats"} => frame[f] = {}
  /\ flush[f].step # "idle" => flush[Other(f)].step = "idle"
  /\ \A e \in frame[f] : ShardOf(e[1]) = f[1] /\ e \notin written \cup failed
  /\ \A s \in SessionId : frame[f] \cap Contents(s) # {} => \E h \in flush[f].on : h[1] = s
  /\ \A s \in flush[f].must : ShardOf(s) = f[1]
  /\ flush[f].step \in Iterating => \A s \in flush[f].must : Known(s)

\* A flusher holds one ring at a time. One that was retired, or that the final
\* flush holds, gets nothing more but late events.
Held(f) ==
  /\ flush[f].step \notin Releasing => flush[f].on = {}
  /\ \A h \in flush[f].on :
       /\ \A j \in flush[f].on : j = h
       /\ ShardOf(h[1]) = f[1] /\ h[1] < nextSession
       /\ frame[f] \cap Contents(h[1]) \subseteq h[2]
       /\ flush[f].step = "releaseActive" => Known(h[1])
       /\ flush[f].step = "releaseDeparted" => ~Live(h[1])
       /\ flush[f].step = "releaseDeparted" \/ f[2] = "final" =>
            Contents(h[1]) \subseteq h[2] \cup late

Drains ==
  /\ \A s \in SessionId : \A e \in Contents(s) : e[1] = s /\ e \notin written \cup failed
  /\ \A f \in Flusher : Framed(f) /\ Held(f)

\* The final flush of a shard has been through the sessions it has seen, and is
\* to see all that are registered before it is through with them. Once its frame
\* is written it has been through all.
Finishing(f) ==
  /\ srv.step = "finalFlush" /\ srv.on = f[1]
  /\ \A s \in flush[f].seen :
       (\A h \in flush[f].on : h[1] # s) => Contents(s) \subseteq late
  /\ \A s \in shardSessions :
       ShardOf(s) = f[1] =>
         IF flush[f].step \in Iterating THEN s \in flush[f].must ELSE Contents(s) \subseteq late
  /\ flush[f].step = "stats" =>
       \A s \in SessionId : ShardOf(s) = f[1] => Contents(s) \subseteq late

\* What it has been through holds late events only.
Final ==
  /\ srv.step = "finalFlush" =>
       \A s \in SessionId : ShardOf(s) < srv.on => Contents(s) \subseteq late
  /\ FinalFlushTakesAll
  /\ \A f \in Flusher : f[2] = "final" /\ flush[f].step # "idle" => Finishing(f)

IInv ==
  Types /\ Tallier /\ Bounded /\ Registered /\ Fresh /\ Drains /\ Final /\ RetiringLosesNothing
-----------------------------------------------------------------------------
(* Facts about the constants and the operators of the model *)

\* Sessions and shards are numbers, and none of them is NoSession.
LEMMA Numbers ==
  /\ SessionId \subseteq Nat /\ Shard \subseteq Nat
  /\ NoSession \notin SessionId /\ NoSession \notin Shard /\ NoSession \notin Players
  /\ \A s \in SessionId : ShardOf(s) \in Shard /\ s < MaxSessions
  /\ AllShards \in Shard
BY PipelineAssumption DEF SessionId, Shard, ShardOf, AllShards

\* The two flushers of a shard are each other's other one.
LEMMA TwoFlushers ==
  \A f \in Flusher :
    /\ f[1] \in Shard /\ f[2] \in {"pool", "final"}
    /\ Other(f) \in Flusher /\ Other(f) # f /\ Other(f)[1] = f[1]
    /\ Other(Other(f)) = f /\ Other(f)[2] # f[2]
    /\ \A g \in Flusher : g[1] = f[1] => g = f \/ g = Other(f)
BY DEF Flusher, Other

\* What an event offered to a ring does: it is added, and then it is live or
\* late, or nothing but the drop counter changes.
LEMMA Offered ==
  ASSUME Types, NEW s \in SessionId, NEW l \in Lane, NEW e \in EventId, Enqueue(s, l, e)
  PROVE  /\ ring' \in [SessionId -> [Lane -> SUBSET EventId]]
         /\ dropped' \in [SessionId -> Nat] /\ late' \in SUBSET EventId
         /\ late \subseteq late'
         /\ \A u \in SessionId : /\ Contents(u) \subseteq Contents(u)'
                                 /\ Contents(u)' \subseteq Contents(u) \cup {e}
                                 /\ u # s => Contents(u)' = Contents(u)
         /\ Contents(s)' = Contents(s) \/ (Live(s) /\ ~Stopping) \/ e \in late'
<1> USE DEF Types
<1>1. CASE HasRoom(s, l)
  <2>1. /\ ring' = [ring EXCEPT ![s][l] = @ \cup {e}]
        /\ late' = IF Live(s) /\ ~Stopping THEN late ELSE late \cup {e}
        /\ dropped' = dropped
    BY <1>1 DEF Enqueue
  <2>2. ring' \in [SessionId -> [Lane -> SUBSET EventId]]
    BY <2>1
  <2>3. \A u \in SessionId : u # s => ring'[u] = ring[u]
    BY <2>1
  <2>4. \A k \in Lane : ring'[s][k] = IF k = l THEN ring[s][k] \cup {e} ELSE ring[s][k]
    BY <2>1
  <2>5. /\ \A u \in SessionId : u # s => Contents(u)' = Contents(u)
        /\ Contents(s) \subseteq Contents(s)' /\ Contents(s)' \subseteq Contents(s) \cup {e}
    BY <2>3, <2>4 DEF Contents, Lane
  <2>. QED BY <2>1, <2>2, <2>5
<1>2. CASE ~HasRoom(s, l)
  <2>1. ring' = ring /\ late' = late /\ dropped' = [dropped EXCEPT ![s] = @ + 1]
    BY <1>2 DEF Enqueue
  <2>2. \A u \in SessionId : Contents(u)' = Contents(u)
    BY <2>1 DEF Contents
  <2>. QED BY <2>1, <2>2
<1>. QED BY <1>1, <1>2

\* The markers, a server event and a packet are events.
LEMMA EventsOffered ==
  ASSUME Types, NEW s \in SessionId, NEW i \in 0 .. MaxEvents
  PROVE  /\ <<s, "start", 0>> \in EventId /\ <<s, "end", 0>> \in EventId
         /\ <<s, "main", i>> \in EventId /\ <<s, "packet", i>> \in EventId
BY PipelineAssumption DEF EventId

\* A packet in flight is an event of a registered session.
LEMMA InFlight ==
  ASSUME Types, Registered, Fresh, NEW c \in SessionId, net[c].step # "idle"
  PROVE  /\ net[c].on \in SessionId /\ net[c].event \in 0 .. MaxEvents
         /\ net[c].event < events
BY PipelineAssumption DEF Types, Registered, Fresh
-----------------------------------------------------------------------------
(* Types and bounds *)

\* At the start every variable has its type.
LEMMA TypesInit == Init => Types
<1>. SUFFICES ASSUME Init PROVE Types
  OBVIOUS
<1>1. /\ shardDeparted \in [Shard -> Seq(SessionId)]
      /\ ring \in [SessionId -> [Lane -> SUBSET EventId]]
      /\ net \in [SessionId -> [step : NetSteps, on : Working, event : Nat]]
  BY DEF Init, NetIdle, NetSteps, Working
<1>2. srv \in [step : SrvSteps, on : Working \cup Shard]
  BY DEF Init, Idle, SrvSteps, Working
<1>3. /\ flush \in [Flusher -> FlushRec] /\ frame \in [Flusher -> SUBSET EventId]
  BY DEF Init, FlushRec, FlushSteps
<1>4. tally \in TallyRec
  BY DEF Init, Tallied, TallyRec
<1>. QED BY <1>1, <1>2, <1>3, <1>4, PipelineAssumption DEF Types, Init, Working

\* Every step keeps the types.
LEMMA TypesStep == IInv /\ Next => Types'
<1>. SUFFICES ASSUME IInv, Next PROVE Types'
  OBVIOUS
<1>. USE PipelineAssumption DEF IInv
<1>1. Types
  OBVIOUS
<1>2. ASSUME NEW p \in Players, Join(p) PROVE Types'
  <2>1. nextSession \in SessionId /\ nextSession' \in 0 .. MaxSessions
    BY <1>1, <1>2 DEF Join, Types, SessionId
  <2>2. /\ player' \in [SessionId -> Players \cup {NoSession}] /\ sessions' \in [Players -> Working]
    BY <1>1, <1>2, <2>1 DEF Join, Types, Working
  <2>3. srv' \in [step : SrvSteps, on : Working \cup Shard]
    BY <1>2, <2>1 DEF Join, At, SrvSteps, Working
  <2>. QED BY <1>1, <1>2, <2>1, <2>2, <2>3 DEF Join, Types, countVars, flushVars
<1>3. CASE JoinShard
  <2>1. srv.on \in SessionId
    BY <1>3 DEF JoinShard, Registered
  <2>2. /\ srv' \in [step : SrvSteps, on : Working \cup Shard]
        /\ shardSessions' \in SUBSET SessionId
    BY <1>1, <1>3, <2>1 DEF JoinShard, At, SrvSteps, Working, Types
  <2>. QED BY <1>1, <1>3, <2>2 DEF JoinShard, Types, countVars, flushVars
<1>4. CASE JoinStart
  <2>1. srv.on \in SessionId /\ "main" \in Lane
    BY <1>4 DEF JoinStart, Registered, Lane
  <2>2. srv' \in [step : SrvSteps, on : Working \cup Shard]
    BY <1>4 DEF JoinStart, Idle, SrvSteps, Working
  <2>3. 0 \in 0 .. MaxEvents
    OBVIOUS
  <2>4. /\ ring' \in [SessionId -> [Lane -> SUBSET EventId]]
        /\ dropped' \in [SessionId -> Nat] /\ late' \in SUBSET EventId
    BY <1>1, <1>4, <2>1, <2>3, EventsOffered, Offered DEF JoinStart
  <2>. QED BY <1>1, <1>4, <2>2, <2>4 DEF JoinStart, Types, regVars, flushVars
<1>5. ASSUME NEW p \in Players, ServerEvent(p) PROVE Types'
  <2>1. sessions[p] \in SessionId /\ "main" \in Lane /\ events \in 0 .. MaxEvents
        /\ events' \in 0 .. MaxEvents
    BY <1>1, <1>5 DEF ServerEvent, Types, Lane, Working
  <2>2. Enqueue(sessions[p], "main", <<sessions[p], "main", events>>)
    BY <1>5 DEF ServerEvent
  <2>3. /\ ring' \in [SessionId -> [Lane -> SUBSET EventId]]
        /\ dropped' \in [SessionId -> Nat] /\ late' \in SUBSET EventId
    BY <1>1, <2>1, <2>2, EventsOffered, Offered
  <2>. QED BY <1>1, <1>5, <2>1, <2>3 DEF ServerEvent, Types, regVars, flushVars
<1>6. ASSUME NEW p \in Players, Quit(p) PROVE Types'
  <2>1. sessions[p] \in SessionId /\ "main" \in Lane /\ 0 \in 0 .. MaxEvents
    BY <1>1, <1>6 DEF Quit, Types, Lane, Working
  <2>2. Enqueue(sessions[p], "main", <<sessions[p], "end", 0>>)
    BY <1>6 DEF Quit
  <2>3. /\ ring' \in [SessionId -> [Lane -> SUBSET EventId]]
        /\ dropped' \in [SessionId -> Nat] /\ late' \in SUBSET EventId
    BY <1>1, <2>1, <2>2, EventsOffered, Offered
  <2>4. srv' \in [step : SrvSteps, on : Working \cup Shard]
    BY <1>6, <2>1 DEF Quit, At, SrvSteps, Working
  <2>. QED BY <1>1, <1>6, <2>3, <2>4 DEF Quit, Types, regVars, flushVars
<1>7. CASE Retire
  <2>1. srv.on \in SessionId /\ srv.step \in {"quitRemove", "quitCount"}
    BY <1>7 DEF Retire, RemoveThenCount, Registered
  <2>2. srv' \in [step : SrvSteps, on : Working \cup Shard]
    BY <1>7, <2>1 DEF Retire, RemoveThenCount, At, SrvSteps, Working
  <2>3. dropped[srv.on] \in Nat /\ departedDropped' \in Nat
    BY <1>1, <1>7, <2>1 DEF Retire, RemoveThenCount, Types
  <2>4. sessions' \in [Players -> Working]
    BY <1>1, <1>7, <2>1 DEF Retire, RemoveThenCount, Types, Working
  <2>. QED BY <1>1, <1>7, <2>2, <2>3, <2>4 DEF Retire, Types, flushVars
<1>8. CASE QuitShard
  <2>1. srv' \in [step : SrvSteps, on : Working \cup Shard]
    BY <1>1, <1>8 DEF QuitShard, At, SrvSteps, Types
  <2>. QED BY <1>1, <1>8, <2>1 DEF QuitShard, Types, countVars, flushVars
<1>9. CASE QuitHandOff
  <2>1. srv.on \in SessionId /\ ShardOf(srv.on) \in Shard
    BY <1>9, Numbers DEF QuitHandOff, Registered
  <2>2. shardDeparted[ShardOf(srv.on)] \in Seq(SessionId)
    BY <1>1, <2>1 DEF Types
  <2>3. Append(shardDeparted[ShardOf(srv.on)], srv.on) \in Seq(SessionId)
    BY <2>1, <2>2
  <2>4. shardDeparted' \in [Shard -> Seq(SessionId)]
    BY <1>1, <1>9, <2>1, <2>3 DEF QuitHandOff, HandOff, Types
  <2>5. srv' \in [step : SrvSteps, on : Working \cup Shard]
    BY <1>9 DEF QuitHandOff, Idle, SrvSteps, Working
  <2>. QED BY <1>1, <1>9, <2>4, <2>5 DEF QuitHandOff, Types, countVars, flushVars
<1>10. CASE FinalFlush \/ Disable
  <2>1. srv' \in [step : SrvSteps, on : Working \cup Shard]
    BY <1>10, Numbers DEF FinalFlush, Disable, At, SrvSteps, Working
  <2>. QED BY <1>1, <1>10, <2>1 DEF FinalFlush, Disable, Types, regVars, countVars, flushVars
<1>11. ASSUME NEW c \in SessionId, Receive(c) PROVE Types'
  <2>1. events \in Nat /\ events' \in 0 .. MaxEvents
    BY <1>1, <1>11 DEF Receive, Types
  <2>2. net' \in [SessionId -> [step : NetSteps, on : Working, event : Nat]]
    BY <1>1, <1>11, <2>1 DEF Receive, Types, NetSteps, Working
  <2>. QED BY <1>1, <1>11, <2>1, <2>2 DEF Receive, Types, regVars, flushVars
<1>12. ASSUME NEW c \in SessionId, FindSession(c) PROVE Types'
  <2>1. player[c] \in Players
    BY <1>1, <1>12 DEF FindSession, Registered, Types
  <2>2. sessions[player[c]] \in Working
    BY <1>1, <2>1 DEF Types
  <2>3. net' \in [SessionId -> [step : NetSteps, on : Working, event : Nat]]
    <3>1. net[c] \in [step : NetSteps, on : Working, event : Nat]
      BY <1>1 DEF Types
    <3>2. NetIdle \in [step : NetSteps, on : Working, event : Nat]
      BY DEF NetIdle, NetSteps, Working
    <3>3. CASE net' = [net EXCEPT ![c] = NetIdle]
      BY <1>1, <3>2, <3>3 DEF Types
    <3>4. CASE net' = [net EXCEPT ![c].step = "publish", ![c].on = sessions[player[c]]]
      BY <1>1, <2>2, <3>1, <3>4 DEF Types, NetSteps
    <3>. QED BY <1>12, <3>3, <3>4 DEF FindSession
  <2>4. owner' \in [SessionId -> Working]
    <3>1. c \in Working
      BY DEF Working
    <3>2. owner' = owner \/ owner' = [owner EXCEPT ![sessions[player[c]]] = c]
      BY <1>12 DEF FindSession
    <3>. QED BY <1>1, <3>1, <3>2 DEF Types
  <2>5. offThread' \in Nat
    BY <1>1, <1>12 DEF FindSession, Types
  <2>. QED BY <1>1, <1>12, <2>3, <2>4, <2>5 DEF FindSession, Types, regVars, flushVars
<1>13. ASSUME NEW c \in SessionId, PublishPacket(c) PROVE Types'
  <2>1. "packet" \in Lane /\ net[c].on \in SessionId /\ net[c].event \in 0 .. MaxEvents
    BY <1>1, <1>13, InFlight DEF PublishPacket, Lane
  <2>2. Enqueue(net[c].on, "packet", <<net[c].on, "packet", net[c].event>>)
    BY <1>13 DEF PublishPacket
  <2>3. /\ ring' \in [SessionId -> [Lane -> SUBSET EventId]]
        /\ dropped' \in [SessionId -> Nat] /\ late' \in SUBSET EventId
    BY <1>1, <2>1, <2>2, EventsOffered, Offered
  <2>4. net' \in [SessionId -> [step : NetSteps, on : Working, event : Nat]]
    BY <1>1, <1>13 DEF PublishPacket, Types, NetIdle, NetSteps, Working
  <2>. QED BY <1>1, <1>13, <2>3, <2>4 DEF PublishPacket, Types, regVars, flushVars
<1>14. ASSUME NEW f \in Flusher, Flush(f) PROVE Types'
  <2>. f[1] \in Shard
    BY TwoFlushers
  <2>1. flush[f] \in FlushRec /\ frame[f] \in SUBSET EventId
    BY <1>1 DEF Types
  <2>2. CASE FlushBegin(f)
    <3>1. {s \in shardSessions : ShardOf(s) = f[1]} \in SUBSET SessionId
      BY <1>1 DEF Types
    <3>2. flush' \in [Flusher -> FlushRec] /\ frame' \in [Flusher -> SUBSET EventId]
      BY <1>1, <2>2, <3>1 DEF FlushBegin, Types, FlushRec, FlushSteps
    <3>. QED BY <1>1, <2>2, <3>2 DEF FlushBegin, Types, regVars, countVars
  <2>3. ASSUME NEW s \in SessionId, NEW st \in {"releaseActive", "releaseDeparted"},
               Encode(f, s, st)
        PROVE  flush' \in [Flusher -> FlushRec] /\ frame' \in [Flusher -> SUBSET EventId]
    <3>1. Contents(s) \in SUBSET EventId
      BY <1>1 DEF Types, Contents, Lane
    <3>2. /\ flush[f].seen \cup {s} \in SUBSET SessionId
          /\ {<<s, Contents(s)>>} \in SUBSET (SessionId \X SUBSET EventId)
      BY <2>1, <3>1 DEF FlushRec
    <3>3. CASE Contents(s) = {}
      <4>1. flush' = [flush EXCEPT ![f] = [flush[f] EXCEPT !.seen = @ \cup {s}]] /\ frame' = frame
        BY <2>3, <3>3 DEF Encode
      <4>2. [flush[f] EXCEPT !.seen = @ \cup {s}] \in FlushRec
        BY <2>1, <3>2 DEF FlushRec
      <4>. QED BY <1>1, <4>1, <4>2 DEF Types
    <3>4. CASE Contents(s) # {}
      <4>1. /\ flush' = [flush EXCEPT ![f] = [flush[f] EXCEPT !.step = st, !.seen = @ \cup {s},
                                                              !.on = {<<s, Contents(s)>>}]]
            /\ frame' = [frame EXCEPT ![f] = @ \cup Contents(s)]
        BY <2>3, <3>4 DEF Encode
      <4>2. [flush[f] EXCEPT !.step = st, !.seen = @ \cup {s}, !.on = {<<s, Contents(s)>>}]
              \in FlushRec
        BY <2>1, <3>2 DEF FlushRec, FlushSteps
      <4>. QED BY <1>1, <2>1, <3>1, <4>1, <4>2 DEF Types
    <3>. QED BY <3>3, <3>4
  <2>4. CASE VisitActive(f)
    <3>1. PICK s \in SessionId : Encode(f, s, "releaseActive")
      BY <1>1, <2>1, <2>4 DEF VisitActive, Types, FlushRec
    <3>2. flush' \in [Flusher -> FlushRec] /\ frame' \in [Flusher -> SUBSET EventId]
      BY <2>3, <3>1
    <3>. QED BY <1>1, <2>4, <3>2 DEF VisitActive, Types, regVars, countVars
  <2>5. CASE Release(f)
    <3>1. PICK h \in flush[f].on :
            ring' = [ring EXCEPT ![h[1]] = [l \in Lane |-> @[l] \ h[2]]]
      BY <2>5 DEF Release
    <3>2. h[1] \in SessionId
      BY <2>1, <3>1 DEF FlushRec
    <3>3. [l \in Lane |-> ring[h[1]][l] \ h[2]] \in [Lane -> SUBSET EventId]
      BY <1>1, <3>2 DEF Types
    <3>4. ring' \in [SessionId -> [Lane -> SUBSET EventId]]
      BY <1>1, <3>1, <3>2, <3>3 DEF Types
    <3>5. flush' \in [Flusher -> FlushRec]
      BY <1>1, <2>1, <2>5 DEF Release, Types, FlushRec, FlushSteps
    <3>. QED BY <1>1, <2>5, <3>4, <3>5 DEF Release, Types, regVars, countVars
  <2>6. CASE EndActive(f)
    <3>1. flush' \in [Flusher -> FlushRec]
      BY <1>1, <2>1, <2>6 DEF EndActive, Types, FlushRec, FlushSteps
    <3>. QED BY <1>1, <2>6, <3>1 DEF EndActive, Types, regVars, countVars
  <2>7. CASE PollDeparted(f)
    <3>1. shardDeparted[f[1]] \in Seq(SessionId) /\ shardDeparted[f[1]] # <<>>
      BY <1>1, <2>7 DEF PollDeparted, Types
    <3>2. /\ Head(shardDeparted[f[1]]) \in SessionId
          /\ Tail(shardDeparted[f[1]]) \in Seq(SessionId)
      BY <3>1
    <3>3. flush' \in [Flusher -> FlushRec] /\ frame' \in [Flusher -> SUBSET EventId]
      BY <2>3, <2>7, <3>2 DEF PollDeparted
    <3>4. shardDeparted' \in [Shard -> Seq(SessionId)]
      BY <1>1, <2>7, <3>2 DEF PollDeparted, Types
    <3>. QED BY <1>1, <2>7, <3>3, <3>4 DEF PollDeparted, Types, countVars
  <2>8. CASE EndFlush(f)
    <3>1. flush' \in [Flusher -> FlushRec] /\ frame' \in [Flusher -> SUBSET EventId]
      BY <1>1, <2>1, <2>8 DEF EndFlush, Return, Types, FlushRec, FlushSteps
    <3>2. srv' \in [step : SrvSteps, on : Working \cup Shard]
      BY <1>1, <2>8 DEF EndFlush, Return, At, Types, SrvSteps, Working
    <3>3. written' \in SUBSET EventId /\ failed' \in SUBSET EventId
      BY <1>1, <2>1, <2>8 DEF EndFlush, Types
    <3>. QED BY <1>1, <2>8, <3>1, <3>2, <3>3 DEF EndFlush, Types, regVars, countVars
  <2>9. LiveSessions \in SUBSET SessionId /\ departedDropped \in Nat /\ tally \in TallyRec
    BY <1>1 DEF LiveSessions, Types
  <2>10. DepartedThenLive => tally' \in TallyRec
    BY <2>9 DEF DepartedThenLive, Tallying, Tallied, TallyRec
  <2>11. CASE EndFlushWithStats(f)
    <3>1. flush' \in [Flusher -> FlushRec] /\ frame' \in [Flusher -> SUBSET EventId]
      BY <1>1, <2>1, <2>11 DEF EndFlushWithStats, Types, FlushRec, FlushSteps
    <3>2. written' \in SUBSET EventId
      BY <1>1, <2>1, <2>11 DEF EndFlushWithStats, Types
    <3>3. tally' \in TallyRec
      BY <2>10, <2>11 DEF EndFlushWithStats
    <3>. QED BY <1>1, <2>11, <3>1, <3>2, <3>3 DEF EndFlushWithStats, Types, regVars, countVars
  <2>12. CASE LogStats(f)
    <3>1. flush' \in [Flusher -> FlushRec]
      BY <1>1, <2>1, <2>12 DEF LogStats, Return, Types, FlushRec, FlushSteps
    <3>2. srv' \in [step : SrvSteps, on : Working \cup Shard]
      BY <1>1, <2>12 DEF LogStats, Return, At, Types, SrvSteps, Working
    <3>3. tally' \in TallyRec
      BY <2>10, <2>12 DEF LogStats
    <3>. QED BY <1>1, <2>12, <3>1, <3>2, <3>3 DEF LogStats, Types, regVars, countVars
  <2>13. CASE VisitLive(f)
    <3>1. PICK s \in (tally.must \cup LiveSessions) \ tally.seen :
            tally' = [tally EXCEPT !.total = @ + dropped[s], !.seen = @ \cup {s}]
      BY <2>13 DEF VisitLive
    <3>2. s \in SessionId /\ dropped[s] \in Nat
      BY <1>1, <2>9, <3>1 DEF TallyRec, Types
    <3>. DEFINE t == tally.total + dropped[s]
                v == tally.seen \cup {s}
    <3>3. t \in Nat /\ v \in SUBSET SessionId /\ tally' = [tally EXCEPT !.total = t, !.seen = v]
      BY <2>9, <3>1, <3>2 DEF TallyRec
    <3>. HIDE DEF t, v
    <3>4. tally' \in TallyRec
      BY <2>9, <3>3 DEF TallyRec
    <3>. QED BY <1>1, <2>13, <3>4 DEF VisitLive, Types, core, regVars, countVars, flushVars
  <2>. QED BY <1>14, <2>2, <2>4, <2>5, <2>6, <2>7, <2>8, <2>11, <2>12, <2>13 DEF Flush
<1>. QED BY <1>2, <1>3, <1>4, <1>5, <1>6, <1>7, <1>8, <1>9, <1>10, <1>11, <1>12, <1>13, <1>14
     DEF Next, Server, Netty

\* What enters a ring is counted.
LEMMA RingBound ==
  ASSUME Types, Bounded, NEW s \in SessionId, NEW l \in Lane, NEW e \in EventId, Enqueue(s, l, e)
  PROVE  Bounded'
<1> USE DEF Types
<1>0. Cap[l] \in Nat
  BY PipelineAssumption DEF Cap, Lane
<1>1. CASE HasRoom(s, l)
  <2>1. ring' = [ring EXCEPT ![s][l] = @ \cup {e}]
    BY <1>1 DEF Enqueue
  <2>2. IsFiniteSet(ring[s][l]) /\ Cardinality(ring[s][l]) < Cap[l]
    BY <1>1 DEF Bounded, HasRoom
  <2>3. Cardinality(ring[s][l]) \in Nat
    BY <2>2, FS_CardinalityType
  <2>4. IsFiniteSet(ring[s][l] \cup {e}) /\ Cardinality(ring[s][l] \cup {e}) <= Cap[l]
    <3>1. /\ IsFiniteSet(ring[s][l] \cup {e})
          /\ \/ Cardinality(ring[s][l] \cup {e}) = Cardinality(ring[s][l])
             \/ Cardinality(ring[s][l] \cup {e}) = Cardinality(ring[s][l]) + 1
      BY <2>2, FS_AddElement
    <3>. QED BY <1>0, <2>2, <2>3, <3>1
  <2>5. \A u \in SessionId, k \in Lane :
          ring'[u][k] = IF u = s /\ k = l THEN ring[s][l] \cup {e} ELSE ring[u][k]
    BY <2>1
  <2>. QED BY <2>4, <2>5 DEF Bounded
<1>2. CASE ~HasRoom(s, l)
  BY <1>2 DEF Enqueue, Bounded
<1>. QED BY <1>1, <1>2

\* At the start the rings are empty.
LEMMA BoundedInit == Init => Bounded
<1>. SUFFICES ASSUME Init PROVE Bounded
  OBVIOUS
<1>1. IsFiniteSet({}) /\ Cardinality({}) = 0
  BY FS_EmptySet
<1>2. \A l \in Lane : Cap[l] \in Nat
  BY PipelineAssumption DEF Cap, Lane
<1>3. \A s \in SessionId, l \in Lane : ring[s][l] = {}
  BY DEF Init
<1>. QED BY <1>1, <1>2, <1>3 DEF Bounded

\* No step puts more into a ring than fits.
LEMMA BoundedStep == IInv /\ Next /\ ~UNCHANGED core => Bounded'
<1>. SUFFICES ASSUME IInv, Next, ~UNCHANGED core PROVE Bounded'
  OBVIOUS
<1>1. Types /\ Bounded /\ Registered /\ Fresh
  BY DEF IInv
<1>2. CASE JoinStart
  <2>1. srv.on \in SessionId /\ "main" \in Lane /\ 0 \in 0 .. MaxEvents
    BY <1>1, <1>2, PipelineAssumption DEF JoinStart, Registered, Lane
  <2>. QED BY <1>1, <1>2, <2>1, EventsOffered, RingBound DEF JoinStart
<1>3. ASSUME NEW p \in Players, ServerEvent(p) \/ Quit(p) PROVE Bounded'
  <2>1. /\ sessions[p] \in SessionId /\ "main" \in Lane
        /\ events \in 0 .. MaxEvents /\ 0 \in 0 .. MaxEvents
    BY <1>1, <1>3, PipelineAssumption DEF ServerEvent, Quit, Types, Lane, Working
  <2>2. \/ Enqueue(sessions[p], "main", <<sessions[p], "main", events>>)
        \/ Enqueue(sessions[p], "main", <<sessions[p], "end", 0>>)
    BY <1>3 DEF ServerEvent, Quit
  <2>. QED BY <1>1, <2>1, <2>2, EventsOffered, RingBound
<1>4. ASSUME NEW c \in SessionId, PublishPacket(c) PROVE Bounded'
  <2>1. "packet" \in Lane /\ net[c].on \in SessionId /\ net[c].event \in 0 .. MaxEvents
    BY <1>1, <1>4, InFlight DEF PublishPacket, Lane
  <2>. QED BY <1>1, <1>4, <2>1, EventsOffered, RingBound DEF PublishPacket
<1>5. ASSUME NEW f \in Flusher, Release(f) PROVE Bounded'
  <2>1. PICK h \in flush[f].on : ring' = [ring EXCEPT ![h[1]] = [l \in Lane |-> @[l] \ h[2]]]
    BY <1>5 DEF Release
  <2>2. h[1] \in SessionId
    BY <1>1, <2>1 DEF Types, FlushRec
  <2>3. ASSUME NEW u \in SessionId, NEW l \in Lane PROVE ring'[u][l] \subseteq ring[u][l]
    <3>1. CASE u = h[1]
      BY <1>1, <2>1, <2>2, <3>1 DEF Types
    <3>2. CASE u # h[1]
      BY <1>1, <2>1, <2>2, <3>2 DEF Types
    <3>. QED BY <3>1, <3>2
  <2>4. ASSUME NEW u \in SessionId, NEW l \in Lane
        PROVE  IsFiniteSet(ring'[u][l]) /\ Cardinality(ring'[u][l]) <= Cap[l]
    <3>1. IsFiniteSet(ring[u][l]) /\ Cardinality(ring[u][l]) <= Cap[l] /\ Cap[l] \in Nat
      BY <1>1, PipelineAssumption DEF Bounded, Cap, Lane
    <3>2. /\ IsFiniteSet(ring'[u][l])
          /\ Cardinality(ring'[u][l]) <= Cardinality(ring[u][l])
      BY <2>3, <3>1, FS_Subset
    <3>3. Cardinality(ring'[u][l]) \in Nat /\ Cardinality(ring[u][l]) \in Nat
      BY <3>1, <3>2, FS_CardinalityType
    <3>. QED BY <3>1, <3>2, <3>3
  <2>. QED BY <2>4 DEF Bounded
<1>6. CASE UNCHANGED ring
  BY <1>1, <1>6 DEF Bounded
<1>7. ASSUME NEW p \in Players, Join(p) PROVE UNCHANGED ring
  BY <1>7 DEF Join
<1>8. ASSUME NEW c \in SessionId, Receive(c) \/ FindSession(c) PROVE UNCHANGED ring
  BY <1>8 DEF Receive, FindSession
<1>9. ASSUME NEW f \in Flusher,
             \/ FlushBegin(f) \/ VisitActive(f) \/ EndActive(f) \/ PollDeparted(f)
             \/ EndFlush(f) \/ EndFlushWithStats(f) \/ LogStats(f)
      PROVE  UNCHANGED ring
  BY <1>9 DEF FlushBegin, VisitActive, EndActive, PollDeparted, EndFlush, EndFlushWithStats, LogStats
<1>10. CASE JoinShard \/ Retire \/ QuitShard \/ QuitHandOff \/ FinalFlush \/ Disable
  BY <1>6, <1>10 DEF JoinShard, Retire, QuitShard, QuitHandOff, FinalFlush, Disable
<1>11. \A f \in Flusher : ~VisitLive(f)
  BY DEF VisitLive
<1>. QED BY <1>2, <1>3, <1>4, <1>5, <1>6, <1>7, <1>8, <1>9, <1>10, <1>11
     DEF Next, Server, Netty, Flush

-----------------------------------------------------------------------------
(* Who is registered *)

\* What an append adds, index by index.
LEMMA AppendIndices ==
  ASSUME NEW S, NEW q \in Seq(S), NEW e \in S
  PROVE  /\ DOMAIN q = 1 .. Len(q) /\ DOMAIN Append(q, e) = 1 .. Len(q) + 1 /\ Len(q) \in Nat
         /\ \A i \in 1 .. Len(q) : Append(q, e)[i] = q[i]
         /\ Append(q, e)[Len(q) + 1] = e
<1>1. Append(q, e) \in Seq(S) /\ Len(Append(q, e)) = Len(q) + 1
  BY AppendProperties
<1>2. DOMAIN Append(q, e) = 1 .. Len(q) + 1
  BY <1>1, LenProperties
<1>. QED BY <1>2, LenProperties, AppendProperties

\* What a removal of the head leaves, index by index.
LEMMA TailIndices ==
  ASSUME NEW S, NEW q \in Seq(S), q # <<>>
  PROVE  /\ DOMAIN q = 1 .. Len(q) /\ Len(q) \in Nat \ {0} /\ Head(q) \in S /\ Head(q) = q[1]
         /\ DOMAIN Tail(q) = 1 .. Len(q) - 1
         /\ \A i \in 1 .. Len(q) - 1 : Tail(q)[i] = q[i + 1]
<1>1. Len(q) \in Nat \ {0}
  BY EmptySeq
<1>2. Tail(q) \in Seq(S) /\ Len(Tail(q)) = Len(q) - 1
  BY HeadTailProperties
<1>3. DOMAIN Tail(q) = 1 .. Len(q) - 1
  BY <1>2, LenProperties
<1>4. Head(q) = q[1]
  OBVIOUS
<1>. QED BY <1>1, <1>2, <1>3, <1>4, LenProperties, HeadTailProperties

\* Only a join makes a session live, and only its own.
LEMMA LiveJoin ==
  ASSUME Types, Registered, NEW p \in Players, Join(p)
  PROVE  /\ nextSession \in SessionId /\ ~Live(nextSession)
         /\ \A s \in SessionId : Live(s)' <=> Live(s) \/ s = nextSession
<1>1. nextSession \in SessionId
  BY PipelineAssumption DEF Types, Join, SessionId
<1>2. /\ player' = [player EXCEPT ![nextSession] = p]
      /\ sessions' = [sessions EXCEPT ![p] = nextSession]
      /\ sessions[p] = NoSession
  BY DEF Join
<1>3. ~Live(nextSession)
  BY <1>1, Numbers DEF Types, Registered, Live
<1>4. ASSUME NEW s \in SessionId, s = nextSession PROVE Live(s)'
  BY <1>1, <1>2, <1>4, Numbers DEF Types, Live
<1>5. ASSUME NEW s \in SessionId, s # nextSession PROVE Live(s)' <=> Live(s)
  BY <1>1, <1>2, <1>5, Numbers DEF Types, Live
<1>. QED BY <1>1, <1>3, <1>4, <1>5

\* Retiring ends exactly the session of the player who quits.
LEMMA LiveRetire ==
  ASSUME Types, Registered, Retire
  PROVE  /\ srv.on \in SessionId /\ srv.on < nextSession
         /\ srv' = At(IF srv.step = "quitRemove" THEN "quitCount" ELSE "quitShard", srv.on)
         /\ \A s \in SessionId : Live(s)' <=> Live(s) /\ s # srv.on
         /\ \A p \in Players : sessions'[p] \in {sessions[p], NoSession}
<1>1. /\ srv.step \in {"quitRemove", "quitCount"} /\ srv.on \in SessionId
      /\ srv.step = "quitRemove" => Live(srv.on)
      /\ srv.step = "quitCount" => ~Live(srv.on) /\ srv.on < nextSession
  BY DEF Registered, Retire, RemoveThenCount
<1>2. player' = player
  BY DEF Retire
<1>3. CASE srv.step = "quitRemove"
  <2>1. /\ sessions' = [sessions EXCEPT ![player[srv.on]] = NoSession]
        /\ srv' = At("quitCount", srv.on)
    BY <1>3 DEF Retire, RemoveThenCount
  <2>2. player[srv.on] \in Players /\ sessions[player[srv.on]] = srv.on
    BY <1>1, <1>3 DEF Types, Live
  <2>3. srv.on < nextSession
    BY <1>1, <2>2, Numbers DEF Registered
  <2>4. ASSUME NEW s \in SessionId PROVE Live(s)' <=> Live(s) /\ s # srv.on
    BY <1>1, <1>2, <2>1, <2>2, <2>4, Numbers DEF Types, Live
  <2>5. \A p \in Players : sessions'[p] \in {sessions[p], NoSession}
    BY <2>1 DEF Types
  <2>. QED BY <1>1, <1>3, <2>1, <2>3, <2>4, <2>5
<1>4. CASE srv.step = "quitCount"
  <2>1. sessions' = sessions /\ srv' = At("quitShard", srv.on)
    BY <1>4 DEF Retire, RemoveThenCount
  <2>2. \A s \in SessionId : Live(s)' <=> Live(s)
    BY <1>2, <2>1 DEF Live
  <2>. QED BY <1>1, <1>4, <2>1, <2>2
<1>. QED BY <1>1, <1>3, <1>4

\* The hand-off queues the session that was retired.
LEMMA QueuedHandOff ==
  ASSUME Types, Registered, QuitHandOff
  PROVE  /\ srv.on \in SessionId
         /\ \A s \in SessionId : Queued(s)' <=> Queued(s) \/ s = srv.on
         /\ \A h \in Shard : \A i \in DOMAIN shardDeparted'[h] : ShardOf(shardDeparted'[h][i]) = h
<1>1. srv.on \in SessionId /\ ShardOf(srv.on) \in Shard
  BY Numbers DEF Registered, QuitHandOff
<1>. DEFINE k == ShardOf(srv.on)
            q == shardDeparted[k]
<1>2. q \in Seq(SessionId)
  BY <1>1 DEF Types
<1>3. /\ shardDeparted'[k] = Append(q, srv.on)
      /\ \A h \in Shard : h # k => shardDeparted'[h] = shardDeparted[h]
  BY <1>1 DEF Types, QuitHandOff, HandOff
<1>4. /\ DOMAIN q = 1 .. Len(q) /\ DOMAIN Append(q, srv.on) = 1 .. Len(q) + 1 /\ Len(q) \in Nat
      /\ \A i \in 1 .. Len(q) : Append(q, srv.on)[i] = q[i]
      /\ Append(q, srv.on)[Len(q) + 1] = srv.on
  BY <1>1, <1>2, AppendIndices
<1>5. ASSUME NEW s \in SessionId PROVE Queued(s)' <=> Queued(s) \/ s = srv.on
  <2>1. ShardOf(s) \in Shard
    BY Numbers
  <2>2. CASE ShardOf(s) # k
    BY <1>3, <2>1, <2>2 DEF Queued
  <2>3. CASE ShardOf(s) = k
    <3>1. Queued(s)' <=> \E i \in 1 .. Len(q) + 1 : Append(q, srv.on)[i] = s
      BY <1>3, <1>4, <2>3 DEF Queued
    <3>2. Queued(s) <=> \E i \in 1 .. Len(q) : q[i] = s
      BY <1>4, <2>3 DEF Queued
    <3>. HIDE DEF q, k
    <3>3. ASSUME NEW i \in 1 .. Len(q) + 1, Append(q, srv.on)[i] = s
          PROVE  s = srv.on \/ \E j \in 1 .. Len(q) : q[j] = s
      <4>1. CASE i = Len(q) + 1
        BY <1>4, <3>3, <4>1
      <4>2. CASE i # Len(q) + 1
        <5>1. i \in 1 .. Len(q)
          BY <1>4, <4>2
        <5>. QED BY <1>4, <3>3, <5>1
      <4>. QED BY <4>1, <4>2
    <3>4. ASSUME NEW i \in 1 .. Len(q), q[i] = s
          PROVE  \E j \in 1 .. Len(q) + 1 : Append(q, srv.on)[j] = s
      <4>1. i \in 1 .. Len(q) + 1 /\ Append(q, srv.on)[i] = s
        BY <1>4, <3>4
      <4>. QED BY <4>1
    <3>5. s = srv.on => \E j \in 1 .. Len(q) + 1 : Append(q, srv.on)[j] = s
      <4>1. Len(q) + 1 \in 1 .. Len(q) + 1
        BY <1>4
      <4>. QED BY <1>4, <4>1
    <3>. QED BY <3>1, <3>2, <3>3, <3>4, <3>5
  <2>. QED BY <2>2, <2>3
<1>6. ASSUME NEW h \in Shard, NEW i \in DOMAIN shardDeparted'[h]
      PROVE  ShardOf(shardDeparted'[h][i]) = h
  <2>1. CASE h # k
    BY <1>3, <1>6, <2>1 DEF Registered
  <2>2. CASE h = k
    <3>1. i \in 1 .. Len(q) + 1 /\ shardDeparted'[h][i] = Append(q, srv.on)[i]
      BY <1>3, <1>4, <2>2
    <3>2. \A j \in 1 .. Len(q) : ShardOf(q[j]) = k
      BY <1>1, <1>4 DEF Registered
    <3>3. ShardOf(srv.on) = k
      OBVIOUS
    <3>. HIDE DEF q, k
    <3>4. CASE i = Len(q) + 1
      BY <1>4, <2>2, <3>1, <3>3, <3>4
    <3>5. CASE i # Len(q) + 1
      <4>1. i \in 1 .. Len(q)
        BY <1>4, <3>1, <3>5
      <4>. QED BY <1>4, <2>2, <3>1, <3>2, <4>1
    <3>. QED BY <3>4, <3>5
  <2>. QED BY <2>1, <2>2
<1>. QED BY <1>1, <1>5, <1>6

\* A poll takes the first session of the shard's queue off it.
LEMMA QueuedPoll ==
  ASSUME Types, Registered, NEW f \in Flusher, PollDeparted(f)
  PROVE  LET t == Head(shardDeparted[f[1]])
         IN /\ t \in SessionId /\ ShardOf(t) = f[1] /\ Queued(t)
            /\ \A s \in SessionId : (Queued(s)' => Queued(s)) /\ (Queued(s) => Queued(s)' \/ s = t)
            /\ \A h \in Shard : \A i \in DOMAIN shardDeparted'[h] :
                 ShardOf(shardDeparted'[h][i]) = h
<1>. DEFINE k == f[1]
            q == shardDeparted[k]
            t == Head(q)
<1>1. k \in Shard /\ q \in Seq(SessionId) /\ q # <<>>
  BY TwoFlushers DEF Types, PollDeparted
<1>2. /\ shardDeparted'[k] = Tail(q)
      /\ \A h \in Shard : h # k => shardDeparted'[h] = shardDeparted[h]
  BY <1>1 DEF Types, PollDeparted
<1>3. /\ DOMAIN q = 1 .. Len(q) /\ Len(q) \in Nat \ {0} /\ t \in SessionId /\ t = q[1]
      /\ DOMAIN Tail(q) = 1 .. Len(q) - 1
      /\ \A i \in 1 .. Len(q) - 1 : Tail(q)[i] = q[i + 1]
  BY <1>1, TailIndices
<1>4. \A i \in 1 .. Len(q) : ShardOf(q[i]) = k
  BY <1>1, <1>3 DEF Registered
<1>5. ShardOf(t) = k /\ Queued(t)
  BY <1>3, <1>4 DEF Queued
<1>6. ASSUME NEW s \in SessionId
      PROVE  (Queued(s)' => Queued(s)) /\ (Queued(s) => Queued(s)' \/ s = t)
  <2>1. CASE ShardOf(s) # k
    <3>1. ShardOf(s) \in Shard
      BY Numbers
    <3>. QED BY <1>2, <2>1, <3>1 DEF Queued
  <2>2. CASE ShardOf(s) = k
    <3>1. Queued(s)' <=> \E i \in 1 .. Len(q) - 1 : Tail(q)[i] = s
      BY <1>2, <1>3, <2>2 DEF Queued
    <3>2. Queued(s) <=> \E i \in 1 .. Len(q) : q[i] = s
      BY <1>3, <2>2 DEF Queued
    <3>. HIDE DEF q, k, t
    <3>3. ASSUME NEW i \in 1 .. Len(q) - 1, Tail(q)[i] = s PROVE \E j \in 1 .. Len(q) : q[j] = s
      <4>1. i + 1 \in 1 .. Len(q) /\ q[i + 1] = s
        BY <1>3, <3>3
      <4>. QED BY <4>1
    <3>4. ASSUME NEW i \in 1 .. Len(q), q[i] = s
          PROVE  s = t \/ \E j \in 1 .. Len(q) - 1 : Tail(q)[j] = s
      <4>1. CASE i = 1
        BY <1>3, <3>4, <4>1
      <4>2. CASE i # 1
        <5>1. i - 1 \in 1 .. Len(q) - 1 /\ Tail(q)[i - 1] = q[(i - 1) + 1] /\ (i - 1) + 1 = i
          BY <1>3, <4>2
        <5>. QED BY <3>4, <5>1
      <4>. QED BY <4>1, <4>2
    <3>. QED BY <3>1, <3>2, <3>3, <3>4
  <2>. QED BY <2>1, <2>2
<1>7. ASSUME NEW h \in Shard, NEW i \in DOMAIN shardDeparted'[h]
      PROVE  ShardOf(shardDeparted'[h][i]) = h
  <2>1. CASE h # k
    BY <1>2, <1>7, <2>1 DEF Registered
  <2>2. CASE h = k
    <3>1. i \in 1 .. Len(q) - 1 /\ shardDeparted'[h][i] = Tail(q)[i]
      BY <1>2, <1>3, <1>7, <2>2
    <3>. HIDE DEF q, k
    <3>2. i + 1 \in 1 .. Len(q) /\ Tail(q)[i] = q[i + 1]
      BY <1>3, <3>1
    <3>. QED BY <1>4, <2>2, <3>1, <3>2
  <2>. QED BY <2>1, <2>2
<1>. QED BY <1>3, <1>5, <1>6, <1>7

\* At the start nobody is registered.
LEMMA RegisteredInit == Init => Registered
<1>. SUFFICES ASSUME Init PROVE Registered
  OBVIOUS
<1>1. \A s \in SessionId : ~Live(s) /\ s \notin shardSessions
  BY DEF Init, Live
<1>2. \A s \in SessionId : ~Queued(s)
  BY Numbers DEF Init, Queued
<1>3. \A h \in Shard : \A i \in DOMAIN shardDeparted[h] : FALSE
  BY DEF Init
<1>. QED BY <1>1, <1>2, <1>3 DEF Init, Registered, Idle, NetIdle

\* Steps that leave the registration of sessions alone.
LEMMA RegisteredSame ==
  ASSUME Registered, UNCHANGED <<nextSession, player, sessions, shardSessions, shardDeparted>>,
         UNCHANGED net \/ (\A c \in SessionId : net'[c].step # "idle" =>
                              net'[c].on \in SessionId /\ net'[c].on < nextSession
                              /\ player[c] # NoSession),
         \/ UNCHANGED srv
         \/ srv' = Idle
         \/ srv'.step \in {"unregistered", "closed"}
         \/ srv'.step = "finalFlush" /\ srv'.on \in Shard
         \/ srv'.step = "quitRemove" /\ srv'.on \in SessionId /\ Live(srv'.on),
         srv.step # "joinShard" \/ UNCHANGED srv
  PROVE  Registered'
<1>1. \A s \in SessionId : (Live(s)' <=> Live(s)) /\ (Queued(s)' <=> Queued(s))
  BY DEF Live, Queued
<1>2. \A h \in Shard : \A i \in DOMAIN shardDeparted'[h] : ShardOf(shardDeparted'[h][i]) = h
  BY DEF Registered
<1>3. \A s \in SessionId : Live(s)' =>
        s \in shardSessions' \/ (srv'.on = s /\ srv'.step = "joinShard")
  BY <1>1 DEF Registered
<1>4. \A c \in SessionId : net'[c].step # "idle" =>
        net'[c].on \in SessionId /\ net'[c].on < nextSession' /\ player'[c] # NoSession
  BY DEF Registered
<1>5. CASE UNCHANGED srv
  BY <1>1, <1>2, <1>3, <1>4, <1>5 DEF Registered, Live
<1>6. CASE srv' = Idle \/ srv'.step \in {"unregistered", "closed"}
  BY <1>1, <1>2, <1>3, <1>4, <1>6 DEF Registered, Idle
<1>7. CASE srv'.step = "finalFlush" /\ srv'.on \in Shard
  BY <1>1, <1>2, <1>3, <1>4, <1>7 DEF Registered
<1>8. CASE srv'.step = "quitRemove" /\ srv'.on \in SessionId /\ Live(srv'.on)
  <2>1. Live(srv.on)'
    BY <1>8 DEF Live
  <2>. QED BY <1>1, <1>2, <1>3, <1>4, <1>8, <2>1 DEF Registered
<1>. QED BY <1>5, <1>6, <1>7, <1>8

\* Every step keeps the registration of sessions in order.
LEMMA RegisteredStep == IInv /\ Next /\ ~UNCHANGED core => Registered'
<1>. SUFFICES ASSUME IInv, Next, ~UNCHANGED core PROVE Registered'
  OBVIOUS
<1>1. Types /\ Registered /\ Fresh
  BY DEF IInv
<1>2. ASSUME NEW p \in Players, Join(p) PROVE Registered'
  <2>1. /\ nextSession \in SessionId /\ ~Live(nextSession) /\ nextSession' = nextSession + 1
        /\ \A s \in SessionId : Live(s)' <=> Live(s) \/ s = nextSession
        /\ srv'.step = "joinShard" /\ srv'.on = nextSession /\ srv = Idle
    BY <1>1, <1>2, LiveJoin DEF Join, At
  <2>2. Live(srv.on)'
    BY <2>1
  <2>3. \A q \in Players : sessions'[q] # NoSession =>
          sessions'[q] < nextSession' /\ player'[sessions'[q]] = q
    <3>1. /\ \A q \in Players \ {p} : sessions'[q] = sessions[q]
          /\ sessions'[p] = nextSession
          /\ player'[nextSession] = p
          /\ \A s \in SessionId \ {nextSession} : player'[s] = player[s]
      BY <1>1, <1>2, <2>1 DEF Join, Types
    <3>2. nextSession \in Nat
      BY <2>1, Numbers
    <3>3. ASSUME NEW q \in Players \ {p}, sessions[q] # NoSession
          PROVE  sessions[q] < nextSession /\ sessions[q] \in SessionId /\ player[sessions[q]] = q
      BY <1>1, <3>3 DEF Registered, Types, Working
    <3>4. ASSUME NEW q \in Players \ {p}, sessions[q] # NoSession
          PROVE  sessions[q] < nextSession + 1 /\ sessions[q] # nextSession
      <4>1. sessions[q] < nextSession /\ sessions[q] \in Nat
        BY <3>3, <3>4, Numbers
      <4>. QED BY <3>2, <4>1
    <3>5. ASSUME NEW q \in Players, sessions'[q] # NoSession
          PROVE  sessions'[q] < nextSession + 1 /\ player'[sessions'[q]] = q
      <4>1. CASE q = p
        BY <3>1, <3>2, <4>1
      <4>2. CASE q # p
        BY <3>1, <3>3, <3>4, <3>5, <4>2
      <4>. QED BY <4>1, <4>2
    <3>. QED BY <2>1, <3>5
  <2>4. \A s \in SessionId : /\ Queued(s)' <=> Queued(s)
                             /\ s \in shardSessions' <=> s \in shardSessions
                             /\ Queued(s) \/ s \in shardSessions => s < nextSession
    BY <1>1, <1>2 DEF Join, Queued, Registered
  <2>5. \A s \in SessionId : s \in shardSessions' \/ Queued(s)' => s < nextSession'
    BY <2>1, <2>4, Numbers
  <2>6. \A s \in SessionId : Queued(s)' => ~Live(s)'
    BY <1>1, <2>1, <2>4, Numbers DEF Registered
  <2>7. \A s \in SessionId : Live(s)' =>
          s \in shardSessions' \/ (srv'.on = s /\ srv'.step = "joinShard")
    BY <1>1, <2>1, <2>4 DEF Registered, Idle
  <2>8. \A h \in Shard : \A i \in DOMAIN shardDeparted'[h] : ShardOf(shardDeparted'[h][i]) = h
    BY <1>1, <1>2 DEF Join, Registered
  <2>9. \A c \in SessionId : net'[c].step # "idle" =>
          net'[c].on \in SessionId /\ net'[c].on < nextSession' /\ player'[c] # NoSession
    <3>1. net' = net /\ player' = [player EXCEPT ![nextSession] = p]
      BY <1>2 DEF Join
    <3>2. \A c \in SessionId : player[c] # NoSession => player'[c] # NoSession
      BY <1>1, <2>1, <3>1, Numbers DEF Types
    <3>3. \A s \in SessionId : s < nextSession => s < nextSession + 1
      BY <2>1, Numbers
    <3>. QED BY <1>1, <2>1, <3>1, <3>2, <3>3 DEF Registered
  <2>. QED BY <2>1, <2>2, <2>3, <2>5, <2>6, <2>7, <2>8, <2>9 DEF Registered
<1>3. CASE JoinShard
  <2>1. /\ srv.on \in SessionId /\ Live(srv.on) /\ srv.step = "joinShard"
        /\ srv'.step = "joinStart" /\ srv'.on = srv.on
        /\ shardSessions' = shardSessions \cup {srv.on}
        /\ UNCHANGED <<nextSession, player, sessions, shardDeparted, net>>
    BY <1>1, <1>3 DEF JoinShard, Registered, At
  <2>2. \A s \in SessionId : (Live(s)' <=> Live(s)) /\ (Queued(s)' <=> Queued(s))
    BY <2>1 DEF Live, Queued
  <2>3. srv.on < nextSession
    <3>1. player[srv.on] \in Players /\ sessions[player[srv.on]] = srv.on
      BY <1>1, <2>1 DEF Live, Types
    <3>. QED BY <1>1, <2>1, <3>1, Numbers DEF Registered
  <2>4. \A h \in Shard : \A i \in DOMAIN shardDeparted'[h] : ShardOf(shardDeparted'[h][i]) = h
    BY <1>1, <2>1 DEF Registered
  <2>5. Live(srv.on)'
    BY <2>1, <2>2 DEF Live
  <2>. QED BY <1>1, <2>1, <2>2, <2>3, <2>4, <2>5 DEF Registered
<1>4. CASE JoinStart
  BY <1>1, <1>4, RegisteredSame DEF JoinStart, regVars
<1>5. ASSUME NEW p \in Players, ServerEvent(p) PROVE Registered'
  BY <1>1, <1>5, RegisteredSame DEF ServerEvent, regVars
<1>6. ASSUME NEW p \in Players, Quit(p) PROVE Registered'
  <2>1. /\ srv = Idle /\ srv'.step = "quitRemove" /\ srv'.on = sessions[p]
        /\ UNCHANGED <<nextSession, player, sessions, shardSessions, shardDeparted, net>>
        /\ sessions[p] \in SessionId
    BY <1>1, <1>6 DEF Quit, At, Types, Working, regVars
  <2>2. Live(srv'.on)
    BY <1>1, <2>1, Numbers DEF Registered, Live
  <2>. QED BY <1>1, <2>1, <2>2, RegisteredSame DEF Idle
<1>7. CASE Retire
  <2>1. /\ srv.on \in SessionId /\ srv.on < nextSession
        /\ srv.step \in {"quitRemove", "quitCount"}
        /\ srv'.on = srv.on /\ srv'.step \in {"quitCount", "quitShard"}
        /\ \A s \in SessionId : Live(s)' <=> Live(s) /\ s # srv.on
        /\ \A p \in Players : sessions'[p] \in {sessions[p], NoSession}
    BY <1>1, <1>7, LiveRetire DEF At, Retire, RemoveThenCount
  <2>2. UNCHANGED <<nextSession, player, shardSessions, shardDeparted, net>>
    BY <1>7 DEF Retire
  <2>3. \A s \in SessionId : Queued(s)' <=> Queued(s)
    BY <2>2 DEF Queued
  <2>4. \A h \in Shard : \A i \in DOMAIN shardDeparted'[h] : ShardOf(shardDeparted'[h][i]) = h
    BY <1>1, <2>2 DEF Registered
  <2>5. ~Live(srv.on)'
    <3>1. \A s \in SessionId : s = srv.on => ~Live(s)'
      BY <2>1
    <3>. QED BY <2>1, <3>1 DEF Live
  <2>. QED BY <1>1, <2>1, <2>2, <2>3, <2>4, <2>5 DEF Registered
<1>8. CASE QuitShard
  <2>1. /\ srv.on \in SessionId /\ ~Live(srv.on) /\ srv.step = "quitShard"
        /\ srv.on < nextSession
        /\ srv'.step = "quitHandOff" /\ srv'.on = srv.on
        /\ shardSessions' = shardSessions \ {srv.on}
        /\ UNCHANGED <<nextSession, player, sessions, shardDeparted, net>>
    BY <1>1, <1>8 DEF QuitShard, Registered, At
  <2>2. \A s \in SessionId : (Live(s)' <=> Live(s)) /\ (Queued(s)' <=> Queued(s))
    BY <2>1 DEF Live, Queued
  <2>3. \A h \in Shard : \A i \in DOMAIN shardDeparted'[h] : ShardOf(shardDeparted'[h][i]) = h
    BY <1>1, <2>1 DEF Registered
  <2>4. ~Live(srv.on)'
    BY <2>1 DEF Live
  <2>. QED BY <1>1, <2>1, <2>2, <2>3, <2>4 DEF Registered
<1>9. CASE QuitHandOff
  <2>1. /\ srv.on \in SessionId /\ ~Live(srv.on) /\ srv.step = "quitHandOff"
        /\ srv.on < nextSession /\ srv' = Idle
        /\ UNCHANGED <<nextSession, player, sessions, shardSessions, net>>
    BY <1>1, <1>9 DEF QuitHandOff, Registered
  <2>2. /\ \A s \in SessionId : Queued(s)' <=> Queued(s) \/ s = srv.on
        /\ \A h \in Shard : \A i \in DOMAIN shardDeparted'[h] : ShardOf(shardDeparted'[h][i]) = h
    BY <1>1, <1>9, QueuedHandOff
  <2>3. \A s \in SessionId : Live(s)' <=> Live(s)
    BY <2>1 DEF Live
  <2>. QED BY <1>1, <2>1, <2>2, <2>3 DEF Registered, Idle
<1>10. CASE FinalFlush \/ Disable
  <2>1. /\ \/ srv'.step = "unregistered"
           \/ srv'.step = "finalFlush" /\ srv'.on \in Shard
        /\ srv.step # "joinShard"
        /\ UNCHANGED <<nextSession, player, sessions, shardSessions, shardDeparted, net>>
    <3>1. CASE FinalFlush
      BY <3>1, Numbers DEF FinalFlush, At, regVars
    <3>2. CASE Disable
      <4>1. srv'.step = "unregistered" /\ srv.step = "idle"
        BY <3>2 DEF Disable, At, Idle
      <4>. QED BY <3>2, <4>1 DEF Disable, regVars
    <3>. QED BY <1>10, <3>1, <3>2
  <2>. QED BY <1>1, <2>1, RegisteredSame
<1>11. ASSUME NEW c \in SessionId, Receive(c) PROVE Registered'
  <2>1. /\ Live(c) /\ UNCHANGED <<nextSession, player, sessions, shardSessions, shardDeparted, srv>>
        /\ net' = [net EXCEPT ![c] = [step |-> "record", on |-> c, event |-> events]]
    BY <1>11 DEF Receive, regVars
  <2>2. c < nextSession /\ player[c] # NoSession
    <3>1. player[c] \in Players /\ player[c] # NoSession /\ sessions[player[c]] = c /\ c # NoSession
      BY <1>1, <2>1, Numbers DEF Live, Types
    <3>. QED BY <1>1, <3>1 DEF Registered
  <2>3. \A d \in SessionId : net'[d].step # "idle" =>
          net'[d].on \in SessionId /\ net'[d].on < nextSession /\ player[d] # NoSession
    BY <1>1, <2>1, <2>2 DEF Types, Registered
  <2>. QED BY <1>1, <2>1, <2>3, RegisteredSame
<1>12. ASSUME NEW c \in SessionId, FindSession(c) PROVE Registered'
  <2>1. /\ UNCHANGED <<nextSession, player, sessions, shardSessions, shardDeparted, srv>>
        /\ net[c].step = "record"
        /\ \/ net' = [net EXCEPT ![c] = NetIdle]
           \/ /\ sessions[player[c]] # NoSession
              /\ net' = [net EXCEPT ![c].step = "publish", ![c].on = sessions[player[c]]]
    BY <1>12 DEF FindSession, regVars
  <2>4. player[c] \in Players
    BY <1>1, <2>1 DEF Registered, Types
  <2>2. sessions[player[c]] # NoSession =>
          sessions[player[c]] \in SessionId /\ sessions[player[c]] < nextSession
    BY <1>1, <2>4 DEF Types, Registered, Working
  <2>3. ASSUME NEW d \in SessionId, net'[d].step # "idle"
        PROVE  net'[d].on \in SessionId /\ net'[d].on < nextSession /\ player[d] # NoSession
    <3>1. CASE d # c
      <4>1. net'[d] = net[d]
        BY <1>1, <2>1, <3>1 DEF Types
      <4>. QED BY <1>1, <2>3, <4>1 DEF Registered
    <3>2. CASE d = c
      <4>1. net'[d].on = sessions[player[c]] /\ sessions[player[c]] # NoSession
        BY <1>1, <2>1, <2>3, <3>2 DEF Types, NetIdle
      <4>. QED BY <2>2, <2>4, <3>2, <4>1, Numbers
    <3>. QED BY <3>1, <3>2
  <2>. QED BY <1>1, <2>1, <2>3, RegisteredSame
<1>13. ASSUME NEW c \in SessionId, PublishPacket(c) PROVE Registered'
  <2>1. /\ UNCHANGED <<nextSession, player, sessions, shardSessions, shardDeparted, srv>>
        /\ net' = [net EXCEPT ![c] = NetIdle]
    BY <1>13 DEF PublishPacket, regVars
  <2>2. \A d \in SessionId : net'[d].step # "idle" =>
          net'[d].on \in SessionId /\ net'[d].on < nextSession /\ player[d] # NoSession
    BY <1>1, <2>1 DEF Types, Registered, NetIdle
  <2>. QED BY <1>1, <2>1, <2>2, RegisteredSame
<1>14. ASSUME NEW f \in Flusher,
              \/ FlushBegin(f) \/ VisitActive(f) \/ Release(f) \/ EndActive(f)
              \/ EndFlushWithStats(f)
       PROVE  Registered'
  <2>1. UNCHANGED <<nextSession, player, sessions, shardSessions, shardDeparted, srv, net>>
    BY <1>14 DEF FlushBegin, VisitActive, Release, EndActive, EndFlushWithStats, regVars
  <2>. QED BY <1>1, <2>1, RegisteredSame
<1>15. ASSUME NEW f \in Flusher, PollDeparted(f) PROVE Registered'
  <2>1. /\ \A s \in SessionId : Queued(s)' => Queued(s)
        /\ \A h \in Shard : \A i \in DOMAIN shardDeparted'[h] : ShardOf(shardDeparted'[h][i]) = h
    BY <1>1, <1>15, QueuedPoll
  <2>2. UNCHANGED <<nextSession, player, sessions, shardSessions, srv, net>>
    BY <1>15 DEF PollDeparted
  <2>3. /\ \A s \in SessionId : Live(s)' <=> Live(s)
        /\ Live(srv.on)' <=> Live(srv.on)
    BY <2>2 DEF Live
  <2>. QED BY <1>1, <2>1, <2>2, <2>3 DEF Registered
<1>16. ASSUME NEW f \in Flusher, EndFlush(f) \/ LogStats(f) PROVE Registered'
  <2>1. /\ UNCHANGED <<nextSession, player, sessions, shardSessions, shardDeparted, net>>
        /\ \/ UNCHANGED srv
           \/ srv'.step = "closed"
           \/ srv'.step = "finalFlush" /\ srv'.on \in Shard
    BY <1>16 DEF EndFlush, LogStats, Return, regVars, At
  <2>2. srv.step # "joinShard" \/ UNCHANGED srv
    <3>1. CASE f[2] = "pool"
      BY <1>16, <3>1 DEF EndFlush, LogStats, Return
    <3>2. CASE f[2] # "pool"
      <4>1. f[2] = "final" /\ flush[f].step # "idle"
        BY <1>16, <3>2, TwoFlushers DEF EndFlush, LogStats
      <4>2. srv.step = "finalFlush"
        BY <4>1 DEF IInv, Final, Finishing
      <4>. QED BY <4>2
    <3>. QED BY <3>1, <3>2
  <2>. QED BY <1>1, <2>1, <2>2, RegisteredSame
<1>17. \A f \in Flusher : ~VisitLive(f)
  BY DEF VisitLive
<1>. QED BY <1>2, <1>3, <1>4, <1>5, <1>6, <1>7, <1>8, <1>9, <1>10, <1>11, <1>12, <1>13, <1>14,
            <1>15, <1>16, <1>17 DEF Next, Server, Netty, Flush
-----------------------------------------------------------------------------
(* What is published was never published before *)

\* An offered event is the only one that can become used, ...
LEMMA UsedOffered ==
  ASSUME Types, NEW s \in SessionId, NEW l \in Lane, NEW e \in EventId, Enqueue(s, l, e),
         UNCHANGED flushVars
  PROVE  \A x \in EventId : Used(x)' => Used(x) \/ x = e
<1>1. \A u \in SessionId : Contents(u)' \subseteq Contents(u) \cup {e}
  BY Offered
<1>2. UNCHANGED <<frame, written, failed>>
  BY DEF flushVars
<1>. QED BY <1>1, <1>2 DEF Used

\* ... what stays in the rings, the frames and the files makes none, ...
LEMMA UsedSame ==
  ASSUME UNCHANGED <<ring, frame, written, failed>>
  PROVE  \A x \in EventId : Used(x)' <=> Used(x)
<1>1. \A u \in SessionId : Contents(u)' = Contents(u)
  BY DEF Contents
<1>. QED BY <1>1 DEF Used

\* ... and a release only takes events out of the ring it holds.
LEMMA ReleaseTakes ==
  ASSUME Types, NEW f \in Flusher, Release(f)
  PROVE  \E h \in flush[f].on :
           /\ h[1] \in SessionId
           /\ \A u \in SessionId : u # h[1] => Contents(u)' = Contents(u)
           /\ \A u \in SessionId : u = h[1] => Contents(u)' = Contents(u) \ h[2]
<1>1. PICK h \in flush[f].on : ring' = [ring EXCEPT ![h[1]] = [l \in Lane |-> @[l] \ h[2]]]
  BY DEF Release
<1>2. h[1] \in SessionId
  BY <1>1 DEF Types, FlushRec
<1>3. \A u \in SessionId : u # h[1] => Contents(u)' = Contents(u)
  BY <1>1 DEF Types, Contents
<1>4. ASSUME NEW u \in SessionId, u = h[1] PROVE Contents(u)' = Contents(u) \ h[2]
  <2>1. \A l \in Lane : ring'[u][l] = ring[u][l] \ h[2]
    BY <1>1, <1>2, <1>4 DEF Types
  <2>. QED BY <2>1 DEF Contents, Lane
<1>. QED BY <1>1, <1>2, <1>3, <1>4

\* A flush uses no event that was not used before: it only moves events
\* from the rings to a frame and from the frame to a file.
LEMMA UsedFlush ==
  ASSUME Types, NEW f \in Flusher, Flush(f)
  PROVE  \A x \in EventId : Used(x)' => Used(x)
<1>1. CASE FlushBegin(f)
  <2>1. /\ UNCHANGED <<ring, written, failed>>
        /\ \A g \in Flusher : frame'[g] \subseteq frame[g]
    BY <1>1 DEF FlushBegin, Types
  <2>2. \A u \in SessionId : Contents(u)' = Contents(u)
    BY <2>1 DEF Contents
  <2>. QED BY <2>1, <2>2 DEF Used
<1>2. CASE VisitActive(f) \/ PollDeparted(f)
  <2>1. /\ UNCHANGED <<ring, written, failed>>
        /\ \E s \in SessionId :
             frame' = frame \/ frame' = [frame EXCEPT ![f] = @ \cup Contents(s)]
    <3>1. CASE VisitActive(f)
      <4>1. PICK s \in (flush[f].must \cup {u \in shardSessions : ShardOf(u) = f[1]})
                      \ flush[f].seen :
              Encode(f, s, "releaseActive")
        BY <3>1 DEF VisitActive
      <4>2. s \in SessionId
        BY <4>1 DEF Types, FlushRec
      <4>. QED BY <3>1, <4>1, <4>2 DEF VisitActive, Encode
    <3>2. CASE PollDeparted(f)
      <4>1. shardDeparted[f[1]] \in Seq(SessionId) /\ shardDeparted[f[1]] # <<>>
        BY <3>2, TwoFlushers DEF Types, PollDeparted
      <4>2. Head(shardDeparted[f[1]]) \in SessionId
        BY <4>1
      <4>. QED BY <3>2, <4>2 DEF PollDeparted, Encode
    <3>. QED BY <1>2, <3>1, <3>2
  <2>2. PICK s \in SessionId :
          frame' = frame \/ frame' = [frame EXCEPT ![f] = @ \cup Contents(s)]
    BY <2>1
  <2>3. \A g \in Flusher : frame'[g] \subseteq frame[g] \cup Contents(s)
    BY <2>2 DEF Types
  <2>4. \A u \in SessionId : Contents(u)' = Contents(u)
    BY <2>1 DEF Contents
  <2>. QED BY <2>1, <2>3, <2>4 DEF Used
<1>3. CASE Release(f)
  <2>1. \A u \in SessionId : Contents(u)' \subseteq Contents(u)
    BY <1>3, ReleaseTakes
  <2>2. UNCHANGED <<frame, written, failed>>
    BY <1>3 DEF Release
  <2>. QED BY <2>1, <2>2 DEF Used
<1>4. CASE EndActive(f)
  BY <1>4, UsedSame DEF EndActive
<1>5. CASE EndFlush(f) \/ EndFlushWithStats(f)
  <2>1. /\ UNCHANGED ring
        /\ written' \cup failed' \subseteq written \cup failed \cup frame[f]
        /\ \A g \in Flusher : frame'[g] \subseteq frame[g]
    BY <1>5 DEF EndFlush, EndFlushWithStats, Types
  <2>2. \A u \in SessionId : Contents(u)' = Contents(u)
    BY <2>1 DEF Contents
  <2>. QED BY <2>1, <2>2 DEF Used
<1>6. CASE VisitLive(f) \/ LogStats(f)
  BY <1>6, UsedSame DEF VisitLive, LogStats, core, flushVars
<1>. QED BY <1>1, <1>2, <1>3, <1>4, <1>5, <1>6 DEF Flush

\* Steps that publish nothing and promise nothing new to publish.
LEMMA FreshKept ==
  ASSUME Types, Registered, Fresh, \A x \in EventId : Used(x)' => Used(x),
         nextSession' \in Nat, nextSession <= nextSession', UNCHANGED events,
         srv'.step \in {"joinShard", "joinStart"} =>
           srv.step \in {"joinShard", "joinStart"} /\ srv'.on = srv.on,
         \A s \in SessionId : Live(s)' /\ ~(srv'.on = s /\ srv'.step = "quitRemove") =>
           Live(s) /\ ~(srv.on = s /\ srv.step = "quitRemove"),
         \A c \in SessionId : net'[c].step # "idle" =>
           net[c].step # "idle" /\ net'[c].event = net[c].event
  PROVE  Fresh'
<1>1. \A x \in EventId : Used(x)' =>
        x[1] < nextSession' /\ (x[2] \in {"main", "packet"} => x[3] < events')
  <2>1. ASSUME NEW x \in EventId, Used(x)
        PROVE  x[1] < nextSession'
    <3>1. x[1] < nextSession
      BY <2>1 DEF Fresh
    <3>2. x[1] \in Nat
      BY Numbers DEF EventId
    <3>3. nextSession \in Nat
      BY PipelineAssumption DEF Types
    <3>. QED BY <3>1, <3>2, <3>3
  <2>. QED BY <2>1 DEF Fresh
<1>2. \A s \in SessionId : srv'.on = s /\ srv'.step \in {"joinShard", "joinStart"} =>
        ~Used(<<s, "start", 0>>)'
  BY PipelineAssumption DEF Fresh, EventId
<1>3. \A s \in SessionId : Live(s)' /\ ~(srv'.on = s /\ srv'.step = "quitRemove") =>
        ~Used(<<s, "end", 0>>)'
  BY PipelineAssumption DEF Fresh, EventId
<1>4. ASSUME NEW c \in SessionId, net'[c].step # "idle"
      PROVE  /\ net'[c].event < events'
             /\ \A s \in SessionId, i \in 0 .. MaxEvents :
                  net'[c].event = i => ~Used(<<s, "packet", i>>)'
             /\ \A d \in SessionId \ {c} : net'[d].step # "idle" => net'[d].event # net'[c].event
  <2>1. \A s \in SessionId, i \in 0 .. MaxEvents : <<s, "packet", i>> \in EventId
    BY DEF EventId
  <2>. QED BY <1>4, <2>1 DEF Fresh
<1>. QED BY <1>1, <1>2, <1>3, <1>4 DEF Fresh

\* At the start nothing has been published.
LEMMA FreshInit == Init => Fresh
<1>. SUFFICES ASSUME Init PROVE Fresh
  OBVIOUS
<1>1. \A e \in EventId : ~Used(e)
  BY DEF Init, Used, Contents, Lane
<1>2. \A s \in SessionId : ~Live(s)
  BY DEF Init, Live
<1>. QED BY <1>1, <1>2 DEF Init, Fresh, Idle, NetIdle

\* Every step keeps what is still to be published unpublished.
LEMMA FreshStep == IInv /\ Next /\ ~UNCHANGED core => Fresh'
<1>. SUFFICES ASSUME IInv, Next, ~UNCHANGED core PROVE Fresh'
  OBVIOUS
<1>1. /\ Types /\ Registered /\ Fresh
      /\ nextSession \in Nat /\ events \in Nat
  BY PipelineAssumption DEF IInv, Types
<1>2. ASSUME NEW p \in Players, Join(p) PROVE Fresh'
  <2>1. /\ nextSession \in SessionId /\ nextSession \in Nat
        /\ \A s \in SessionId : Live(s)' <=> Live(s) \/ s = nextSession
    BY <1>1, <1>2, LiveJoin, Numbers
  <2>2. /\ nextSession' = nextSession + 1 /\ srv = Idle
        /\ srv'.step = "joinShard" /\ srv'.on = nextSession
        /\ UNCHANGED <<ring, frame, written, failed, net, events>>
    BY <1>2 DEF Join, At, countVars, flushVars
  <2>3. \A x \in EventId : Used(x)' <=> Used(x)
    BY <2>2, UsedSame
  <2>4. \A x \in EventId : x[1] = nextSession => ~Used(x)
    BY <1>1, <2>1 DEF Fresh
  <2>5. \A x \in EventId : Used(x) => x[1] < nextSession'
    <3>1. ASSUME NEW x \in EventId, Used(x) PROVE x[1] < nextSession'
      <4>1. x[1] < nextSession /\ x[1] \in Nat
        BY <1>1, <3>1, Numbers DEF Fresh, EventId
      <4>. QED BY <2>1, <2>2, <4>1
    <3>. QED BY <3>1
  <2>6. \A s \in SessionId :
          /\ <<s, "start", 0>> \in EventId /\ <<s, "end", 0>> \in EventId
          /\ \A i \in 0 .. MaxEvents : <<s, "packet", i>> \in EventId
          /\ <<s, "start", 0>>[1] = s /\ <<s, "end", 0>>[1] = s
    BY PipelineAssumption DEF EventId
  <2>7. \A s \in SessionId : srv'.on = s /\ srv'.step \in {"joinShard", "joinStart"} =>
          ~Used(<<s, "start", 0>>)'
    BY <2>2, <2>3, <2>4, <2>6
  <2>8. \A s \in SessionId : Live(s)' /\ ~(srv'.on = s /\ srv'.step = "quitRemove") =>
          ~Used(<<s, "end", 0>>)'
    <3>1. ASSUME NEW s \in SessionId, Live(s)' PROVE ~Used(<<s, "end", 0>>)
      <4>1. CASE s = nextSession
        BY <2>4, <2>6, <4>1
      <4>2. CASE s # nextSession
        BY <1>1, <2>1, <2>2, <3>1, <4>2 DEF Fresh, Idle
      <4>. QED BY <4>1, <4>2
    <3>2. \A s \in SessionId : ~Used(<<s, "end", 0>>) => ~Used(<<s, "end", 0>>)'
      BY <2>3, <2>6
    <3>. QED BY <3>1, <3>2
  <2>. QED BY <1>1, <2>2, <2>3, <2>5, <2>6, <2>7, <2>8 DEF Fresh
<1>3. CASE JoinShard
  <2>1. /\ UNCHANGED <<ring, frame, written, failed, net, events, nextSession, player, sessions>>
        /\ srv.step = "joinShard" /\ srv'.step = "joinStart" /\ srv'.on = srv.on
    BY <1>3 DEF JoinShard, At, countVars, flushVars
  <2>2. \A s \in SessionId : Live(s)' <=> Live(s)
    BY <2>1 DEF Live
  <2>. QED BY <1>1, <2>1, <2>2, UsedSame, FreshKept
<1>4. CASE JoinStart
  <2>1. srv.on \in SessionId /\ "main" \in Lane /\ Live(srv.on) /\ srv.step = "joinStart"
    BY <1>1, <1>4 DEF JoinStart, Registered, Lane
  <2>. DEFINE e == <<srv.on, "start", 0>>
  <2>2. e \in EventId /\ e[1] = srv.on /\ e[2] = "start"
    BY <2>1, PipelineAssumption DEF EventId
  <2>3. /\ Enqueue(srv.on, "main", e) /\ srv' = Idle
        /\ UNCHANGED <<net, events, nextSession, player, sessions, flushVars>>
    BY <1>4 DEF JoinStart, regVars
  <2>4. \A x \in EventId : Used(x)' => Used(x) \/ x = e
    BY <1>1, <2>1, <2>2, <2>3, UsedOffered
  <2>5. srv.on < nextSession
    BY <1>1, <2>1, Numbers DEF Registered, Live, Types
  <2>6. \A s \in SessionId :
          /\ <<s, "end", 0>> \in EventId /\ <<s, "end", 0>> # e
          /\ \A i \in 0 .. MaxEvents : <<s, "packet", i>> \in EventId /\ <<s, "packet", i>> # e
    BY PipelineAssumption DEF EventId
  <2>7. \A s \in SessionId : Live(s)' <=> Live(s)
    BY <2>3 DEF Live
  <2>8. \A x \in EventId : Used(x)' =>
          x[1] < nextSession /\ (x[2] \in {"main", "packet"} => x[3] < events)
    BY <1>1, <2>2, <2>4, <2>5 DEF Fresh
  <2>9. \A s \in SessionId : Live(s) => ~Used(<<s, "end", 0>>)'
    <3>1. \A s \in SessionId : Live(s) => ~Used(<<s, "end", 0>>)
      BY <1>1, <2>1 DEF Fresh
    <3>. HIDE DEF e
    <3>. QED BY <2>4, <2>6, <3>1
  <2>10. \A c \in SessionId : net[c].step # "idle" =>
          \A s \in SessionId, i \in 0 .. MaxEvents : net[c].event = i => ~Used(<<s, "packet", i>>)'
    BY <1>1, <2>4, <2>6 DEF Fresh
  <2>. HIDE DEF e
  <2>. QED BY <1>1, <2>3, <2>7, <2>8, <2>9, <2>10 DEF Fresh, Idle
<1>5. ASSUME NEW p \in Players, ServerEvent(p) PROVE Fresh'
  <2>1. sessions[p] \in SessionId /\ "main" \in Lane /\ srv = Idle /\ sessions[p] < nextSession
        /\ events \in 0 .. MaxEvents
    BY <1>1, <1>5 DEF ServerEvent, Registered, Lane, Types, Working
  <2>. DEFINE e == <<sessions[p], "main", events>>
  <2>2. e \in EventId /\ e[1] = sessions[p] /\ e[3] = events
    BY <2>1 DEF EventId
  <2>3. /\ Enqueue(sessions[p], "main", e) /\ events' = events + 1
        /\ UNCHANGED <<net, srv, nextSession, player, sessions, flushVars>>
    BY <1>5 DEF ServerEvent, regVars
  <2>4. \A x \in EventId : Used(x)' => Used(x) \/ x = e
    BY <1>1, <2>1, <2>2, <2>3, UsedOffered
  <2>6. \A s \in SessionId :
          /\ <<s, "end", 0>> \in EventId /\ <<s, "end", 0>> # e
          /\ \A i \in 0 .. MaxEvents : <<s, "packet", i>> \in EventId /\ <<s, "packet", i>> # e
    BY PipelineAssumption DEF EventId
  <2>7. \A s \in SessionId : Live(s)' <=> Live(s)
    BY <2>3 DEF Live
  <2>8. \A x \in EventId : Used(x)' =>
          x[1] < nextSession /\ (x[2] \in {"main", "packet"} => x[3] < events + 1)
    <3>1. ASSUME NEW x \in EventId, Used(x), x[2] \in {"main", "packet"} PROVE x[3] < events + 1
      <4>1. x[3] \in Nat /\ x[3] < events
        BY <1>1, <3>1 DEF Fresh, EventId
      <4>. QED BY <1>1, <4>1
    <3>2. events < events + 1
      BY <1>1
    <3>. QED BY <1>1, <2>1, <2>2, <2>4, <3>1, <3>2 DEF Fresh
  <2>9. \A s \in SessionId : Live(s) => ~Used(<<s, "end", 0>>)'
    BY <1>1, <2>1, <2>4, <2>6 DEF Fresh, Idle
  <2>10. \A c \in SessionId : net[c].step # "idle" =>
           /\ net[c].event < events + 1
           /\ \A s \in SessionId, i \in 0 .. MaxEvents :
                net[c].event = i => ~Used(<<s, "packet", i>>)'
    <3>1. \A c \in SessionId : net[c].step # "idle" => net[c].event < events + 1
      <4>1. ASSUME NEW c \in SessionId, net[c].step # "idle" PROVE net[c].event < events + 1
        <5>1. net[c].event < events /\ net[c].event \in Nat
          BY <1>1, <4>1 DEF Fresh, Types
        <5>. QED BY <1>1, <5>1
      <4>. QED BY <4>1
    <3>. QED BY <1>1, <2>4, <2>6, <3>1 DEF Fresh
  <2>. HIDE DEF e
  <2>. QED BY <1>1, <2>1, <2>3, <2>7, <2>8, <2>9, <2>10 DEF Fresh, Idle
<1>6. ASSUME NEW p \in Players, Quit(p) PROVE Fresh'
  <2>1. /\ sessions[p] \in SessionId /\ "main" \in Lane /\ srv = Idle
        /\ sessions[p] < nextSession /\ player[sessions[p]] = p
    BY <1>1, <1>6 DEF Quit, Registered, Lane, Types, Working
  <2>. DEFINE e == <<sessions[p], "end", 0>>
  <2>2. e \in EventId /\ e[1] = sessions[p] /\ e[2] = "end"
    BY <2>1, PipelineAssumption DEF EventId
  <2>3. /\ Enqueue(sessions[p], "main", e) /\ srv'.step = "quitRemove" /\ srv'.on = sessions[p]
        /\ UNCHANGED <<net, events, nextSession, player, sessions, flushVars>>
    BY <1>6 DEF Quit, At, regVars
  <2>4. \A x \in EventId : Used(x)' => Used(x) \/ x = e
    BY <1>1, <2>1, <2>2, <2>3, UsedOffered
  <2>6. \A s \in SessionId :
          /\ <<s, "end", 0>> \in EventId /\ (<<s, "end", 0>> = e => s = sessions[p])
          /\ \A i \in 0 .. MaxEvents : <<s, "packet", i>> \in EventId /\ <<s, "packet", i>> # e
    BY PipelineAssumption DEF EventId
  <2>7. \A s \in SessionId : Live(s)' <=> Live(s)
    BY <2>3 DEF Live
  <2>8. \A x \in EventId : Used(x)' =>
          x[1] < nextSession /\ (x[2] \in {"main", "packet"} => x[3] < events)
    BY <1>1, <2>1, <2>2, <2>4 DEF Fresh
  <2>9. \A s \in SessionId : Live(s) /\ s # sessions[p] => ~Used(<<s, "end", 0>>)'
    <3>1. \A s \in SessionId : Live(s) => ~Used(<<s, "end", 0>>)
      BY <1>1, <2>1 DEF Fresh, Idle
    <3>. HIDE DEF e
    <3>. QED BY <2>4, <2>6, <3>1
  <2>10. \A c \in SessionId : net[c].step # "idle" =>
          \A s \in SessionId, i \in 0 .. MaxEvents : net[c].event = i => ~Used(<<s, "packet", i>>)'
    BY <1>1, <2>4, <2>6 DEF Fresh
  <2>. HIDE DEF e
  <2>. QED BY <1>1, <2>3, <2>7, <2>8, <2>9, <2>10 DEF Fresh, Idle
<1>7. CASE Retire
  <2>1. /\ UNCHANGED <<ring, frame, written, failed, net, events, nextSession>>
        /\ srv'.step \in {"quitCount", "quitShard"} /\ srv'.on = srv.on
        /\ \A s \in SessionId : Live(s)' <=> Live(s) /\ s # srv.on
    BY <1>1, <1>7, LiveRetire DEF Retire, At, flushVars
  <2>. QED BY <1>1, <2>1, UsedSame, FreshKept
<1>8. CASE QuitShard \/ QuitHandOff \/ FinalFlush \/ Disable
  <2>1. /\ UNCHANGED <<ring, frame, written, failed, net, events, nextSession, player, sessions>>
        /\ srv'.step \in {"idle", "quitHandOff", "unregistered", "finalFlush"}
        /\ srv.step # "quitRemove"
    BY <1>8 DEF QuitShard, QuitHandOff, FinalFlush, Disable, At, Idle, regVars, countVars,
                flushVars
  <2>2. \A s \in SessionId : Live(s)' <=> Live(s)
    BY <2>1 DEF Live
  <2>. QED BY <1>1, <2>1, <2>2, UsedSame, FreshKept
<1>9. ASSUME NEW c \in SessionId, Receive(c) PROVE Fresh'
  <2>1. /\ UNCHANGED <<ring, frame, written, failed, srv, nextSession, player, sessions>>
        /\ events' = events + 1
        /\ net' = [net EXCEPT ![c] = [step |-> "record", on |-> c, event |-> events]]
    BY <1>9 DEF Receive, regVars, flushVars
  <2>2. \A x \in EventId : Used(x)' <=> Used(x)
    BY <2>1, UsedSame
  <2>3. \A s \in SessionId : Live(s)' <=> Live(s)
    BY <2>1 DEF Live
  <2>4. \A s \in SessionId :
          /\ <<s, "start", 0>> \in EventId /\ <<s, "end", 0>> \in EventId
          /\ \A i \in 0 .. MaxEvents : <<s, "packet", i>> \in EventId
    BY PipelineAssumption DEF EventId
  <2>5. \A x \in EventId : Used(x) /\ x[2] \in {"main", "packet"} => x[3] < events + 1
    <3>1. ASSUME NEW x \in EventId, Used(x), x[2] \in {"main", "packet"} PROVE x[3] < events + 1
      <4>1. x[3] \in Nat /\ x[3] < events
        BY <1>1, <3>1 DEF Fresh, EventId
      <4>. QED BY <1>1, <4>1
    <3>. QED BY <3>1
  <2>6. ASSUME NEW d \in SessionId, net'[d].step # "idle"
        PROVE  /\ net'[d].event < events + 1
               /\ \A s \in SessionId, i \in 0 .. MaxEvents :
                    net'[d].event = i => ~Used(<<s, "packet", i>>)
               /\ d = c => net'[d].event = events
               /\ d # c => net'[d] = net[d] /\ net[d].event < events /\ net[d].event \in Nat
    <3>1. CASE d = c
      <4>1. net'[d].event = events
        BY <1>1, <2>1, <3>1 DEF Types
      <4>2. \A s \in SessionId, i \in 0 .. MaxEvents : i = events => ~Used(<<s, "packet", i>>)
        <5>1. ASSUME NEW s \in SessionId, NEW i \in 0 .. MaxEvents, i = events,
                     Used(<<s, "packet", i>>)
              PROVE FALSE
          <6>1. i < events
            BY <1>1, <2>4, <5>1 DEF Fresh
          <6>. QED BY <1>1, <5>1, <6>1
        <5>. QED BY <5>1
      <4>. QED BY <1>1, <3>1, <4>1, <4>2
    <3>2. CASE d # c
      <4>1. net'[d] = net[d]
        BY <1>1, <2>1, <3>2 DEF Types
      <4>2. net[d].event < events /\ net[d].event \in Nat
        BY <1>1, <2>6, <4>1 DEF Fresh, Types
      <4>3. net[d].event < events + 1
        BY <1>1, <4>2
      <4>. QED BY <1>1, <2>6, <3>2, <4>1, <4>2, <4>3 DEF Fresh
    <3>. QED BY <3>1, <3>2
  <2>7. ASSUME NEW d \in SessionId, NEW b \in SessionId \ {d},
               net'[d].step # "idle", net'[b].step # "idle"
        PROVE  net'[b].event # net'[d].event
    <3>1. CASE d = c \/ b = c
      BY <1>1, <2>6, <2>7, <3>1
    <3>2. CASE d # c /\ b # c
      BY <1>1, <2>6, <2>7, <3>2 DEF Fresh
    <3>. QED BY <3>1, <3>2
  <2>8. \A x \in EventId : Used(x)' =>
          x[1] < nextSession /\ (x[2] \in {"main", "packet"} => x[3] < events + 1)
    BY <1>1, <2>2, <2>5 DEF Fresh
  <2>9. \A s \in SessionId :
          /\ Live(s) /\ ~(srv.on = s /\ srv.step = "quitRemove") => ~Used(<<s, "end", 0>>)'
          /\ srv.on = s /\ srv.step \in {"joinShard", "joinStart"} => ~Used(<<s, "start", 0>>)'
    BY <1>1, <2>2, <2>4 DEF Fresh
  <2>10. \A d \in SessionId : net'[d].step # "idle" =>
           /\ net'[d].event < events + 1
           /\ \A s \in SessionId, i \in 0 .. MaxEvents :
                net'[d].event = i => ~Used(<<s, "packet", i>>)'
           /\ \A b \in SessionId \ {d} : net'[b].step # "idle" => net'[b].event # net'[d].event
    BY <2>2, <2>4, <2>6, <2>7
  <2>. QED BY <2>1, <2>3, <2>8, <2>9, <2>10 DEF Fresh
<1>10. ASSUME NEW c \in SessionId, FindSession(c) PROVE Fresh'
  <2>1. /\ UNCHANGED <<ring, frame, written, failed, srv, nextSession, player, sessions, events>>
        /\ net[c].step = "record"
        /\ \/ net' = [net EXCEPT ![c] = NetIdle]
           \/ net' = [net EXCEPT ![c].step = "publish", ![c].on = sessions[player[c]]]
    BY <1>10 DEF FindSession, regVars, flushVars
  <2>2. \A d \in SessionId : net'[d].step # "idle" =>
          net[d].step # "idle" /\ net'[d].event = net[d].event
    <3>1. CASE net' = [net EXCEPT ![c] = NetIdle]
      BY <1>1, <3>1 DEF Types, NetIdle
    <3>2. CASE net' = [net EXCEPT ![c].step = "publish", ![c].on = sessions[player[c]]]
      BY <1>1, <2>1, <3>2 DEF Types
    <3>. QED BY <2>1, <3>1, <3>2
  <2>3. \A s \in SessionId : Live(s)' <=> Live(s)
    BY <2>1 DEF Live
  <2>4. \A x \in EventId : Used(x)' <=> Used(x)
    BY <2>1, UsedSame
  <2>. QED BY <1>1, <2>1, <2>2, <2>3, <2>4, FreshKept
<1>11. ASSUME NEW c \in SessionId, PublishPacket(c) PROVE Fresh'
  <2>1. /\ net[c].step = "publish" /\ "packet" \in Lane
        /\ net[c].on \in SessionId /\ net[c].event \in 0 .. MaxEvents /\ net[c].event < events
        /\ net[c].on < nextSession
    BY <1>1, <1>11, InFlight DEF PublishPacket, Lane, Registered
  <2>. DEFINE e == <<net[c].on, "packet", net[c].event>>
  <2>2. e \in EventId /\ e[1] = net[c].on /\ e[3] = net[c].event
    BY <2>1 DEF EventId
  <2>3. /\ Enqueue(net[c].on, "packet", e) /\ net' = [net EXCEPT ![c] = NetIdle]
        /\ UNCHANGED <<srv, events, nextSession, player, sessions, flushVars>>
    BY <1>11 DEF PublishPacket, regVars
  <2>4. \A x \in EventId : Used(x)' => Used(x) \/ x = e
    BY <1>1, <2>1, <2>2, <2>3, UsedOffered
  <2>6. \A s \in SessionId :
          /\ <<s, "end", 0>> \in EventId /\ <<s, "start", 0>> \in EventId
          /\ <<s, "end", 0>> # e /\ <<s, "start", 0>> # e
          /\ \A i \in 0 .. MaxEvents :
               <<s, "packet", i>> \in EventId /\ (<<s, "packet", i>> = e => i = net[c].event)
    BY PipelineAssumption DEF EventId
  <2>7. \A s \in SessionId : Live(s)' <=> Live(s)
    BY <2>3 DEF Live
  <2>8. \A x \in EventId : Used(x)' =>
          x[1] < nextSession /\ (x[2] \in {"main", "packet"} => x[3] < events)
    BY <1>1, <2>1, <2>2, <2>4 DEF Fresh
  <2>9. \A d \in SessionId : net'[d].step # "idle" => d # c /\ net'[d] = net[d]
    BY <1>1, <2>3 DEF Types, NetIdle
  <2>10. \A d \in SessionId \ {c} : net[d].step # "idle" =>
          \A s \in SessionId, i \in 0 .. MaxEvents : net[d].event = i => ~Used(<<s, "packet", i>>)'
    <3>1. \A d \in SessionId \ {c} : net[d].step # "idle" => net[d].event # net[c].event
      BY <1>1, <2>1 DEF Fresh
    <3>. QED BY <1>1, <2>4, <2>6, <3>1 DEF Fresh
  <2>11. \A s \in SessionId :
           /\ Live(s) /\ ~(srv.on = s /\ srv.step = "quitRemove") => ~Used(<<s, "end", 0>>)'
           /\ srv.on = s /\ srv.step \in {"joinShard", "joinStart"} => ~Used(<<s, "start", 0>>)'
    <3>1. \A s \in SessionId :
            /\ Live(s) /\ ~(srv.on = s /\ srv.step = "quitRemove") => ~Used(<<s, "end", 0>>)
            /\ srv.on = s /\ srv.step \in {"joinShard", "joinStart"} => ~Used(<<s, "start", 0>>)
      BY <1>1 DEF Fresh
    <3>. HIDE DEF e
    <3>2. \A s \in SessionId :
            /\ ~Used(<<s, "end", 0>>) => ~Used(<<s, "end", 0>>)'
            /\ ~Used(<<s, "start", 0>>) => ~Used(<<s, "start", 0>>)'
      BY <2>4, <2>6
    <3>. QED BY <3>1, <3>2
  <2>. HIDE DEF e
  <2>. QED BY <1>1, <2>3, <2>7, <2>8, <2>9, <2>10, <2>11 DEF Fresh
<1>12. ASSUME NEW f \in Flusher, Flush(f) PROVE Fresh'
  <2>1. UNCHANGED <<nextSession, player, sessions, events, net>>
    BY <1>12 DEF Flush, FlushBegin, VisitActive, Release, EndActive, PollDeparted, EndFlush,
                 EndFlushWithStats, VisitLive, LogStats, core, regVars, countVars
  <2>2. UNCHANGED srv \/ (srv.step = "finalFlush" /\ srv'.step \in {"finalFlush", "closed"})
    <3>1. CASE EndFlush(f) \/ LogStats(f)
      <4>1. f[2] = "pool" \/ srv.step = "finalFlush"
        BY <3>1, TwoFlushers DEF EndFlush, LogStats, IInv, Final, Finishing
      <4>. QED BY <3>1, <4>1 DEF EndFlush, LogStats, Return, At
    <3>. QED BY <1>12, <3>1 DEF Flush, FlushBegin, VisitActive, Release, EndActive, PollDeparted,
                                EndFlushWithStats, VisitLive, core
  <2>3. \A s \in SessionId : Live(s)' <=> Live(s)
    BY <2>1 DEF Live
  <2>4. \A x \in EventId : Used(x)' => Used(x)
    BY <1>1, <1>12, UsedFlush
  <2>5. /\ srv'.step \in {"joinShard", "joinStart"} =>
             srv.step \in {"joinShard", "joinStart"} /\ srv'.on = srv.on
        /\ srv.step = "quitRemove" => srv' = srv
    BY <2>2
  <2>. QED BY <1>1, <2>1, <2>3, <2>4, <2>5, FreshKept
<1>. QED BY <1>2, <1>3, <1>4, <1>5, <1>6, <1>7, <1>8, <1>9, <1>10, <1>11, <1>12
     DEF Next, Server, Netty
-----------------------------------------------------------------------------
(* The drains of the rings *)

\* At the start nothing is being drained.
LEMMA DrainsInit == Init => Drains
<1>. SUFFICES ASSUME Init PROVE Drains
  OBVIOUS
<1>1. \A s \in SessionId : Contents(s) = {}
  BY DEF Init, Contents, Lane
<1>2. \A f \in Flusher : /\ flush[f].step = "idle" /\ flush[f].on = {} /\ flush[f].must = {}
                         /\ frame[f] = {}
  BY DEF Init
<1>3. \A f \in Flusher : Framed(f) /\ Held(f)
  BY <1>2 DEF Framed, Held, Iterating, Releasing
<1>. QED BY <1>1, <1>3 DEF Drains

\* A session the writers can come to was registered.
LEMMA KnownRegistered ==
  ASSUME Registered, NEW s \in SessionId, Known(s)
  PROVE  s < nextSession
BY DEF Registered, Known

\* Steps that move no event: they register and retire sessions.
LEMMA DrainsKept ==
  ASSUME Drains, Types, UNCHANGED <<ring, late, flushVars>>,
         nextSession' \in Nat, nextSession <= nextSession',
         \A s \in SessionId : Known(s) => Known(s)',
         \A s \in SessionId : s < nextSession /\ Live(s)' => Live(s)
  PROVE  Drains'
<1>1. \A s \in SessionId : Contents(s)' = Contents(s)
  BY DEF Contents
<1>2. UNCHANGED <<flush, frame, written, failed, late>>
  BY DEF flushVars
<1>3. ASSUME NEW f \in Flusher PROVE Framed(f)' /\ Held(f)'
  <2>1. Framed(f) /\ Held(f) /\ flush[f].must \subseteq SessionId
        /\ \A h \in flush[f].on : h[1] \in SessionId
    BY DEF Drains, Types, FlushRec
  <2>2. Framed(f)'
    BY <1>1, <1>2, <2>1 DEF Framed
  <2>3. Held(f)'
    <3>1. ASSUME NEW h \in flush[f].on PROVE h[1] < nextSession'
      <4>1. h[1] < nextSession
        BY <2>1 DEF Held
      <4>2. h[1] \in Nat
        BY <2>1, Numbers
      <4>3. nextSession \in Nat
        BY PipelineAssumption DEF Types
      <4>. QED BY <4>1, <4>2, <4>3
    <3>2. \A h \in flush[f].on :
            /\ flush[f].step = "releaseActive" => Known(h[1])'
            /\ flush[f].step = "releaseDeparted" => ~Live(h[1])'
      BY <2>1 DEF Held
    <3>3. \A h \in flush[f].on : Contents(h[1])' = Contents(h[1])
      BY <1>1, <2>1
    <3>. QED BY <1>2, <2>1, <3>1, <3>2, <3>3 DEF Held
  <2>. QED BY <2>2, <2>3
<1>. QED BY <1>1, <1>2, <1>3 DEF Drains

\* An event offered to a ring is in no frame and no file.
LEMMA DrainsOffered ==
  ASSUME Types, Drains, Final, NEW s \in SessionId, NEW l \in Lane, NEW e \in EventId,
         Enqueue(s, l, e), e[1] = s, ~Used(e), UNCHANGED flushVars,
         UNCHANGED <<nextSession, player, sessions, shardSessions, shardDeparted>>,
         srv.step = "quitHandOff" => UNCHANGED srv
  PROVE  Drains'
<1>1. /\ late \subseteq late'
      /\ \A u \in SessionId : /\ Contents(u)' \subseteq Contents(u) \cup {e}
                              /\ u # s => Contents(u)' = Contents(u)
      /\ Contents(s)' = Contents(s) \/ (Live(s) /\ ~Stopping) \/ e \in late'
  BY Offered
<1>2. UNCHANGED <<flush, frame, written, failed>>
  BY DEF flushVars
<1>3. e \notin written \cup failed /\ \A f \in Flusher : e \notin frame[f]
  BY DEF Used
<1>4. \A u \in SessionId : (Known(u) => Known(u)') /\ (Live(u)' <=> Live(u))
  BY DEF Known, Queued, Live
<1>5. \A u \in SessionId : \A x \in Contents(u)' : x[1] = u /\ x \notin written' \cup failed'
  BY <1>1, <1>2, <1>3 DEF Drains
<1>6. ASSUME NEW f \in Flusher PROVE Framed(f)' /\ Held(f)'
  <2>1. Framed(f) /\ Held(f) /\ flush[f].must \subseteq SessionId
        /\ \A h \in flush[f].on : h[1] \in SessionId
    BY DEF Drains, Types, FlushRec
  <2>2. \A u \in SessionId : frame[f] \cap Contents(u)' \subseteq frame[f] \cap Contents(u)
    BY <1>1, <1>3
  <2>3. Framed(f)'
    BY <1>2, <1>4, <2>1, <2>2 DEF Framed
  <2>4. Held(f)'
    <3>1. ASSUME NEW h \in flush[f].on, flush[f].step = "releaseDeparted" \/ f[2] = "final"
          PROVE  Contents(h[1])' \subseteq h[2] \cup late'
      <4>1. Contents(h[1]) \subseteq h[2] \cup late /\ flush[f].step \in Releasing
        BY <2>1, <3>1 DEF Held
      <4>2. ~Live(h[1]) \/ Stopping
        <5>1. CASE flush[f].step = "releaseDeparted"
          BY <2>1, <5>1 DEF Held
        <5>2. CASE f[2] = "final"
          BY <4>1, <5>2 DEF Final, Finishing, Stopping, Releasing
        <5>. QED BY <3>1, <5>1, <5>2
      <4>3. CASE h[1] # s
        BY <1>1, <2>1, <4>1, <4>3
      <4>4. CASE h[1] = s
        <5>1. Contents(s)' = Contents(s) \/ e \in late'
          BY <1>1, <4>2, <4>4
        <5>. QED BY <1>1, <4>1, <4>4, <5>1
      <4>. QED BY <4>3, <4>4
    <3>2. \A h \in flush[f].on :
            /\ flush[f].step = "releaseActive" => Known(h[1])'
            /\ flush[f].step = "releaseDeparted" => ~Live(h[1])'
      BY <1>4, <2>1 DEF Held
    <3>3. \A h \in flush[f].on : frame[f] \cap Contents(h[1])' \subseteq h[2]
      BY <2>1, <2>2 DEF Held
    <3>. QED BY <1>2, <2>1, <3>1, <3>2, <3>3 DEF Held
  <2>. QED BY <2>3, <2>4
<1>. QED BY <1>5, <1>6 DEF Drains

\* What a step of one flusher leaves of another.
LEMMA DrainsOther ==
  ASSUME Types, Drains, NEW g \in Flusher, flush'[g] = flush[g], frame'[g] = frame[g],
         flush[g].step # "idle" => flush'[Other(g)].step = "idle",
         nextSession' = nextSession, UNCHANGED late,
         \A u \in SessionId : Contents(u)' \subseteq Contents(u),
         \A u \in SessionId : ShardOf(u) = g[1] /\ flush[g].step \in Iterating /\ Known(u)
           => Known(u)',
         \A u \in SessionId : Live(u)' <=> Live(u),
         frame[g] \cap ((written' \cup failed') \ (written \cup failed)) = {}
  PROVE  Framed(g)' /\ Held(g)'
<1>1. Framed(g) /\ Held(g) /\ flush[g].must \subseteq SessionId
      /\ \A h \in flush[g].on : h[1] \in SessionId
  BY DEF Drains, Types, FlushRec
<1>2. Framed(g)'
  BY <1>1 DEF Framed
<1>3. Held(g)'
  <2>1. \A h \in flush[g].on :
          /\ flush[g].step = "releaseActive" => Known(h[1])'
          /\ flush[g].step = "releaseDeparted" => ~Live(h[1])'
    BY <1>1 DEF Held, Iterating
  <2>. QED BY <1>1, <2>1 DEF Held
<1>. QED BY <1>2, <1>3

\* What is in a frame of another shard, or of the other flusher of the shard,
\* is not in the frame.
LEMMA FramesApart ==
  ASSUME Types, Drains, NEW f \in Flusher, NEW g \in Flusher \ {f}
  PROVE  frame[f] \cap frame[g] = {}
<1>1. Framed(f) /\ Framed(g)
  BY DEF Drains
<1>2. CASE g[1] = f[1]
  <2>1. g = Other(f)
    BY <1>2, TwoFlushers
  <2>2. flush[f].step = "idle" \/ flush[g].step = "idle"
    BY <1>1, <2>1 DEF Framed
  <2>. QED BY <1>1, <2>2 DEF Framed
<1>3. CASE g[1] # f[1]
  BY <1>1, <1>3 DEF Framed
<1>. QED BY <1>2, <1>3

\* Every step keeps the drains apart.
LEMMA DrainsStep == IInv /\ Next /\ ~UNCHANGED core => Drains'
<1>. SUFFICES ASSUME IInv, Next, ~UNCHANGED core PROVE Drains'
  OBVIOUS
<1>1. /\ Types /\ Registered /\ Fresh /\ Drains /\ Final
      /\ nextSession \in Nat /\ events \in Nat
  BY PipelineAssumption DEF IInv, Types
<1>2. ASSUME NEW p \in Players, Join(p) PROVE Drains'
  <2>1. /\ \A s \in SessionId : Live(s)' <=> Live(s) \/ s = nextSession
        /\ srv.step = "idle" /\ nextSession' = nextSession + 1
        /\ UNCHANGED <<ring, late, flushVars, shardSessions, shardDeparted>>
    BY <1>1, <1>2, LiveJoin DEF Join, Idle
  <2>2. \A s \in SessionId : Known(s) => Known(s)'
    BY <2>1 DEF Known, Queued
  <2>3. \A s \in SessionId : s < nextSession => s # nextSession
    BY <1>1, Numbers
  <2>. QED BY <1>1, <2>1, <2>2, <2>3, DrainsKept
<1>3. CASE JoinShard \/ QuitShard
  <2>1. /\ UNCHANGED <<ring, late, flushVars, nextSession, player, sessions, shardDeparted>>
        /\ \A s \in shardSessions :
             s \in shardSessions' \/ (srv'.on = s /\ srv'.step = "quitHandOff")
        /\ srv.step # "quitHandOff"
    BY <1>3 DEF JoinShard, QuitShard, At
  <2>2. \A s \in SessionId : (Known(s) => Known(s)') /\ (Live(s)' <=> Live(s))
    BY <2>1 DEF Known, Queued, Live
  <2>. QED BY <1>1, <2>1, <2>2, DrainsKept
<1>4. CASE Retire
  <2>1. /\ UNCHANGED <<ring, late, flushVars, nextSession, shardSessions, shardDeparted>>
        /\ srv.step # "quitHandOff"
        /\ \A s \in SessionId : Live(s)' => Live(s)
    BY <1>1, <1>4, LiveRetire DEF Retire, RemoveThenCount
  <2>2. \A s \in SessionId : Known(s) => Known(s)'
    BY <2>1 DEF Known, Queued
  <2>. QED BY <1>1, <2>1, <2>2, DrainsKept
<1>5. CASE QuitHandOff
  <2>1. /\ UNCHANGED <<ring, late, flushVars, nextSession, shardSessions, player, sessions>>
        /\ \A s \in SessionId : Queued(s)' <=> Queued(s) \/ s = srv.on
    BY <1>1, <1>5, QueuedHandOff DEF QuitHandOff
  <2>2. \A s \in SessionId : (Known(s) => Known(s)') /\ (Live(s)' <=> Live(s))
    BY <2>1 DEF Known, Live
  <2>. QED BY <1>1, <2>1, <2>2, DrainsKept
<1>6. CASE FinalFlush \/ Disable
  <2>1. /\ UNCHANGED <<ring, late, flushVars, regVars>>
        /\ srv.step # "quitHandOff"
    BY <1>6 DEF FinalFlush, Disable, Idle
  <2>2. \A s \in SessionId : (Known(s) => Known(s)') /\ (Live(s)' <=> Live(s))
    BY <2>1 DEF Known, Queued, Live, regVars
  <2>. QED BY <1>1, <2>1, <2>2, DrainsKept DEF regVars
<1>7. ASSUME NEW c \in SessionId, Receive(c) \/ FindSession(c) PROVE Drains'
  <2>1. UNCHANGED <<ring, late, flushVars, regVars, srv>>
    BY <1>7 DEF Receive, FindSession
  <2>2. \A s \in SessionId : (Known(s) => Known(s)') /\ (Live(s)' <=> Live(s))
    BY <2>1 DEF Known, Queued, Live, regVars
  <2>. QED BY <1>1, <2>1, <2>2, DrainsKept DEF regVars
<1>8. CASE JoinStart
  <2>1. srv.on \in SessionId /\ "main" \in Lane /\ srv.step = "joinStart"
    BY <1>1, <1>8 DEF JoinStart, Registered, Lane
  <2>. DEFINE e == <<srv.on, "start", 0>>
  <2>2. e \in EventId /\ e[1] = srv.on
    BY <2>1, PipelineAssumption DEF EventId
  <2>3. ~Used(e)
    BY <1>1, <2>1 DEF Fresh
  <2>4. Enqueue(srv.on, "main", e) /\ UNCHANGED flushVars /\ UNCHANGED regVars
    BY <1>8 DEF JoinStart
  <2>. HIDE DEF e
  <2>. QED BY <1>1, <2>1, <2>2, <2>3, <2>4, DrainsOffered DEF regVars
<1>9. ASSUME NEW p \in Players, ServerEvent(p) PROVE Drains'
  <2>1. /\ sessions[p] \in SessionId /\ "main" \in Lane /\ srv.step = "idle"
        /\ events \in 0 .. MaxEvents
    BY <1>1, <1>9 DEF ServerEvent, Types, Working, Lane, Idle
  <2>. DEFINE e == <<sessions[p], "main", events>>
  <2>2. e \in EventId /\ e[1] = sessions[p] /\ e[2] = "main" /\ e[3] = events
    BY <2>1 DEF EventId
  <2>3. ~Used(e)
    <3>. SUFFICES ASSUME Used(e) PROVE FALSE
      OBVIOUS
    <3>. HIDE DEF e
    <3>1. events < events
      BY <1>1, <2>2 DEF Fresh
    <3>. QED BY <1>1, <3>1
  <2>4. Enqueue(sessions[p], "main", e) /\ UNCHANGED flushVars /\ UNCHANGED regVars /\ UNCHANGED srv
    BY <1>9 DEF ServerEvent
  <2>. HIDE DEF e
  <2>. QED BY <1>1, <2>1, <2>2, <2>3, <2>4, DrainsOffered DEF regVars
<1>10. ASSUME NEW p \in Players, Quit(p) PROVE Drains'
  <2>1. /\ sessions[p] \in SessionId /\ "main" \in Lane /\ srv.step = "idle"
        /\ player[sessions[p]] = p
    BY <1>1, <1>10 DEF Quit, Types, Working, Lane, Idle, Registered
  <2>. DEFINE e == <<sessions[p], "end", 0>>
  <2>2. e \in EventId /\ e[1] = sessions[p]
    BY <2>1, PipelineAssumption DEF EventId
  <2>3. ~Used(e)
    <3>1. Live(sessions[p])
      BY <2>1, Numbers DEF Live
    <3>. QED BY <1>1, <2>1, <3>1 DEF Fresh
  <2>4. Enqueue(sessions[p], "main", e) /\ UNCHANGED flushVars /\ UNCHANGED regVars
    BY <1>10 DEF Quit
  <2>. HIDE DEF e
  <2>. QED BY <1>1, <2>1, <2>2, <2>3, <2>4, DrainsOffered DEF regVars
<1>11. ASSUME NEW c \in SessionId, PublishPacket(c) PROVE Drains'
  <2>1. /\ net[c].step # "idle" /\ "packet" \in Lane
        /\ net[c].on \in SessionId /\ net[c].event \in 0 .. MaxEvents
    BY <1>1, <1>11, InFlight DEF PublishPacket, Lane
  <2>. DEFINE e == <<net[c].on, "packet", net[c].event>>
  <2>2. e \in EventId /\ e[1] = net[c].on
    BY <2>1 DEF EventId
  <2>3. ~Used(e)
    BY <1>1, <2>1 DEF Fresh
  <2>4. Enqueue(net[c].on, "packet", e) /\ UNCHANGED flushVars /\ UNCHANGED regVars /\ UNCHANGED srv
    BY <1>11 DEF PublishPacket
  <2>. HIDE DEF e
  <2>. QED BY <1>1, <2>1, <2>2, <2>3, <2>4, DrainsOffered DEF regVars
<1>12. ASSUME NEW f \in Flusher, Flush(f) PROVE Drains'
  <2>1. /\ Framed(f) /\ Held(f) /\ f[1] \in Shard /\ flush[f] \in FlushRec
        /\ frame[f] \in SUBSET EventId
    BY <1>1, TwoFlushers DEF Drains, Types
  <2>2. CASE FlushBegin(f)
    <3>1. /\ flush[f].step = "idle" /\ flush[Other(f)].step = "idle"
          /\ flush'[f].step = "active" /\ flush'[f].seen = {} /\ flush'[f].on = {}
          /\ flush'[f].must = {s \in shardSessions : ShardOf(s) = f[1]}
          /\ \A g \in Flusher \ {f} : flush'[g] = flush[g] /\ frame'[g] = frame[g]
          /\ frame'[f] = {}
      BY <1>1, <2>2 DEF FlushBegin, Monitor, Types
    <3>2. UNCHANGED <<regVars, ring, srv, written, failed, late>>
      BY <2>2 DEF FlushBegin
    <3>3. \A s \in SessionId : /\ Contents(s)' = Contents(s) /\ (Live(s)' <=> Live(s))
                               /\ (Known(s)' <=> Known(s))
      BY <3>2 DEF Contents, Live, Known, Queued, regVars
    <3>4. flush'[Other(f)].step = "idle"
      BY <3>1, TwoFlushers
    <3>5. Framed(f)' /\ Held(f)'
      <4>1. \A s \in shardSessions : s \in SessionId /\ Known(s)
        BY <1>1 DEF Types, Known
      <4>2. Framed(f)'
        BY <3>1, <3>3, <3>4, <4>1 DEF Framed
      <4>. QED BY <3>1, <4>2 DEF Held, Releasing
    <3>6. ASSUME NEW g \in Flusher \ {f} PROVE Framed(g)' /\ Held(g)'
      <4>1. flush[g].step # "idle" => flush'[Other(g)].step = "idle"
        <5>1. CASE Other(g) = f
          BY <3>1, <5>1, TwoFlushers
        <5>2. CASE Other(g) # f
          BY <1>1, <3>1, <5>2, TwoFlushers DEF Drains, Framed
        <5>. QED BY <5>1, <5>2
      <4>. QED BY <1>1, <3>1, <3>2, <3>3, <4>1, DrainsOther DEF regVars
    <3>. QED BY <1>1, <3>2, <3>3, <3>5, <3>6 DEF Drains
  <2>3. ASSUME NEW s \in SessionId, NEW st \in Releasing, Encode(f, s, st), Contents(s) # {},
               flush[f].step \in {"active", "departed"}, ShardOf(s) = f[1], s < nextSession,
               st = "releaseActive" => Known(s) /\ flush[f].step = "active",
               st = "releaseDeparted" => ~Live(s),
               \A u \in SessionId :
                 ShardOf(u) = f[1] /\ Known(u) => Known(u)' \/ st = "releaseDeparted",
               \A u \in SessionId : ShardOf(u) # f[1] => (Known(u) => Known(u)'),
               UNCHANGED <<nextSession, player, sessions, ring, written, failed, late>>
        PROVE  Drains'
    <3>1. /\ flush'[f].step = st /\ flush'[f].on = {<<s, Contents(s)>>}
          /\ flush'[f].must = flush[f].must
          /\ frame'[f] = frame[f] \cup Contents(s)
          /\ \A g \in Flusher \ {f} : flush'[g] = flush[g] /\ frame'[g] = frame[g]
      <4>1. /\ flush' = [flush EXCEPT ![f] = [flush[f] EXCEPT !.step = st, !.seen = @ \cup {s},
                                                              !.on = {<<s, Contents(s)>>}]]
            /\ frame' = [frame EXCEPT ![f] = @ \cup Contents(s)]
        BY <2>3 DEF Encode
      <4>2. flush'[f] = [flush[f] EXCEPT !.step = st, !.seen = @ \cup {s},
                                         !.on = {<<s, Contents(s)>>}]
        BY <1>1, <4>1 DEF Types
      <4>3. /\ flush'[f].step = st /\ flush'[f].on = {<<s, Contents(s)>>}
            /\ flush'[f].must = flush[f].must
        BY <2>1, <4>2 DEF FlushRec
      <4>. QED BY <1>1, <4>1, <4>3 DEF Types
    <3>2. \A u \in SessionId : Contents(u)' = Contents(u) /\ (Live(u)' <=> Live(u))
      BY <2>3 DEF Contents, Live
    <3>3. /\ flush[f].on = {} /\ flush[Other(f)].step = "idle" /\ flush'[Other(f)].step = "idle"
      BY <2>1, <2>3, <3>1, TwoFlushers DEF Framed, Held, Releasing
    <3>4. \A x \in Contents(s) : x[1] = s /\ x \notin written \cup failed
      BY <1>1 DEF Drains
    <3>5. Framed(f)'
      <4>1. \A x \in frame'[f] : ShardOf(x[1]) = f[1] /\ x \notin written' \cup failed'
        BY <2>1, <2>3, <3>1, <3>4 DEF Framed
      <4>2. \A u \in SessionId : u # s => frame'[f] \cap Contents(u)' = {}
        <5>1. \A u \in SessionId : u # s => frame[f] \cap Contents(u) = {}
          BY <2>1, <3>3 DEF Framed
        <5>2. \A u \in SessionId : u # s => Contents(s) \cap Contents(u) = {}
          BY <1>1 DEF Drains
        <5>. QED BY <3>1, <3>2, <5>1, <5>2
      <4>3. st \in Iterating => \A u \in flush[f].must : Known(u)'
        <5>1. flush[f].must \subseteq SessionId
          BY <2>1 DEF FlushRec
        <5>. QED BY <2>1, <2>3, <5>1 DEF Framed, Iterating, Releasing
      <4>4. \A u \in SessionId : u = s => \E h \in flush'[f].on : h[1] = u
        BY <3>1
      <4>5. \A u \in flush'[f].must : ShardOf(u) = f[1]
        BY <2>1, <3>1 DEF Framed
      <4>6. st \notin {"idle", "stats"}
        BY DEF Releasing
      <4>. QED BY <3>1, <3>3, <4>1, <4>2, <4>3, <4>4, <4>5, <4>6 DEF Framed
    <3>6. Held(f)'
      <4>1. /\ st = "releaseActive" => Known(s)'
            /\ st = "releaseDeparted" => ~Live(s)'
        BY <2>3, <3>2
      <4>2. \A h \in flush'[f].on :
              /\ h = <<s, Contents(s)>> /\ h[1] = s /\ h[2] = Contents(s)
              /\ Contents(h[1])' = Contents(s)
              /\ (Live(h[1])' <=> Live(s)') /\ (Known(h[1])' <=> Known(s)')
        BY <3>1, <3>2
      <4>. QED BY <2>3, <3>1, <4>1, <4>2 DEF Held
    <3>7. ASSUME NEW g \in Flusher \ {f} PROVE Framed(g)' /\ Held(g)'
      <4>1. flush[g].step # "idle" => flush'[Other(g)].step = "idle" /\ g[1] # f[1]
        <5>1. CASE g[1] = f[1]
          BY <3>3, <5>1, TwoFlushers
        <5>2. CASE g[1] # f[1]
          <6>1. Other(g) \in Flusher \ {f}
            BY <5>2, TwoFlushers
          <6>. QED BY <1>1, <3>1, <5>2, <6>1 DEF Drains, Framed
        <5>. QED BY <5>1, <5>2
      <4>2. flush[g].step \in Iterating => flush[g].step # "idle"
        BY DEF Iterating
      <4>. QED BY <1>1, <2>3, <3>1, <3>2, <4>1, <4>2, DrainsOther
    <3>. QED BY <1>1, <2>3, <3>2, <3>5, <3>6, <3>7 DEF Drains
  <2>9. ASSUME NEW s \in SessionId, NEW st, Encode(f, s, st), Contents(s) = {},
               flush[f].step \in {"active", "departed"},
               \A u \in SessionId : Known(u) => Known(u)' \/ flush[f].step = "departed",
               \A u \in SessionId : ShardOf(u) # f[1] => (Known(u) => Known(u)'),
               UNCHANGED <<nextSession, player, sessions, ring, written, failed, late>>
        PROVE  Drains'
    <3>1. /\ flush'[f].step = flush[f].step /\ flush'[f].on = flush[f].on
          /\ flush'[f].must = flush[f].must /\ UNCHANGED frame
          /\ \A g \in Flusher \ {f} : flush'[g] = flush[g]
      <4>1. flush' = [flush EXCEPT ![f] = [flush[f] EXCEPT !.seen = @ \cup {s}]] /\ UNCHANGED frame
        BY <2>9 DEF Encode
      <4>2. flush'[f] = [flush[f] EXCEPT !.seen = @ \cup {s}]
        BY <1>1, <4>1 DEF Types
      <4>. QED BY <1>1, <2>1, <4>1, <4>2 DEF Types, FlushRec
    <3>2. \A u \in SessionId : Contents(u)' = Contents(u) /\ (Live(u)' <=> Live(u))
      BY <2>9 DEF Contents, Live
    <3>3. /\ flush[f].on = {} /\ flush[Other(f)].step = "idle" /\ flush'[Other(f)].step = "idle"
      BY <2>1, <2>9, <3>1, TwoFlushers DEF Framed, Held, Releasing
    <3>4. Framed(f)'
      <4>1. flush[f].step \in Iterating => \A u \in flush[f].must : Known(u)'
        <5>1. flush[f].must \subseteq SessionId
          BY <2>1 DEF FlushRec
        <5>. QED BY <2>1, <2>9, <5>1 DEF Framed, Iterating
      <4>. QED BY <2>1, <2>9, <3>1, <3>2, <3>3, <4>1 DEF Framed
    <3>5. Held(f)'
      BY <3>1, <3>3 DEF Held
    <3>6. ASSUME NEW g \in Flusher \ {f} PROVE Framed(g)' /\ Held(g)'
      <4>1. flush[g].step # "idle" => flush'[Other(g)].step = "idle" /\ g[1] # f[1]
        <5>1. CASE g[1] = f[1]
          BY <3>3, <5>1, TwoFlushers
        <5>2. CASE g[1] # f[1]
          <6>1. Other(g) \in Flusher \ {f}
            BY <5>2, TwoFlushers
          <6>. QED BY <1>1, <3>1, <5>2, <6>1 DEF Drains, Framed
        <5>. QED BY <5>1, <5>2
      <4>2. flush[g].step \in Iterating => flush[g].step # "idle"
        BY DEF Iterating
      <4>. QED BY <1>1, <2>9, <3>1, <3>2, <4>1, <4>2, DrainsOther
    <3>. QED BY <1>1, <2>9, <3>2, <3>4, <3>5, <3>6 DEF Drains
  <2>4. CASE VisitActive(f)
    <3>1. PICK s \in (flush[f].must \cup {u \in shardSessions : ShardOf(u) = f[1]})
                      \ flush[f].seen :
            Encode(f, s, "releaseActive")
      BY <2>4 DEF VisitActive
    <3>2. flush[f].step = "active" /\ UNCHANGED <<regVars, ring, srv, written, failed, late>>
      BY <2>4 DEF VisitActive
    <3>3. s \in SessionId /\ ShardOf(s) = f[1] /\ Known(s)
      BY <1>1, <2>1, <3>1, <3>2 DEF Types, FlushRec, Framed, Known, Iterating
    <3>4. s < nextSession
      BY <1>1, <3>3, KnownRegistered
    <3>5. \A u \in SessionId : Known(u) => Known(u)'
      BY <3>2 DEF Known, Queued, regVars
    <3>6. "releaseActive" \in Releasing
      BY DEF Releasing
    <3>7. CASE Contents(s) = {}
      BY <2>9, <3>1, <3>2, <3>3, <3>5, <3>7 DEF regVars
    <3>8. CASE Contents(s) # {}
      BY <2>3, <3>1, <3>2, <3>3, <3>4, <3>5, <3>6, <3>8 DEF regVars
    <3>. QED BY <3>7, <3>8
  <2>5. CASE PollDeparted(f)
    <3>. DEFINE t == Head(shardDeparted[f[1]])
    <3>1. /\ t \in SessionId /\ ShardOf(t) = f[1] /\ Queued(t)
          /\ \A u \in SessionId : Queued(u) => Queued(u)' \/ u = t
      BY <1>1, <2>5, QueuedPoll
    <3>2. /\ flush[f].step = "departed" /\ Encode(f, t, "releaseDeparted")
          /\ UNCHANGED <<nextSession, player, sessions, shardSessions, ring, srv, written,
                         failed, late>>
      BY <2>5 DEF PollDeparted
    <3>. HIDE DEF t
    <3>3. t < nextSession /\ ~Live(t)
      BY <1>1, <3>1 DEF Registered
    <3>4. \A u \in SessionId : ShardOf(u) # f[1] => (Known(u) => Known(u)')
      BY <3>1, <3>2 DEF Known
    <3>5. "releaseDeparted" \in Releasing
      BY DEF Releasing
    <3>6. CASE Contents(t) = {}
      BY <2>9, <3>1, <3>2, <3>4, <3>6
    <3>7. CASE Contents(t) # {}
      BY <2>3, <3>1, <3>2, <3>3, <3>4, <3>5, <3>7
    <3>. QED BY <3>6, <3>7
  <2>6. CASE Release(f)
    <3>1. /\ flush[f].step \in Releasing
          /\ flush'[f].on = {} /\ flush'[f].must = flush[f].must
          /\ flush'[f].step = IF flush[f].step = "releaseActive" THEN "active" ELSE "departed"
          /\ \A g \in Flusher \ {f} : flush'[g] = flush[g]
          /\ UNCHANGED <<regVars, srv, frame, written, failed, late>>
      BY <1>1, <2>1, <2>6 DEF Release, Types, FlushRec, Releasing
    <3>2. PICK h \in flush[f].on :
            /\ h[1] \in SessionId
            /\ \A u \in SessionId : u # h[1] => Contents(u)' = Contents(u)
            /\ \A u \in SessionId : u = h[1] => Contents(u)' = Contents(u) \ h[2]
      BY <1>1, <2>6, ReleaseTakes
    <3>3. \A s \in SessionId : /\ Contents(s)' \subseteq Contents(s) /\ (Live(s)' <=> Live(s))
                               /\ (Known(s)' <=> Known(s))
      <4>1. \A s \in SessionId : (Live(s)' <=> Live(s)) /\ (Known(s)' <=> Known(s))
        BY <3>1 DEF Live, Known, Queued, regVars
      <4>2. \A s \in SessionId : Contents(s)' \subseteq Contents(s)
        BY <3>2
      <4>. QED BY <4>1, <4>2
    <3>4. \A u \in SessionId : frame[f] \cap Contents(u)' = {}
      <4>1. \A u \in SessionId : u # h[1] => frame[f] \cap Contents(u) = {}
        BY <2>1 DEF Framed, Held
      <4>2. \A u \in SessionId : u = h[1] => frame[f] \cap Contents(u) \subseteq h[2]
        BY <2>1 DEF Held
      <4>. QED BY <3>2, <4>1, <4>2
    <3>5. Framed(f)'
      <4>1. flush[f].step # "idle" /\ flush[Other(f)].step = "idle" /\ flush'[Other(f)].step = "idle"
        BY <2>1, <3>1, TwoFlushers DEF Framed, Releasing
      <4>2. flush'[f].step \in Iterating => flush[f].step \in Iterating
        BY <3>1 DEF Releasing, Iterating
      <4>3. flush[f].must \subseteq SessionId /\ flush'[f].step # "idle"
        BY <2>1, <3>1 DEF FlushRec
      <4>. QED BY <2>1, <3>1, <3>3, <3>4, <4>1, <4>2, <4>3 DEF Framed
    <3>6. Held(f)'
      BY <3>1 DEF Held
    <3>7. ASSUME NEW g \in Flusher \ {f} PROVE Framed(g)' /\ Held(g)'
      <4>1. flush[g].step # "idle" => flush'[Other(g)].step = "idle"
        <5>1. CASE Other(g) = f
          <6>1. g = Other(f)
            BY <5>1, TwoFlushers
          <6>. QED BY <2>1, <3>1, <6>1 DEF Framed, Releasing
        <5>2. CASE Other(g) # f
          BY <1>1, <3>1, <5>2, TwoFlushers DEF Drains, Framed
        <5>. QED BY <5>1, <5>2
      <4>. QED BY <1>1, <3>1, <3>3, <4>1, DrainsOther DEF regVars
    <3>. QED BY <1>1, <3>1, <3>3, <3>5, <3>6, <3>7 DEF Drains
  <2>7. CASE EndActive(f)
    <3>1. /\ flush[f].step = "active" /\ flush'[f].on = flush[f].on /\ flush'[f].must = {}
          /\ flush'[f].step = "departed"
          /\ \A g \in Flusher \ {f} : flush'[g] = flush[g]
          /\ UNCHANGED <<regVars, srv, ring, frame, written, failed, late>>
      BY <1>1, <2>1, <2>7 DEF EndActive, Types, FlushRec
    <3>2. \A s \in SessionId : /\ Contents(s)' = Contents(s) /\ (Live(s)' <=> Live(s))
                               /\ (Known(s)' <=> Known(s))
      BY <3>1 DEF Contents, Live, Known, Queued, regVars
    <3>3. Framed(f)'
      <4>1. flush'[Other(f)].step = "idle"
        BY <2>1, <3>1, TwoFlushers DEF Framed
      <4>. QED BY <2>1, <3>1, <3>2, <4>1 DEF Framed, Iterating
    <3>4. Held(f)'
      BY <2>1, <3>1 DEF Held, Releasing
    <3>5. ASSUME NEW g \in Flusher \ {f} PROVE Framed(g)' /\ Held(g)'
      <4>1. flush[g].step # "idle" => flush'[Other(g)].step = "idle"
        <5>1. CASE Other(g) = f
          <6>1. g = Other(f)
            BY <5>1, TwoFlushers
          <6>. QED BY <2>1, <3>1, <6>1 DEF Framed
        <5>2. CASE Other(g) # f
          BY <1>1, <3>1, <5>2, TwoFlushers DEF Drains, Framed
        <5>. QED BY <5>1, <5>2
      <4>. QED BY <1>1, <3>1, <3>2, <4>1, DrainsOther DEF regVars
    <3>. QED BY <1>1, <3>1, <3>2, <3>3, <3>4, <3>5 DEF Drains
  <2>8. CASE EndFlush(f) \/ EndFlushWithStats(f) \/ LogStats(f)
    <3>1. /\ flush[f].step \in {"departed", "stats"} /\ flush'[f].on = flush[f].on
          /\ flush'[f].must = flush[f].must /\ flush'[f].step \in {"idle", "stats"}
          /\ \A g \in Flusher \ {f} : flush'[g] = flush[g] /\ frame'[g] = frame[g]
          /\ frame'[f] = {}
          /\ UNCHANGED <<regVars, ring, late>>
          /\ written' \cup failed' \subseteq written \cup failed \cup frame[f]
      BY <1>1, <2>1, <2>8 DEF EndFlush, EndFlushWithStats, LogStats, Return, Types, FlushRec, Framed
    <3>2. srv.step = "quitHandOff" => srv' = srv
      <4>1. f[2] = "pool" \/ srv.step = "finalFlush"
        BY <1>1, <3>1, TwoFlushers DEF Final, Finishing
      <4>. QED BY <2>8, <4>1 DEF EndFlush, EndFlushWithStats, LogStats, Return
    <3>3. \A s \in SessionId : /\ Contents(s)' = Contents(s) /\ (Live(s)' <=> Live(s))
                               /\ (Known(s) => Known(s)')
      BY <3>1, <3>2 DEF Contents, Live, Known, Queued, regVars
    <3>4. flush[f].on = {}
      BY <2>1, <3>1 DEF Held, Releasing
    <3>5. \A s \in SessionId : Contents(s) \cap frame[f] = {}
      BY <2>1, <3>4 DEF Framed
    <3>6. \A s \in SessionId : \A e \in Contents(s)' : e[1] = s /\ e \notin written' \cup failed'
      BY <1>1, <3>1, <3>3, <3>5 DEF Drains
    <3>7. Framed(f)' /\ Held(f)'
      <4>1. flush'[Other(f)].step = "idle"
        BY <2>1, <3>1, TwoFlushers DEF Framed
      <4>. QED BY <2>1, <3>1, <3>4, <4>1 DEF Framed, Held, Iterating, Releasing
    <3>8. ASSUME NEW g \in Flusher \ {f} PROVE Framed(g)' /\ Held(g)'
      <4>1. flush[g].step # "idle" => flush'[Other(g)].step = "idle"
        <5>1. CASE Other(g) = f
          <6>1. g = Other(f)
            BY <5>1, TwoFlushers
          <6>. QED BY <2>1, <3>1, <6>1 DEF Framed
        <5>2. CASE Other(g) # f
          BY <1>1, <3>1, <5>2, TwoFlushers DEF Drains, Framed
        <5>. QED BY <5>1, <5>2
      <4>2. frame[g] \cap frame[f] = {}
        BY <1>1, FramesApart
      <4>. QED BY <1>1, <3>1, <3>3, <4>1, <4>2, DrainsOther DEF regVars
    <3>. QED BY <3>6, <3>7, <3>8 DEF Drains
  <2>10. ~VisitLive(f)
    BY DEF VisitLive
  <2>. QED BY <1>12, <2>2, <2>4, <2>5, <2>6, <2>7, <2>8, <2>10 DEF Flush
<1>. QED BY <1>2, <1>3, <1>4, <1>5, <1>6, <1>7, <1>8, <1>9, <1>10, <1>11, <1>12
     DEF Next, Server, Netty
-----------------------------------------------------------------------------
(* What the writers can no longer reach holds late events only *)

\* At the start the rings hold nothing.
LEMMA RetiringInit == Init => RetiringLosesNothing
BY DEF Init, RetiringLosesNothing, Contents, Lane

\* A session that holds something and that the writers can come to stays within
\* reach as long as no writer releases it.
LEMMA RetiringKept ==
  ASSUME RetiringLosesNothing, UNCHANGED <<ring, late>>,
         \A s \in SessionId : Reachable(s) /\ Contents(s) # {} => Reachable(s)'
  PROVE  RetiringLosesNothing'
<1>1. \A s \in SessionId : Contents(s)' = Contents(s)
  BY DEF Contents
<1>. QED BY <1>1 DEF RetiringLosesNothing

\* An event offered to a session that is live is offered within reach, and to
\* one that is not it is late.
LEMMA RetiringOffered ==
  ASSUME Types, Registered, RetiringLosesNothing,
         NEW s \in SessionId, NEW l \in Lane, NEW e \in EventId, Enqueue(s, l, e),
         UNCHANGED flush, UNCHANGED <<shardSessions, shardDeparted>>,
         UNCHANGED srv \/ srv.step \in {"idle", "joinStart"}
  PROVE  RetiringLosesNothing'
<1>1. /\ late \subseteq late'
      /\ \A u \in SessionId : /\ Contents(u)' \subseteq Contents(u) \cup {e}
                              /\ u # s => Contents(u)' = Contents(u)
      /\ Contents(s)' = Contents(s) \/ Live(s) \/ e \in late'
  BY Offered
<1>2. \A u \in SessionId : Reachable(u) => Reachable(u)'
  BY DEF Reachable
<1>3. Live(s) => Reachable(s)
  BY DEF Registered, Reachable
<1>4. ASSUME NEW u \in SessionId, ~Reachable(u)' PROVE Contents(u)' \subseteq late'
  <2>1. ~Reachable(u) /\ Contents(u) \subseteq late
    BY <1>2, <1>4 DEF RetiringLosesNothing
  <2>2. CASE u = s
    <3>1. Contents(s)' = Contents(s) \/ e \in late'
      BY <1>1, <1>3, <2>1, <2>2
    <3>. QED BY <1>1, <2>1, <2>2, <3>1
  <2>3. CASE u # s
    BY <1>1, <2>1, <2>3
  <2>. QED BY <2>2, <2>3
<1>. QED BY <1>4 DEF RetiringLosesNothing

\* Every step keeps what is not late within the reach of the writers.
LEMMA RetiringStep == IInv /\ Next /\ ~UNCHANGED core => RetiringLosesNothing'
<1>. SUFFICES ASSUME IInv, Next, ~UNCHANGED core PROVE RetiringLosesNothing'
  OBVIOUS
<1>1. Types /\ Registered /\ Fresh /\ Drains /\ Final /\ RetiringLosesNothing
  BY DEF IInv
<1>2. ASSUME NEW p \in Players, Join(p) PROVE RetiringLosesNothing'
  <2>1. UNCHANGED <<ring, late, shardSessions, shardDeparted, flush>> /\ srv.step = "idle"
    BY <1>2 DEF Join, Idle, flushVars
  <2>2. \A s \in SessionId : Reachable(s) => Reachable(s)'
    BY <2>1 DEF Reachable
  <2>. QED BY <1>1, <2>1, <2>2, RetiringKept
<1>3. CASE JoinShard
  <2>1. /\ UNCHANGED <<ring, late, shardDeparted, flush>> /\ srv.step = "joinShard"
        /\ shardSessions' = shardSessions \cup {srv.on}
    BY <1>3 DEF JoinShard, flushVars
  <2>2. \A s \in SessionId : Reachable(s) => Reachable(s)'
    BY <2>1 DEF Reachable
  <2>. QED BY <1>1, <2>1, <2>2, RetiringKept
<1>4. CASE Retire
  <2>1. /\ UNCHANGED <<ring, late, shardSessions, shardDeparted, flush>>
        /\ srv'.on = srv.on /\ srv'.step \in {"quitCount", "quitShard"}
    BY <1>1, <1>4, LiveRetire DEF Retire, At, flushVars
  <2>2. \A s \in SessionId : Reachable(s) => Reachable(s)'
    BY <2>1 DEF Reachable
  <2>. QED BY <1>1, <2>1, <2>2, RetiringKept
<1>5. CASE QuitShard
  <2>1. /\ UNCHANGED <<ring, late, shardDeparted, flush>>
        /\ shardSessions' = shardSessions \ {srv.on}
        /\ srv'.on = srv.on /\ srv'.step = "quitHandOff" /\ srv.step = "quitShard"
    BY <1>5 DEF QuitShard, At, flushVars
  <2>2. \A s \in SessionId : Reachable(s) => Reachable(s)'
    BY <2>1 DEF Reachable
  <2>. QED BY <1>1, <2>1, <2>2, RetiringKept
<1>6. CASE QuitHandOff
  <2>1. /\ UNCHANGED <<ring, late, shardSessions, flush>>
        /\ \A s \in SessionId : Queued(s)' <=> Queued(s) \/ s = srv.on
    BY <1>1, <1>6, QueuedHandOff DEF QuitHandOff, flushVars
  <2>2. \A s \in SessionId : Reachable(s) => Reachable(s)'
    BY <2>1 DEF Reachable, Queued
  <2>. QED BY <1>1, <2>1, <2>2, RetiringKept
<1>7. CASE FinalFlush \/ Disable
  <2>1. /\ UNCHANGED <<ring, late, shardSessions, shardDeparted, flush>>
        /\ srv.step \in {"idle", "unregistered"}
    BY <1>7 DEF FinalFlush, Disable, Idle, regVars, flushVars
  <2>2. \A s \in SessionId : Reachable(s) => Reachable(s)'
    BY <2>1 DEF Reachable
  <2>. QED BY <1>1, <2>1, <2>2, RetiringKept
<1>8. ASSUME NEW c \in SessionId, Receive(c) \/ FindSession(c) PROVE RetiringLosesNothing'
  <2>1. UNCHANGED <<ring, late, shardSessions, shardDeparted, flush, srv>>
    BY <1>8 DEF Receive, FindSession, regVars, flushVars
  <2>2. \A s \in SessionId : Reachable(s) => Reachable(s)'
    BY <2>1 DEF Reachable
  <2>. QED BY <1>1, <2>1, <2>2, RetiringKept
<1>9. CASE JoinStart
  <2>1. /\ srv.on \in SessionId /\ "main" \in Lane /\ srv.step = "joinStart"
        /\ <<srv.on, "start", 0>> \in EventId
    BY <1>1, <1>9, PipelineAssumption DEF JoinStart, Registered, Lane, EventId
  <2>2. /\ Enqueue(srv.on, "main", <<srv.on, "start", 0>>)
        /\ UNCHANGED <<flush, shardSessions, shardDeparted>>
    BY <1>9 DEF JoinStart, regVars, flushVars
  <2>. QED BY <1>1, <2>1, <2>2, RetiringOffered
<1>10. ASSUME NEW p \in Players, ServerEvent(p) \/ Quit(p) PROVE RetiringLosesNothing'
  <2>1. /\ sessions[p] \in SessionId /\ "main" \in Lane /\ srv.step = "idle"
        /\ events \in 0 .. MaxEvents
    BY <1>1, <1>10 DEF ServerEvent, Quit, Types, Working, Lane, Idle
  <2>2. <<sessions[p], "main", events>> \in EventId /\ <<sessions[p], "end", 0>> \in EventId
    BY <2>1, PipelineAssumption DEF EventId
  <2>3. /\ \/ Enqueue(sessions[p], "main", <<sessions[p], "main", events>>)
           \/ Enqueue(sessions[p], "main", <<sessions[p], "end", 0>>)
        /\ UNCHANGED <<flush, shardSessions, shardDeparted>>
    BY <1>10 DEF ServerEvent, Quit, regVars, flushVars
  <2>. QED BY <1>1, <2>1, <2>2, <2>3, RetiringOffered
<1>11. ASSUME NEW c \in SessionId, PublishPacket(c) PROVE RetiringLosesNothing'
  <2>1. /\ "packet" \in Lane /\ net[c].on \in SessionId
        /\ <<net[c].on, "packet", net[c].event>> \in EventId
    BY <1>1, <1>11, InFlight DEF PublishPacket, Lane, EventId
  <2>2. /\ Enqueue(net[c].on, "packet", <<net[c].on, "packet", net[c].event>>)
        /\ UNCHANGED <<flush, shardSessions, shardDeparted, srv>>
    BY <1>11 DEF PublishPacket, regVars, flushVars
  <2>. QED BY <1>1, <2>1, <2>2, RetiringOffered
<1>12. ASSUME NEW f \in Flusher, Flush(f) PROVE RetiringLosesNothing'
  <2>1. Held(f) /\ flush[f] \in FlushRec
    BY <1>1 DEF Drains, Types
  <2>2. CASE \/ FlushBegin(f) \/ EndActive(f) \/ EndFlush(f)
             \/ EndFlushWithStats(f) \/ LogStats(f)
    <3>1. /\ UNCHANGED <<ring, late, shardSessions, shardDeparted>>
          /\ flush[f].step \in {"idle", "active", "departed", "stats"}
          /\ \A g \in Flusher \ {f} : flush'[g] = flush[g]
      BY <1>1, <2>2 DEF FlushBegin, EndActive, EndFlush, EndFlushWithStats, LogStats, Return,
                        regVars, Types
    <3>2. flush[f].on = {}
      BY <2>1, <3>1 DEF Held, Releasing
    <3>3. srv' = srv \/ srv.step = "finalFlush"
      <4>1. CASE EndFlush(f) \/ LogStats(f)
        BY <1>1, <4>1, TwoFlushers DEF EndFlush, LogStats, Return, Final, Finishing
      <4>. QED BY <2>2, <4>1 DEF FlushBegin, EndActive, EndFlushWithStats
    <3>4. \A s \in SessionId : Reachable(s) => Reachable(s)'
      BY <3>1, <3>2, <3>3 DEF Reachable
    <3>. QED BY <1>1, <3>1, <3>4, RetiringKept
  <2>3. CASE VisitActive(f)
    <3>1. /\ UNCHANGED <<ring, late, shardSessions, shardDeparted, srv>>
          /\ flush[f].step = "active"
          /\ \A g \in Flusher \ {f} : flush'[g] = flush[g]
      BY <1>1, <2>3 DEF VisitActive, Encode, regVars, Types
    <3>2. flush[f].on = {}
      BY <2>1, <3>1 DEF Held, Releasing
    <3>3. \A s \in SessionId : Reachable(s) => Reachable(s)'
      BY <3>1, <3>2 DEF Reachable
    <3>. QED BY <1>1, <3>1, <3>3, RetiringKept
  <2>4. CASE PollDeparted(f)
    <3>. DEFINE t == Head(shardDeparted[f[1]])
    <3>1. /\ t \in SessionId
          /\ \A u \in SessionId : Queued(u) => Queued(u)' \/ u = t
      BY <1>1, <2>4, QueuedPoll
    <3>2. /\ UNCHANGED <<ring, late, shardSessions, srv>>
          /\ flush[f].step = "departed"
          /\ \A g \in Flusher \ {f} : flush'[g] = flush[g]
          /\ Contents(t) # {} => flush'[f].on = {<<t, Contents(t)>>}
      BY <1>1, <2>1, <2>4 DEF PollDeparted, Encode, Types, FlushRec
    <3>3. flush[f].on = {}
      BY <2>1, <3>2 DEF Held, Releasing
    <3>. HIDE DEF t
    <3>4. ASSUME Contents(t) # {} PROVE \E h \in flush'[f].on : h[1] = t
      <4>1. flush'[f].on = {<<t, Contents(t)>>}
        BY <3>2, <3>4
      <4>. QED BY <4>1
    <3>5. \A s \in SessionId : Reachable(s) /\ Contents(s) # {} => Reachable(s)'
      <4>1. ASSUME NEW s \in SessionId, Reachable(s), Contents(s) # {} PROVE Reachable(s)'
        <5>1. CASE Queued(s)
          <6>1. CASE s = t
            BY <3>4, <4>1, <6>1 DEF Reachable
          <6>2. CASE s # t
            BY <3>1, <4>1, <5>1, <6>2 DEF Reachable, Queued
          <6>. QED BY <6>1, <6>2
        <5>2. CASE ~Queued(s)
          BY <3>2, <3>3, <4>1, <5>2 DEF Reachable, Queued
        <5>. QED BY <5>1, <5>2
      <4>. QED BY <4>1
    <3>. QED BY <1>1, <3>2, <3>5, RetiringKept
  <2>5. CASE Release(f)
    <3>1. /\ UNCHANGED <<shardSessions, shardDeparted, late, srv>>
          /\ flush[f].step \in Releasing
          /\ \A g \in Flusher \ {f} : flush'[g] = flush[g]
      BY <1>1, <2>5 DEF Release, Types, regVars, Releasing
    <3>2. PICK h \in flush[f].on :
            /\ h[1] \in SessionId
            /\ \A u \in SessionId : u # h[1] => Contents(u)' = Contents(u)
            /\ \A u \in SessionId : u = h[1] => Contents(u)' = Contents(u) \ h[2]
      BY <1>1, <2>5, ReleaseTakes
    <3>3. ASSUME NEW s \in SessionId, s # h[1] PROVE Reachable(s) => Reachable(s)'
      <4>1. \A j \in flush[f].on : j[1] # s
        BY <2>1, <3>2, <3>3 DEF Held
      <4>. QED BY <3>1, <4>1 DEF Reachable
    <3>4. ASSUME NEW s \in SessionId, s = h[1], ~Reachable(s)' PROVE Contents(s)' \subseteq late
      <4>1. flush[f].step # "releaseActive"
        <5>1. ~Known(s)
          BY <3>1, <3>4 DEF Known, Queued, Reachable
        <5>. QED BY <2>1, <3>4, <5>1 DEF Held
      <4>2. Contents(s) \subseteq h[2] \cup late
        BY <2>1, <3>1, <3>4, <4>1 DEF Held, Releasing
      <4>. QED BY <3>2, <3>4, <4>2
    <3>5. ASSUME NEW s \in SessionId, ~Reachable(s)' PROVE Contents(s)' \subseteq late'
      BY <1>1, <3>1, <3>2, <3>3, <3>4, <3>5 DEF RetiringLosesNothing
    <3>. QED BY <3>5 DEF RetiringLosesNothing
  <2>6. ~VisitLive(f)
    BY DEF VisitLive
  <2>. QED BY <1>12, <2>2, <2>3, <2>4, <2>5, <2>6 DEF Flush
<1>. QED BY <1>2, <1>3, <1>4, <1>5, <1>6, <1>7, <1>8, <1>9, <1>10, <1>11, <1>12
     DEF Next, Server, Netty
-----------------------------------------------------------------------------
(* The final flush *)

\* At the start no final flush runs.
LEMMA FinalInit == Init => Final
BY DEF Init, Final, FinalFlushTakesAll, Idle

\* Before the final flush starts there is nothing to keep.
LEMMA FinalBefore ==
  ASSUME Final, UNCHANGED flush, srv.step \notin {"finalFlush", "closed"},
         \/ srv'.step \notin {"finalFlush", "closed"}
         \/ srv'.step = "finalFlush" /\ srv'.on = AllShards
  PROVE  Final'
<1>1. \A f \in Flusher : f[2] = "final" => flush'[f].step = "idle"
  BY DEF Final, Finishing
<1>2. \A s \in SessionId : ~(ShardOf(s) < AllShards)
  <2>1. \A s \in SessionId : ShardOf(s) \in Nat
    BY Numbers
  <2>. QED BY <2>1 DEF AllShards
<1>. QED BY <1>1, <1>2 DEF Final, FinalFlushTakesAll

\* Once the listener is unregistered, what is offered is late.
LEMMA FinalOffered ==
  ASSUME Types, Final, NEW s \in SessionId, NEW l \in Lane, NEW e \in EventId, Enqueue(s, l, e),
         UNCHANGED <<flush, shardSessions, srv>>
  PROVE  Final'
<1>1. CASE ~Stopping
  BY <1>1, FinalBefore DEF Stopping
<1>2. CASE Stopping
  <2>1. /\ late \subseteq late'
        /\ \A u \in SessionId : Contents(u)' \subseteq Contents(u) \cup {e}
        /\ \A u \in SessionId : u # s => Contents(u)' = Contents(u)
        /\ Contents(s)' = Contents(s) \/ e \in late'
    BY <1>2, Offered
  <2>2. \A u \in SessionId : Contents(u) \subseteq late => Contents(u)' \subseteq late'
    BY <2>1
  <2>3. /\ srv'.step = "finalFlush" =>
             \A u \in SessionId : ShardOf(u) < srv'.on => Contents(u)' \subseteq late'
        /\ FinalFlushTakesAll'
    BY <2>2 DEF Final, FinalFlushTakesAll
  <2>4. ASSUME NEW f \in Flusher, f[2] = "final", flush[f].step # "idle" PROVE Finishing(f)'
    <3>1. Finishing(f) /\ flush[f].seen \subseteq SessionId /\ shardSessions \subseteq SessionId
      BY <2>4 DEF Final, Types, FlushRec
    <3>. QED BY <2>2, <3>1 DEF Finishing
  <2>. QED BY <2>3, <2>4 DEF Final
<1>. QED BY <1>1, <1>2

\* A step of one flusher leaves what another's final flush has been through.
LEMMA FinalOther ==
  ASSUME Types, Final, NEW f \in Flusher, UNCHANGED <<late, shardSessions, srv>>,
         \A g \in Flusher \ {f} : flush'[g] = flush[g],
         \A u \in SessionId : Contents(u)' \subseteq Contents(u),
         f[2] = "final" /\ flush'[f].step # "idle" => Finishing(f)'
  PROVE  Final'
<1>1. /\ srv'.step = "finalFlush" =>
           \A u \in SessionId : ShardOf(u) < srv'.on => Contents(u)' \subseteq late'
      /\ FinalFlushTakesAll'
  BY DEF Final, FinalFlushTakesAll
<1>2. ASSUME NEW g \in Flusher \ {f}, g[2] = "final", flush[g].step # "idle" PROVE Finishing(g)'
  <2>1. Finishing(g) /\ flush[g].seen \subseteq SessionId /\ shardSessions \subseteq SessionId
    BY <1>2 DEF Final, Types, FlushRec
  <2>. QED BY <2>1 DEF Finishing
<1>. QED BY <1>1, <1>2 DEF Final

\* Every step keeps what the final flush has been through empty but for late
\* events.
LEMMA FinalStep == IInv /\ Next /\ ~UNCHANGED core => Final'
<1>. SUFFICES ASSUME IInv, Next, ~UNCHANGED core PROVE Final'
  OBVIOUS
<1>1. Types /\ Registered /\ Fresh /\ Drains /\ Final /\ RetiringLosesNothing
  BY DEF IInv
<1>2. ASSUME NEW p \in Players, Join(p) PROVE Final'
  BY <1>1, <1>2, FinalBefore DEF Join, At, Idle, flushVars
<1>3. CASE JoinShard
  BY <1>1, <1>3, FinalBefore DEF JoinShard, At, flushVars
<1>4. CASE JoinStart
  BY <1>1, <1>4, FinalBefore DEF JoinStart, Idle, flushVars
<1>5. ASSUME NEW p \in Players, ServerEvent(p) \/ Quit(p) PROVE Final'
  <2>1. UNCHANGED flush /\ srv.step = "idle" /\ srv'.step \in {"idle", "quitRemove"}
    BY <1>5 DEF ServerEvent, Quit, At, Idle, flushVars
  <2>. QED BY <1>1, <2>1, FinalBefore
<1>6. CASE Retire
  <2>1. UNCHANGED flush /\ srv.step \in {"quitRemove", "quitCount"}
        /\ srv'.step \in {"quitCount", "quitShard"}
    BY <1>6 DEF Retire, RemoveThenCount, At, flushVars
  <2>. QED BY <1>1, <2>1, FinalBefore
<1>7. CASE QuitShard \/ QuitHandOff
  <2>1. UNCHANGED flush /\ srv.step \in {"quitShard", "quitHandOff"}
        /\ srv'.step \in {"quitHandOff", "idle"}
    BY <1>7 DEF QuitShard, QuitHandOff, At, Idle, flushVars
  <2>. QED BY <1>1, <2>1, FinalBefore
<1>8. CASE Disable
  BY <1>1, <1>8, FinalBefore DEF Disable, At, Idle, flushVars
<1>9. CASE FinalFlush
  BY <1>1, <1>9, FinalBefore DEF FinalFlush, At, flushVars
<1>10. ASSUME NEW c \in SessionId, Receive(c) \/ FindSession(c) PROVE Final'
  <2>1. UNCHANGED <<flush, ring, late, shardSessions, srv>>
    BY <1>10 DEF Receive, FindSession, regVars, flushVars
  <2>2. \A s \in SessionId : Contents(s)' = Contents(s)
    BY <2>1 DEF Contents
  <2>3. ASSUME NEW f \in Flusher, f[2] = "final", flush[f].step # "idle" PROVE Finishing(f)'
    <3>1. Finishing(f) /\ flush[f].seen \subseteq SessionId /\ shardSessions \subseteq SessionId
      BY <1>1, <2>3 DEF Final, Types, FlushRec
    <3>. QED BY <2>1, <2>2, <3>1 DEF Finishing
  <2>. QED BY <1>1, <2>1, <2>2, <2>3 DEF Final, FinalFlushTakesAll
<1>11. ASSUME NEW c \in SessionId, PublishPacket(c) PROVE Final'
  <2>1. /\ "packet" \in Lane /\ net[c].on \in SessionId
        /\ <<net[c].on, "packet", net[c].event>> \in EventId
    BY <1>1, <1>11, InFlight DEF PublishPacket, Lane, EventId
  <2>2. /\ Enqueue(net[c].on, "packet", <<net[c].on, "packet", net[c].event>>)
        /\ UNCHANGED <<flush, shardSessions, srv>>
    BY <1>11 DEF PublishPacket, regVars, flushVars
  <2>. QED BY <1>1, <2>1, <2>2, FinalOffered
<1>12. ASSUME NEW f \in Flusher, Flush(f) PROVE Final'
  <2>1. /\ Framed(f) /\ Held(f) /\ flush[f] \in FlushRec /\ f[1] \in Shard
        /\ f[2] = "final" /\ flush[f].step # "idle" => Finishing(f)
    BY <1>1, TwoFlushers DEF Drains, Types, Final
  <2>2. CASE FlushBegin(f)
    <3>1. /\ UNCHANGED <<late, shardSessions, srv, ring>>
          /\ \A g \in Flusher \ {f} : flush'[g] = flush[g]
          /\ flush'[f].step = "active" /\ flush'[f].seen = {}
          /\ flush'[f].must = {s \in shardSessions : ShardOf(s) = f[1]}
          /\ f[2] = "final" => srv.step = "finalFlush" /\ srv.on = f[1]
      BY <1>1, <2>2 DEF FlushBegin, MayFlush, Types, regVars
    <3>2. \A u \in SessionId : Contents(u)' = Contents(u)
      BY <3>1 DEF Contents
    <3>3. f[2] = "final" => Finishing(f)'
      BY <3>1 DEF Finishing, Iterating
    <3>. QED BY <1>1, <3>1, <3>2, <3>3, FinalOther
  <2>3. ASSUME NEW s \in SessionId, NEW st \in Releasing, Encode(f, s, st),
               \/ flush[f].step = "active" /\ st = "releaseActive"
               \/ flush[f].step = "departed" /\ st = "releaseDeparted",
               UNCHANGED <<late, shardSessions, srv, ring>>
        PROVE  Final'
    <3>1. \A g \in Flusher \ {f} : flush'[g] = flush[g]
      BY <1>1, <2>3 DEF Encode, Types
    <3>2. flush[f].on = {} /\ flush[f].seen \subseteq SessionId /\ flush[f].step # "idle"
      BY <2>1, <2>3 DEF Held, Releasing, FlushRec
    <3>3. /\ flush'[f].must = flush[f].must /\ flush'[f].seen = flush[f].seen \cup {s}
          /\ flush'[f].step \in Iterating <=> flush[f].step \in Iterating
          /\ flush'[f].step # "stats"
          /\ Contents(s) = {} \/ \E h \in flush'[f].on : h[1] = s
      <4>1. CASE Contents(s) = {}
        <5>1. flush' = [flush EXCEPT ![f] = [flush[f] EXCEPT !.seen = @ \cup {s}]]
          BY <2>3, <4>1 DEF Encode
        <5>2. flush'[f] = [flush[f] EXCEPT !.seen = @ \cup {s}]
          BY <1>1, <5>1 DEF Types
        <5>3. /\ flush'[f].must = flush[f].must /\ flush'[f].seen = flush[f].seen \cup {s}
              /\ flush'[f].step = flush[f].step
          BY <2>1, <5>2 DEF FlushRec
        <5>. QED BY <2>3, <4>1, <5>3
      <4>2. CASE Contents(s) # {}
        <5>1. flush' = [flush EXCEPT ![f] = [flush[f] EXCEPT !.step = st, !.seen = @ \cup {s},
                                                             !.on = {<<s, Contents(s)>>}]]
          BY <2>3, <4>2 DEF Encode
        <5>2. flush'[f] = [flush[f] EXCEPT !.step = st, !.seen = @ \cup {s},
                                           !.on = {<<s, Contents(s)>>}]
          BY <1>1, <5>1 DEF Types
        <5>3. /\ flush'[f].must = flush[f].must /\ flush'[f].seen = flush[f].seen \cup {s}
              /\ flush'[f].step = st /\ flush'[f].on = {<<s, Contents(s)>>}
          BY <2>1, <5>2 DEF FlushRec
        <5>. QED BY <2>3, <5>3 DEF Iterating, Releasing
      <4>. QED BY <4>1, <4>2
    <3>4. \A u \in SessionId : Contents(u)' = Contents(u)
      BY <2>3 DEF Contents
    <3>5. ASSUME f[2] = "final" PROVE Finishing(f)'
      <4>1. Finishing(f)
        BY <2>1, <3>2, <3>5
      <4>2. \A u \in flush[f].seen : Contents(u) \subseteq late
        BY <3>2, <4>1 DEF Finishing
      <4>3. \A u \in flush'[f].seen :
              (\A h \in flush'[f].on : h[1] # u) => Contents(u)' \subseteq late'
        <5>1. ASSUME NEW u \in flush'[f].seen, \A h \in flush'[f].on : h[1] # u
              PROVE  Contents(u)' \subseteq late'
          <6>1. CASE u = s
            BY <3>3, <3>4, <5>1, <6>1
          <6>2. CASE u # s
            <7>1. u \in flush[f].seen /\ u \in SessionId
              BY <3>2, <3>3, <5>1, <6>2
            <7>. QED BY <2>3, <3>4, <4>2, <7>1
          <6>. QED BY <6>1, <6>2
        <5>. QED BY <5>1
      <4>4. shardSessions \subseteq SessionId
        BY <1>1 DEF Types
      <4>. QED BY <2>3, <3>3, <3>4, <4>1, <4>3, <4>4 DEF Finishing
    <3>. QED BY <1>1, <2>3, <3>1, <3>4, <3>5, FinalOther
  <2>4. CASE VisitActive(f)
    <3>1. PICK s \in (flush[f].must \cup {u \in shardSessions : ShardOf(u) = f[1]})
                      \ flush[f].seen :
            Encode(f, s, "releaseActive")
      BY <2>4 DEF VisitActive
    <3>2. flush[f].step = "active" /\ UNCHANGED <<late, shardSessions, srv, ring>>
      BY <2>4 DEF VisitActive, regVars
    <3>3. s \in SessionId /\ "releaseActive" \in Releasing
      BY <1>1, <2>1, <3>1 DEF Types, FlushRec, Releasing
    <3>. QED BY <2>3, <3>1, <3>2, <3>3
  <2>5. CASE PollDeparted(f)
    <3>1. Head(shardDeparted[f[1]]) \in SessionId
      BY <1>1, <2>5, QueuedPoll
    <3>2. /\ flush[f].step = "departed" /\ UNCHANGED <<late, shardSessions, srv, ring>>
          /\ Encode(f, Head(shardDeparted[f[1]]), "releaseDeparted")
      BY <2>5 DEF PollDeparted
    <3>3. "releaseDeparted" \in Releasing
      BY DEF Releasing
    <3>. QED BY <2>3, <3>1, <3>2, <3>3
  <2>6. CASE Release(f)
    <3>1. /\ UNCHANGED <<late, shardSessions, srv>> /\ flush[f].step \in Releasing
          /\ flush'[f].on = {} /\ flush'[f].must = flush[f].must /\ flush'[f].seen = flush[f].seen
          /\ flush'[f].step = IF flush[f].step = "releaseActive" THEN "active" ELSE "departed"
          /\ \A g \in Flusher \ {f} : flush'[g] = flush[g]
      BY <1>1, <2>1, <2>6 DEF Release, Types, FlushRec, Releasing, regVars
    <3>2. PICK h \in flush[f].on :
            /\ h[1] \in SessionId
            /\ \A u \in SessionId : u # h[1] => Contents(u)' = Contents(u)
            /\ \A u \in SessionId : u = h[1] => Contents(u)' = Contents(u) \ h[2]
      BY <1>1, <2>6, ReleaseTakes
    <3>3. \A u \in SessionId : Contents(u)' \subseteq Contents(u)
      BY <3>2
    <3>4. ASSUME f[2] = "final" PROVE Finishing(f)'
      <4>1. Finishing(f) /\ flush[f].seen \subseteq SessionId /\ shardSessions \subseteq SessionId
        BY <1>1, <2>1, <3>1, <3>4 DEF Releasing, FlushRec, Types
      <4>2. \A u \in flush[f].seen : Contents(u)' \subseteq late
        <5>1. ASSUME NEW u \in flush[f].seen, u = h[1] PROVE Contents(u)' \subseteq late
          <6>1. Contents(u) \subseteq h[2] \cup late
            BY <2>1, <3>4, <5>1 DEF Held
          <6>. QED BY <3>2, <4>1, <5>1, <6>1
        <5>2. ASSUME NEW u \in flush[f].seen, u # h[1] PROVE Contents(u)' \subseteq late
          <6>1. \A j \in flush[f].on : j[1] # u
            BY <2>1, <5>2 DEF Held
          <6>. QED BY <3>3, <4>1, <6>1 DEF Finishing
        <5>. QED BY <5>1, <5>2
      <4>3. flush'[f].step \in Iterating <=> flush[f].step \in Iterating
        BY <3>1 DEF Releasing, Iterating
      <4>4. \A s \in shardSessions :
              ShardOf(s) = f[1] =>
                IF flush'[f].step \in Iterating THEN s \in flush'[f].must
                ELSE Contents(s)' \subseteq late
        BY <3>1, <3>3, <4>1, <4>3 DEF Finishing
      <4>. QED BY <3>1, <4>1, <4>2, <4>4 DEF Finishing
    <3>. QED BY <1>1, <3>1, <3>3, <3>4, FinalOther
  <2>7. CASE EndActive(f)
    <3>1. /\ UNCHANGED <<late, shardSessions, srv, ring>> /\ flush[f].step = "active"
          /\ flush'[f].seen = {} /\ flush'[f].step = "departed"
          /\ flush[f].must \cap shardSessions \subseteq flush[f].seen
          /\ \A g \in Flusher \ {f} : flush'[g] = flush[g]
      BY <1>1, <2>1, <2>7 DEF EndActive, Types, FlushRec, regVars
    <3>2. \A u \in SessionId : Contents(u)' = Contents(u)
      BY <3>1 DEF Contents
    <3>3. ASSUME f[2] = "final" PROVE Finishing(f)'
      <4>1. Finishing(f) /\ flush[f].seen \subseteq SessionId
        BY <2>1, <3>1, <3>3 DEF FlushRec
      <4>2. \A s \in shardSessions : ShardOf(s) = f[1] => s \in flush[f].seen
        BY <3>1, <4>1 DEF Finishing, Iterating
      <4>3. flush[f].on = {}
        BY <2>1, <3>1 DEF Held, Releasing
      <4>. QED BY <3>1, <3>2, <4>1, <4>2, <4>3 DEF Finishing, Iterating
    <3>. QED BY <1>1, <3>1, <3>2, <3>3, FinalOther
  <2>8. CASE EndFlush(f) \/ EndFlushWithStats(f) \/ LogStats(f)
    <3>1. /\ UNCHANGED <<late, shardSessions, ring>> /\ flush[f].step \in {"departed", "stats"}
          /\ flush[f].step = "departed" => shardDeparted[f[1]] = <<>>
          /\ flush'[f].seen = {} /\ flush'[f].step \in {"idle", "stats"}
          /\ \A g \in Flusher \ {f} : flush'[g] = flush[g]
      BY <1>1, <2>1, <2>8 DEF EndFlush, EndFlushWithStats, LogStats, Return, Types, FlushRec, regVars
    <3>2. \A u \in SessionId : Contents(u)' = Contents(u)
      BY <3>1 DEF Contents
    <3>3. ASSUME f[2] = "final", NEW s \in SessionId, ShardOf(s) = f[1] PROVE Contents(s) \subseteq late
      <4>1. Finishing(f) /\ flush[f].on = {}
        BY <2>1, <3>1, <3>3 DEF Held, Releasing
      <4>2. CASE flush[f].step = "stats"
        BY <3>3, <4>1, <4>2 DEF Finishing
      <4>3. CASE flush[f].step = "departed" /\ s \in shardSessions
        BY <3>3, <4>1, <4>3 DEF Finishing, Iterating
      <4>4. CASE flush[f].step = "departed" /\ s \notin shardSessions
        <5>1. \A g \in Flusher : \A h \in flush[g].on : h[1] # s
          <6>1. ASSUME NEW g \in Flusher, NEW h \in flush[g].on, h[1] = s PROVE FALSE
            <7>1. Held(g) /\ g[1] = f[1]
              BY <1>1, <3>3, <6>1 DEF Drains, Held
            <7>2. g = Other(f)
              BY <4>1, <6>1, <7>1, TwoFlushers
            <7>3. flush[g].step = "idle"
              BY <2>1, <3>1, <7>2 DEF Framed
            <7>. QED BY <6>1, <7>1, <7>3 DEF Held, Releasing
          <6>. QED BY <6>1
        <5>2. ~Reachable(s)
          BY <3>1, <3>3, <4>1, <4>4, <5>1 DEF Reachable, Finishing
        <5>. QED BY <1>1, <5>2 DEF RetiringLosesNothing
      <4>. QED BY <3>1, <4>2, <4>3, <4>4
    <3>4. CASE EndFlushWithStats(f)
      <4>1. UNCHANGED srv /\ flush'[f].step = "stats"
        BY <1>1, <3>4 DEF EndFlushWithStats, Types
      <4>2. ASSUME f[2] = "final" PROVE Finishing(f)'
        <5>1. Finishing(f)
          BY <2>1, <3>1, <4>2
        <5>2. \A s \in SessionId : ShardOf(s) = f[1] => Contents(s)' \subseteq late'
          BY <3>1, <3>2, <3>3, <4>2
        <5>3. shardSessions' \subseteq SessionId
          BY <1>1, <3>1 DEF Types
        <5>. QED BY <3>1, <4>1, <5>1, <5>2, <5>3 DEF Finishing, Iterating
      <4>. QED BY <1>1, <3>1, <3>2, <4>1, <4>2, FinalOther
    <3>5. ASSUME EndFlush(f) \/ LogStats(f) PROVE Return(f) /\ flush'[f].step = "idle"
      <4>1. Return(f)
        BY <3>5 DEF EndFlush, LogStats
      <4>2. flush'[f].step = "idle"
        BY <1>1, <4>1 DEF Return, Types
      <4>. QED BY <4>1, <4>2
    <3>6. CASE (EndFlush(f) \/ LogStats(f)) /\ f[2] = "pool"
      <4>1. UNCHANGED srv
        BY <3>5, <3>6 DEF Return
      <4>. QED BY <1>1, <3>1, <3>2, <3>6, <4>1, FinalOther
    <3>7. CASE (EndFlush(f) \/ LogStats(f)) /\ f[2] = "final"
      <4>1. Finishing(f) /\ Return(f) /\ flush'[f].step = "idle"
        BY <2>1, <3>1, <3>5, <3>7
      <4>2. \A s \in SessionId : ShardOf(s) < f[1] + 1 => Contents(s) \subseteq late
        <5>1. ASSUME NEW s \in SessionId, ShardOf(s) < f[1] + 1 PROVE Contents(s) \subseteq late
          <6>1. ShardOf(s) \in Nat /\ f[1] \in Nat
            BY <2>1, Numbers
          <6>2. ShardOf(s) < f[1] \/ ShardOf(s) = f[1]
            BY <5>1, <6>1
          <6>3. ShardOf(s) < f[1] => Contents(s) \subseteq late
            BY <1>1, <4>1 DEF Final, Finishing
          <6>. QED BY <3>3, <3>7, <6>2, <6>3
        <5>. QED BY <5>1
      <4>3. \A g \in Flusher : g[2] = "final" => flush'[g].step = "idle"
        <5>1. ASSUME NEW g \in Flusher, g[2] = "final", flush'[g].step # "idle" PROVE FALSE
          <6>1. g # f /\ flush[g].step # "idle"
            BY <3>1, <4>1, <5>1
          <6>2. Finishing(g)
            BY <1>1, <5>1, <6>1 DEF Final
          <6>3. g[1] = f[1]
            BY <4>1, <6>2 DEF Finishing
          <6>. QED BY <3>7, <5>1, <6>1, <6>3, TwoFlushers
        <5>. QED BY <5>1
      <4>4. CASE f[1] + 1 \in Shard
        <5>1. srv'.step = "finalFlush" /\ srv'.on = f[1] + 1
          BY <3>7, <4>1, <4>4 DEF Return, At
        <5>. QED BY <3>1, <3>2, <4>2, <4>3, <5>1 DEF Final, FinalFlushTakesAll
      <4>5. CASE f[1] + 1 \notin Shard
        <5>1. srv'.step = "closed"
          BY <3>7, <4>1, <4>5 DEF Return, At
        <5>2. \A s \in SessionId : ShardOf(s) < f[1] + 1
          <6>1. ASSUME NEW k \in Shard PROVE k < f[1] + 1
            BY <2>1, <4>5, PipelineAssumption DEF Shard
          <6>. QED BY <6>1, Numbers
        <5>. QED BY <3>1, <3>2, <4>2, <4>3, <5>1, <5>2 DEF Final, FinalFlushTakesAll
      <4>. QED BY <4>4, <4>5
    <3>. QED BY <2>8, <3>4, <3>6, <3>7, TwoFlushers
  <2>9. ~VisitLive(f)
    BY DEF VisitLive
  <2>. QED BY <1>12, <2>2, <2>4, <2>5, <2>6, <2>7, <2>8, <2>9 DEF Flush
<1>. QED BY <1>2, <1>3, <1>4, <1>5, <1>6, <1>7, <1>8, <1>9, <1>10, <1>11, <1>12
     DEF Next, Server, Netty
-----------------------------------------------------------------------------
(* One flusher at a time takes the dropped total *)

\* At the start none does.
LEMMA TallierInit == Init => Tallier
BY DEF Init, Tallier, Tallied

\* Every step leaves it to the one that started it.
LEMMA TallierStep == IInv /\ [Next]_vars => Tallier'
<1>. SUFFICES ASSUME IInv, [Next]_vars PROVE Tallier'
  OBVIOUS
<1>1. Types /\ Tallier
  BY DEF IInv
<1>2. ASSUME UNCHANGED tally,
             \A g \in Flusher : flush'[g].step = "stats" <=> flush[g].step = "stats"
      PROVE  Tallier'
  BY <1>1, <1>2 DEF Tallier
<1>3. ASSUME NEW f \in Flusher, EndFlushWithStats(f) PROVE Tallier'
  <2>1. /\ tally.step = "idle" /\ tally'.step = "live"
        /\ flush'[f].step = "stats" /\ \A g \in Flusher \ {f} : flush'[g] = flush[g]
    BY <1>1, <1>3 DEF EndFlushWithStats, DepartedThenLive, Tallying, Types
  <2>. QED BY <1>1, <2>1 DEF Tallier
<1>4. ASSUME NEW f \in Flusher, LogStats(f) PROVE Tallier'
  <2>1. /\ flush[f].step = "stats" /\ flush'[f].step = "idle"
        /\ \A g \in Flusher \ {f} : flush'[g] = flush[g]
    BY <1>1, <1>4 DEF LogStats, Return, Types
  <2>2. tally'.step = "idle"
    BY <1>1, <1>4, <2>1 DEF LogStats, DepartedThenLive, Tallied, Tallier
  <2>. QED BY <1>1, <2>1, <2>2 DEF Tallier
<1>5. ASSUME NEW f \in Flusher, VisitLive(f) PROVE Tallier'
  <2>1. UNCHANGED flush /\ tally'.step = tally.step
    BY <1>1, <1>5 DEF VisitLive, core, flushVars, Types, TallyRec
  <2>. QED BY <1>1, <2>1 DEF Tallier
<1>6. ASSUME NEW f \in Flusher,
             \/ FlushBegin(f) \/ VisitActive(f) \/ Release(f) \/ EndActive(f)
             \/ PollDeparted(f) \/ EndFlush(f)
      PROVE  Tallier'
  <2>1. /\ UNCHANGED tally /\ flush[f].step # "stats"
        /\ \A g \in Flusher \ {f} : flush'[g] = flush[g]
    BY <1>1, <1>6 DEF FlushBegin, VisitActive, Encode, Release, EndActive, PollDeparted, EndFlush,
                      Return, Types
  <2>2. flush'[f].step # "stats"
    <3>1. flush \in [Flusher -> FlushRec] /\ flush[f] \in FlushRec
      BY <1>1 DEF Types
    <3>2. CASE FlushBegin(f) \/ EndActive(f) \/ EndFlush(f)
      <4>1. flush'[f].step \in {"active", "departed", "idle"}
        <5>1. CASE FlushBegin(f)
          BY <3>1, <5>1 DEF FlushBegin
        <5>2. CASE EndActive(f)
          BY <3>1, <5>2 DEF EndActive, FlushRec
        <5>3. CASE EndFlush(f)
          BY <3>1, <5>3 DEF EndFlush, Return, FlushRec
        <5>. QED BY <3>2, <5>1, <5>2, <5>3
      <4>. QED BY <4>1
    <3>3. CASE Release(f)
      BY <3>1, <3>3 DEF Release, FlushRec
    <3>4. ASSUME NEW s, NEW st, st # "stats", Encode(f, s, st) PROVE flush'[f].step # "stats"
      <4>1. CASE Contents(s) = {}
        BY <2>1, <3>1, <3>4, <4>1 DEF Encode, FlushRec
      <4>2. CASE Contents(s) # {}
        BY <2>1, <3>1, <3>4, <4>2 DEF Encode, FlushRec
      <4>. QED BY <4>1, <4>2
    <3>5. CASE VisitActive(f) \/ PollDeparted(f)
      BY <3>4, <3>5 DEF VisitActive, PollDeparted
    <3>. QED BY <1>6, <3>2, <3>3, <3>5
  <2>. QED BY <1>2, <2>1, <2>2
<1>7. CASE UNCHANGED <<flush, tally>>
  BY <1>2, <1>7
<1>8. ASSUME NEW p \in Players, Join(p) \/ Quit(p) \/ ServerEvent(p)
      PROVE  UNCHANGED <<flush, tally>>
  BY <1>8 DEF Join, Quit, ServerEvent, flushVars
<1>9. ASSUME NEW c \in SessionId, Netty(c) PROVE UNCHANGED <<flush, tally>>
  BY <1>9 DEF Netty, Receive, FindSession, PublishPacket, flushVars
<1>10. ASSUME Server \/ Disable PROVE UNCHANGED <<flush, tally>>
  BY <1>10 DEF Server, Disable, JoinShard, JoinStart, Retire, QuitShard, QuitHandOff, FinalFlush,
               flushVars
<1>11. ASSUME UNCHANGED vars PROVE UNCHANGED <<flush, tally>>
  BY <1>11 DEF vars, core, flushVars
<1>. QED BY <1>3, <1>4, <1>5, <1>6, <1>7, <1>8, <1>9, <1>10, <1>11 DEF Next, Flush
-----------------------------------------------------------------------------
(* The theorems *)

\* The invariant holds at the start ...
LEMMA InvariantInit == Init => IInv
BY TypesInit, TallierInit, BoundedInit, RegisteredInit, FreshInit, DrainsInit, FinalInit,
   RetiringInit DEF IInv

\* ... and is kept by every step.
LEMMA InvariantStep == IInv /\ [Next]_vars => IInv'
<1>. SUFFICES ASSUME IInv, [Next]_vars PROVE IInv'
  OBVIOUS
<1>1. Types'
  <2>1. CASE UNCHANGED vars
    BY <2>1 DEF IInv, Types, vars, core, regVars, countVars, flushVars
  <2>. QED BY <2>1, TypesStep
<1>2. CASE Next /\ ~UNCHANGED core
  BY <1>1, <1>2, TallierStep, BoundedStep, RegisteredStep, FreshStep, DrainsStep, FinalStep,
     RetiringStep DEF IInv
<1>3. CASE UNCHANGED core
  <2>1. UNCHANGED <<nextSession, player, sessions, shardSessions, shardDeparted, departedDropped,
                    dropped, offThread, events, ring, owner, net, srv, flush, frame, written,
                    failed, late>>
    BY <1>3 DEF core, regVars, countVars, flushVars
  <2>2. /\ \A s \in SessionId : /\ Contents(s)' = Contents(s)
                                /\ (Live(s)' <=> Live(s)) /\ (Queued(s)' <=> Queued(s))
                                /\ (Known(s)' <=> Known(s)) /\ (Reachable(s)' <=> Reachable(s))
        /\ Live(srv.on)' <=> Live(srv.on)
        /\ \A x \in EventId : Used(x)' <=> Used(x)
    BY <2>1 DEF Contents, Live, Queued, Known, Reachable, Used
  <2>3. Bounded'
    BY <2>1 DEF IInv, Bounded
  <2>4. Registered'
    BY <2>1, <2>2 DEF IInv, Registered
  <2>5. Fresh'
    BY <2>1, <2>2, PipelineAssumption DEF IInv, Fresh, EventId
  <2>6. Drains'
    <3>1. Types /\ Drains /\ nextSession \in Nat
      BY PipelineAssumption DEF IInv, Types
    <3>2. nextSession <= nextSession'
      BY <2>1, <3>1
    <3>. QED BY <2>1, <2>2, <3>1, <3>2, DrainsKept DEF flushVars
  <2>7. Final'
    <3>1. Final /\ shardSessions \subseteq SessionId
      BY DEF IInv, Types
    <3>2. ASSUME NEW f \in Flusher, f[2] = "final", flush[f].step # "idle" PROVE Finishing(f)'
      <4>1. Finishing(f) /\ flush[f].seen \subseteq SessionId
        BY <3>1, <3>2 DEF Final, IInv, Types, FlushRec
      <4>. QED BY <2>1, <2>2, <3>1, <4>1 DEF Finishing
    <3>. QED BY <2>1, <2>2, <3>1, <3>2 DEF Final, FinalFlushTakesAll
  <2>8. RetiringLosesNothing'
    BY <2>1, <2>2 DEF IInv, RetiringLosesNothing
  <2>. QED BY <1>1, TallierStep, <2>3, <2>4, <2>5, <2>6, <2>7, <2>8 DEF IInv
<1>. QED BY <1>2, <1>3 DEF vars

\* The hand-off and the drains stay in order: the inductive invariant of the
\* capture of sessions (CaptureManager, WriterTask, onDisable).
THEOREM CaptureInvariant == Spec => []IInv
BY InvariantInit, InvariantStep, PTL DEF Spec

\* Every variable keeps its type and no ring outgrows its slots.
THEOREM CaptureTypes == Spec => []TypeOK
<1>1. IInv => TypeOK
  <2>. SUFFICES ASSUME IInv PROVE TypeOK
    OBVIOUS
  <2>1. Types /\ Tallier /\ Bounded /\ Registered
    BY DEF IInv
  <2>2. \A h \in Shard : \A i \in DOMAIN shardDeparted[h] :
          shardDeparted[h][i] \in {s \in SessionId : ShardOf(s) = h}
    <3>1. ASSUME NEW h \in Shard, NEW i \in DOMAIN shardDeparted[h]
          PROVE  shardDeparted[h][i] \in SessionId
      BY <2>1, <3>1 DEF Types
    <3>. QED BY <2>1, <3>1 DEF Registered
  <2>3. \A s \in SessionId, l \in Lane :
          ring[s][l] \subseteq EventId /\ Cardinality(ring[s][l]) <= Cap[l]
    BY <2>1 DEF Types, Bounded
  <2>4. \A c \in SessionId : net[c].step \in {"idle", "record", "publish"} /\ net[c].on \in Working
    BY <2>1 DEF Types, NetSteps
  <2>5. \A f \in Flusher : flush[f].must \cup flush[f].seen \subseteq SessionId
                           /\ frame[f] \subseteq EventId
    BY <2>1 DEF Types, FlushRec
  <2>6. /\ tally.total \in Nat /\ tally.must \cup tally.seen \subseteq SessionId
        /\ tally.step = "live" <=> \E f \in Flusher : flush[f].step = "stats"
    BY <2>1 DEF Types, TallyRec, Tallier
  <2>. QED BY <2>1, <2>2, <2>3, <2>4, <2>5, <2>6 DEF TypeOK, Types
<1>. QED BY <1>1, CaptureInvariant, PTL

\* A drained event gets into one frame, and never into a second one: rings are
\* emptied by one thread at a time, by flushOnce's monitor and by the shards.
THEOREM CaptureWritesOnce == Spec => []WrittenOnce
<1>1. IInv => WrittenOnce
  <2>. SUFFICES ASSUME IInv, NEW f \in Flusher
                PROVE  /\ frame[f] \cap (written \cup failed) = {}
                       /\ \A g \in Flusher \ {f} : frame[f] \cap frame[g] = {}
    BY DEF WrittenOnce
  <2>1. frame[f] \cap (written \cup failed) = {}
    BY DEF IInv, Drains, Framed
  <2>. QED BY <2>1, FramesApart DEF IInv
<1>. QED BY <1>1, CaptureInvariant, PTL

\* onQuit's hand-off: no writer loses sight of a session that holds an event
\* published while the session was registered.
THEOREM CaptureRetires == Spec => []RetiringLosesNothing
<1>1. IInv => RetiringLosesNothing
  BY DEF IInv
<1>. QED BY <1>1, CaptureInvariant, PTL

\* onDisable's final flush: afterwards no ring holds an event published before
\* the listener was unregistered, whatever the pool was doing at the time.
THEOREM CaptureFinishes == Spec => []FinalFlushTakesAll
<1>1. IInv => FinalFlushTakesAll
  BY DEF IInv, Final
<1>. QED BY <1>1, CaptureInvariant, PTL

-----------------------------------------------------------------------------
(* The dropped total *)

\* Sessions that left the map and whose drops the departed total holds.
Gone == {s \in 0 .. nextSession - 1 : ~Live(s) /\ ~(srv.step = "quitCount" /\ srv.on = s)}
Counted == departedDropped <= Drops(Gone)

\* Those sessions are sessions, and their drops a number.
LEMMA GoneDrops ==
  ASSUME Types
  PROVE  /\ Gone \subseteq SessionId /\ IsFiniteSet(SessionId)
         /\ \A S \in SUBSET SessionId :
              IsFiniteSet(S) /\ Drops(S) \in Nat /\ \A s \in S : dropped[s] \in Nat
<1>1. Gone \subseteq SessionId
  BY PipelineAssumption DEF Types, Gone, SessionId
<1>2. IsFiniteSet(SessionId)
  BY PipelineAssumption, FS_Interval DEF SessionId
<1>3. ASSUME NEW S \in SUBSET SessionId
      PROVE  IsFiniteSet(S) /\ Drops(S) \in Nat /\ \A s \in S : dropped[s] \in Nat
  <2>1. IsFiniteSet(S) /\ \A s \in S : dropped[s] \in Nat
    BY <1>2, FS_Subset DEF Types
  <2>. QED BY <2>1, SumNat DEF Drops
<1>. QED BY <1>1, <1>2, <1>3

\* Drops are only ever added, so what was counted of sessions that stay gone
\* is covered by what they have dropped since.
LEMMA CountedKept ==
  ASSUME Types, Types', Counted, departedDropped' = departedDropped, Gone \subseteq Gone',
         \A s \in SessionId : dropped[s] <= dropped'[s]
  PROVE  Counted'
<1>1. /\ Gone \subseteq SessionId /\ IsFiniteSet(Gone) /\ \A s \in Gone : dropped[s] \in Nat
      /\ Drops(Gone) \in Nat
  BY GoneDrops
<1>2. Gone' \subseteq SessionId /\ IsFiniteSet(Gone')
  <2>1. Gone' \subseteq SessionId
    BY PipelineAssumption DEF Types, Gone, SessionId
  <2>. QED BY <2>1, FS_Subset, GoneDrops
<1>3. \A s \in Gone' : dropped'[s] \in Nat
  BY <1>2 DEF Types
<1>4. SumFunctionOnSet(dropped, Gone) <= SumFunctionOnSet(dropped', Gone')
      /\ SumFunctionOnSet(dropped', Gone') \in Nat
  <2>1. \A s \in Gone : dropped[s] \in Nat /\ (dropped[s] = 0 \/ (s \in Gone' /\ dropped[s] <= dropped'[s]))
    BY <1>1
  <2>. QED BY <1>1, <1>2, <1>3, <2>1, SumMonotone, SumNat
<1>5. departedDropped \in Nat
  BY DEF Types
<1>. QED BY <1>1, <1>4, <1>5 DEF Counted, Drops

\* A session that left the map stays away, and drops are only ever added.
LEMMA DropsGrow ==
  ASSUME IInv, [Next]_vars
  PROVE  Gone \subseteq Gone' /\ \A s \in SessionId : dropped[s] <= dropped'[s]
<1>0. Types /\ Registered /\ nextSession \in Nat /\ dropped \in [SessionId -> Nat]
  BY PipelineAssumption DEF IInv, Types
<1>1. ASSUME UNCHANGED <<nextSession, player, sessions, dropped>>,
             srv' = srv \/ (srv.step # "quitCount" /\ srv'.step # "quitCount")
      PROVE  Gone' = Gone /\ \A s \in SessionId : dropped[s] <= dropped'[s]
  BY <1>0, <1>1 DEF Gone, Live
<1>2. ASSUME UNCHANGED <<nextSession, player, sessions>>,
             srv' = srv \/ (srv.step # "quitCount" /\ srv'.step # "quitCount"),
             NEW s \in SessionId, NEW l \in Lane, NEW e, Enqueue(s, l, e)
      PROVE  Gone' = Gone /\ \A u \in SessionId : dropped[u] <= dropped'[u]
  <2>1. \A u \in SessionId : dropped[u] <= dropped'[u]
    BY <1>0, <1>2 DEF Enqueue
  <2>. QED BY <1>2, <2>1 DEF Gone, Live
<1>3. ASSUME NEW p \in Players, Join(p)
      PROVE  Gone \subseteq Gone' /\ UNCHANGED dropped
  <2>1. nextSession' = nextSession + 1 /\ UNCHANGED dropped /\ srv.step = "idle"
    BY <1>3 DEF Join, Idle, countVars
  <2>2. \A s \in SessionId : Live(s)' <=> Live(s) \/ s = nextSession
    BY <1>0, <1>3, LiveJoin
  <2>3. srv'.step # "quitCount"
    BY <1>3 DEF Join, At
  <2>. QED BY <1>0, <2>1, <2>2, <2>3, GoneDrops DEF Gone
<1>4. CASE Retire
  <2>1. /\ srv.on \in SessionId /\ srv.on < nextSession
        /\ srv' = At(IF srv.step = "quitRemove" THEN "quitCount" ELSE "quitShard", srv.on)
        /\ \A s \in SessionId : Live(s)' <=> Live(s) /\ s # srv.on
        /\ UNCHANGED <<nextSession, dropped>>
    BY <1>0, <1>4, LiveRetire DEF Retire
  <2>2. srv.step = "quitRemove" => Live(srv.on)
    BY <1>0 DEF Registered
  <2>3. Gone \subseteq Gone'
    <3>1. Gone \subseteq SessionId
      BY <1>0, GoneDrops
    <3>. QED BY <2>1, <2>2, <3>1 DEF Gone, At
  <2>. QED BY <1>0, <2>1, <2>3
<1>5. ASSUME NEW p \in Players, Quit(p) \/ ServerEvent(p)
      PROVE  Gone' = Gone /\ \A u \in SessionId : dropped[u] <= dropped'[u]
  <2>1. /\ UNCHANGED <<nextSession, player, sessions>>
        /\ srv.step = "idle" /\ srv'.step \in {"idle", "quitRemove"}
    BY <1>5 DEF Quit, ServerEvent, Idle, At, regVars
  <2>2. sessions[p] \in SessionId
    BY <1>0, <1>5 DEF Quit, ServerEvent, Types, Working
  <2>3. \E e : Enqueue(sessions[p], "main", e)
    BY <1>5 DEF Quit, ServerEvent
  <2>. QED BY <1>2, <2>1, <2>2, <2>3 DEF Lane
<1>6. CASE JoinStart
  <2>1. /\ UNCHANGED <<nextSession, player, sessions>>
        /\ srv.step = "joinStart" /\ srv'.step = "idle"
        /\ Enqueue(srv.on, "main", <<srv.on, "start", 0>>)
    BY <1>6 DEF JoinStart, Idle, regVars
  <2>2. srv.on \in SessionId
    BY <1>0, <2>1 DEF Registered
  <2>. QED BY <1>2, <2>1, <2>2 DEF Lane
<1>7. ASSUME NEW c \in SessionId, PublishPacket(c)
      PROVE  Gone' = Gone /\ \A u \in SessionId : dropped[u] <= dropped'[u]
  <2>1. /\ UNCHANGED <<nextSession, player, sessions, srv>>
        /\ Enqueue(net[c].on, "packet", <<net[c].on, "packet", net[c].event>>)
    BY <1>7 DEF PublishPacket, regVars
  <2>2. net[c].on \in SessionId
    BY <1>0, <1>7 DEF Registered, PublishPacket
  <2>. QED BY <1>2, <2>1, <2>2 DEF Lane
<1>8. CASE JoinShard \/ QuitShard \/ QuitHandOff \/ FinalFlush \/ Disable
  BY <1>1, <1>8 DEF JoinShard, QuitShard, QuitHandOff, FinalFlush, Disable, Idle, At, countVars, regVars
<1>9. ASSUME NEW c \in SessionId, Receive(c) \/ FindSession(c)
      PROVE  Gone' = Gone /\ \A s \in SessionId : dropped[s] <= dropped'[s]
  BY <1>1, <1>9 DEF Receive, FindSession, regVars
<1>10. ASSUME NEW f \in Flusher, Flush(f)
       PROVE  Gone' = Gone /\ \A s \in SessionId : dropped[s] <= dropped'[s]
  <2>1. UNCHANGED <<nextSession, player, sessions, dropped>>
    BY <1>10 DEF Flush, FlushBegin, VisitActive, Release, EndActive, PollDeparted, EndFlush,
                 EndFlushWithStats, VisitLive, LogStats, core, regVars, countVars
  <2>2. srv' = srv \/ (srv.step # "quitCount" /\ srv'.step # "quitCount")
    <3>1. CASE (EndFlush(f) \/ LogStats(f)) /\ f[2] # "pool"
      <4>1. srv.step = "finalFlush"
        BY <1>0, <3>1 DEF EndFlush, LogStats, IInv, Final, Finishing, Flusher
      <4>. QED BY <3>1, <4>1 DEF EndFlush, LogStats, Return, At
    <3>2. CASE ~((EndFlush(f) \/ LogStats(f)) /\ f[2] # "pool")
      BY <1>10, <3>2 DEF Flush, FlushBegin, VisitActive, Release, EndActive, PollDeparted, EndFlush,
                         EndFlushWithStats, VisitLive, LogStats, Return, core
    <3>. QED BY <3>1, <3>2
  <2>. QED BY <1>1, <2>1, <2>2
<1>11. CASE UNCHANGED vars
  BY <1>1, <1>11 DEF vars, core, regVars, countVars
<1>12. UNCHANGED dropped => \A s \in SessionId : dropped[s] <= dropped'[s]
  BY <1>0
<1>. QED BY <1>3, <1>4, <1>5, <1>6, <1>7, <1>8, <1>9, <1>10, <1>11, <1>12 DEF Next, Server, Netty

\* Only onQuit adds to the departed total.
LEMMA DepartedSame ==
  ASSUME [Next]_vars, ~(Retire /\ srv.step = "quitCount")
  PROVE  UNCHANGED departedDropped
<1>1. ASSUME NEW p \in Players, Join(p) \/ Quit(p) \/ ServerEvent(p)
      PROVE  UNCHANGED departedDropped
  BY <1>1 DEF Join, Quit, ServerEvent, countVars
<1>2. ASSUME Server \/ Disable PROVE UNCHANGED departedDropped
  BY <1>2 DEF Server, Disable, JoinShard, JoinStart, Retire, RemoveThenCount, QuitShard, QuitHandOff,
              FinalFlush, countVars
<1>3. ASSUME NEW c \in SessionId, Netty(c) PROVE UNCHANGED departedDropped
  BY <1>3 DEF Netty, Receive, FindSession, PublishPacket
<1>4. ASSUME NEW f \in Flusher, Flush(f) PROVE UNCHANGED departedDropped
  BY <1>4 DEF Flush, FlushBegin, VisitActive, Release, EndActive, PollDeparted, EndFlush,
              EndFlushWithStats, VisitLive, LogStats, core, countVars
<1>5. CASE UNCHANGED vars
  BY <1>5 DEF vars, core, countVars
<1>. QED BY <1>1, <1>2, <1>3, <1>4, <1>5 DEF Next

\* Every step keeps the count: of a session that leaves the map, the drops are
\* added once it is out.
LEMMA CountedStep == IInv /\ IInv' /\ Counted /\ [Next]_vars => Counted'
<1>. SUFFICES ASSUME IInv, IInv', Counted, [Next]_vars PROVE Counted'
  OBVIOUS
<1>0. Types /\ Types' /\ Registered /\ dropped \in [SessionId -> Nat]
  BY DEF IInv, Types
<1>1. CASE ~(Retire /\ srv.step = "quitCount")
  BY <1>0, <1>1, DepartedSame, DropsGrow, CountedKept
<1>2. CASE Retire /\ srv.step = "quitCount"
  <2>1. /\ srv.on \in SessionId /\ srv.on < nextSession
        /\ srv' = At("quitShard", srv.on)
        /\ \A s \in SessionId : Live(s)' <=> Live(s) /\ s # srv.on
        /\ UNCHANGED <<nextSession, dropped>>
        /\ 0 .. nextSession - 1 \subseteq SessionId /\ srv.on \in 0 .. nextSession - 1
    BY <1>0, <1>2, LiveRetire, PipelineAssumption DEF Retire, Types, SessionId
  <2>2. departedDropped' = departedDropped + dropped[srv.on] /\ srv'.step = "quitShard"
    BY <1>2, <2>1 DEF Retire, RemoveThenCount, At
  <2>3. ~Live(srv.on)
    BY <1>0, <1>2 DEF Registered
  <2>4. srv.on \in Gone' /\ Gone = Gone' \ {srv.on}
    <3>1. \A s \in 0 .. nextSession - 1 : Live(s)' <=> Live(s)
      BY <2>1, <2>3
    <3>2. Gone' = {s \in 0 .. nextSession - 1 : ~Live(s)}
      BY <2>1, <2>2, <3>1 DEF Gone
    <3>3. Gone = {s \in 0 .. nextSession - 1 : ~Live(s)} \ {srv.on}
      BY <1>2 DEF Gone
    <3>. QED BY <2>1, <2>3, <3>2, <3>3
  <2>5. Gone' \subseteq SessionId
    BY <2>1, <2>4, GoneDrops, <1>0
  <2>6. /\ Drops(Gone') = Drops(Gone' \ {srv.on}) + dropped[srv.on]
        /\ Drops(Gone' \ {srv.on}) \in Nat
    <3>1. IsFiniteSet(Gone') /\ \A s \in Gone' : dropped[s] \in Nat
      BY <1>0, <2>5, GoneDrops
    <3>. QED BY <2>4, <3>1, SumRemove DEF Drops
  <2>7. departedDropped \in Nat /\ dropped[srv.on] \in Nat /\ departedDropped <= Drops(Gone)
    BY <1>0, <2>1 DEF Types, Counted
  <2>8. departedDropped' <= Drops(Gone')
    BY <2>2, <2>4, <2>6, <2>7
  <2>. QED BY <2>1, <2>8 DEF Counted, Drops
<1>. QED BY <1>1, <1>2

\* The total so far covers drops of sessions departed when it was begun, which it
\* will not visit, and of those it has visited.
Tallies ==
  /\ tally.step = "idle" => tally.total <= Drops(SessionId)
  /\ tally.step = "live" =>
       \E D \in SUBSET Gone : /\ D \cap (tally.must \cup tally.seen) = {}
                              /\ tally.total <= Drops(D \cup tally.seen)

\* More drops and more sessions make a greater sum.
LEMMA DropsMonotone ==
  ASSUME Types, Types', NEW S \in SUBSET SessionId, NEW T \in SUBSET SessionId, S \subseteq T,
         \A s \in SessionId : dropped[s] <= dropped'[s]
  PROVE  Drops(S) <= SumFunctionOnSet(dropped', T)
<1>1. IsFiniteSet(S) /\ IsFiniteSet(T) /\ \A s \in S : dropped[s] \in Nat
  BY GoneDrops
<1>2. \A s \in T : dropped'[s] \in Nat
  BY DEF Types
<1>3. \A s \in S : dropped[s] \in Nat /\ (dropped[s] = 0 \/ (s \in T /\ dropped[s] <= dropped'[s]))
  BY <1>1
<1>4. SumFunctionOnSet(dropped, S) <= SumFunctionOnSet(dropped', T)
  BY <1>1, <1>2, <1>3, SumMonotone
<1>. QED BY <1>4 DEF Drops

\* Only the stats line takes the total.
LEMMA TallySame ==
  ASSUME [Next]_vars,
         \A f \in Flusher : ~EndFlushWithStats(f) /\ ~VisitLive(f) /\ ~LogStats(f)
  PROVE  UNCHANGED tally
<1>1. ASSUME NEW p \in Players, Join(p) \/ Quit(p) \/ ServerEvent(p)
      PROVE  UNCHANGED tally
  BY <1>1 DEF Join, Quit, ServerEvent
<1>2. ASSUME Server \/ Disable PROVE UNCHANGED tally
  BY <1>2 DEF Server, Disable, JoinShard, JoinStart, Retire, QuitShard, QuitHandOff, FinalFlush
<1>3. ASSUME NEW c \in SessionId, Netty(c) PROVE UNCHANGED tally
  BY <1>3 DEF Netty, Receive, FindSession, PublishPacket
<1>4. ASSUME NEW f \in Flusher, Flush(f) PROVE UNCHANGED tally
  BY <1>4 DEF Flush, FlushBegin, VisitActive, Release, EndActive, PollDeparted, EndFlush
<1>5. CASE UNCHANGED vars
  BY <1>5 DEF vars
<1>. QED BY <1>1, <1>2, <1>3, <1>4, <1>5 DEF Next

\* Every step keeps the total within what was dropped.
LEMMA TalliesStep == IInv /\ IInv' /\ Counted /\ Tallies /\ [Next]_vars => Tallies'
<1>. SUFFICES ASSUME IInv, IInv', Counted, Tallies, [Next]_vars PROVE Tallies'
  OBVIOUS
<1>0. /\ Types /\ Types' /\ Tallier /\ tally \in TallyRec /\ tally' \in TallyRec
      /\ Gone \subseteq SessionId /\ Gone \subseteq Gone'
      /\ \A s \in SessionId : dropped[s] <= dropped'[s]
  BY DropsGrow, GoneDrops DEF IInv, Types
<1>1. \A S, T \in SUBSET SessionId :
        S \subseteq T => Drops(S) <= SumFunctionOnSet(dropped', T)
  BY <1>0, DropsMonotone
<1>2. \A S \in SUBSET SessionId : Drops(S) \in Nat /\ SumFunctionOnSet(dropped', S) \in Nat
  <2>1. ASSUME NEW S \in SUBSET SessionId PROVE Drops(S) \in Nat /\ SumFunctionOnSet(dropped', S) \in Nat
    <3>1. Drops(S) \in Nat /\ IsFiniteSet(S)
      BY <1>0, GoneDrops
    <3>2. \A s \in S : dropped'[s] \in Nat
      BY <1>0 DEF Types
    <3>. QED BY <3>1, <3>2, SumNat
  <2>. QED BY <2>1
<1>3. ASSUME tally.step = "live"
      PROVE  \E D \in SUBSET Gone :
               /\ D \cap (tally.must \cup tally.seen) = {}
               /\ D \cup tally.seen \in SUBSET SessionId
               /\ tally.total <= SumFunctionOnSet(dropped', D \cup tally.seen)
  <2>1. PICK D \in SUBSET Gone : /\ D \cap (tally.must \cup tally.seen) = {}
                                 /\ tally.total <= Drops(D \cup tally.seen)
    BY <1>3 DEF Tallies
  <2>2. D \cup tally.seen \in SUBSET SessionId
    BY <1>0 DEF TallyRec
  <2>3. /\ Drops(D \cup tally.seen) <= SumFunctionOnSet(dropped', D \cup tally.seen)
        /\ Drops(D \cup tally.seen) \in Nat
        /\ SumFunctionOnSet(dropped', D \cup tally.seen) \in Nat
    BY <1>1, <1>2, <2>2
  <2>4. tally.total \in Nat
    BY <1>0 DEF TallyRec
  <2>5. tally.total <= SumFunctionOnSet(dropped', D \cup tally.seen)
    BY <2>1, <2>3, <2>4
  <2>. QED BY <2>1, <2>2, <2>5
<1>4. ASSUME tally.total <= Drops(SessionId)
      PROVE  tally.total <= SumFunctionOnSet(dropped', SessionId)
  <2>1. /\ Drops(SessionId) <= SumFunctionOnSet(dropped', SessionId)
        /\ Drops(SessionId) \in Nat /\ SumFunctionOnSet(dropped', SessionId) \in Nat
    BY <1>1, <1>2
  <2>2. tally.total \in Nat
    BY <1>0 DEF TallyRec
  <2>. QED BY <1>4, <2>1, <2>2
<1>5. CASE UNCHANGED tally
  <2>1. tally'.step = "idle" => tally'.total <= SumFunctionOnSet(dropped', SessionId)
    BY <1>4, <1>5 DEF Tallies
  <2>2. tally'.step = "live" =>
          \E D \in SUBSET Gone' : /\ D \cap (tally'.must \cup tally'.seen) = {}
                                  /\ tally'.total <= SumFunctionOnSet(dropped', D \cup tally'.seen)
    BY <1>0, <1>3, <1>5
  <2>. QED BY <2>1, <2>2 DEF Tallies, Drops
<1>6. ASSUME NEW f \in Flusher, EndFlushWithStats(f) PROVE Tallies'
  <2>1. tally' = Tallying(departedDropped)
    BY <1>6 DEF EndFlushWithStats, DepartedThenLive
  <2>2. /\ tally'.step = "live" /\ tally'.total = departedDropped
        /\ tally'.must = LiveSessions /\ tally'.seen = {}
    BY <2>1 DEF Tallying
  <2>3. Gone \cap (tally'.must \cup tally'.seen) = {}
    BY <2>2 DEF Gone, LiveSessions
  <2>4. tally'.total <= SumFunctionOnSet(dropped', Gone \cup tally'.seen)
    <3>1. /\ Drops(Gone) <= SumFunctionOnSet(dropped', Gone)
          /\ Drops(Gone) \in Nat /\ SumFunctionOnSet(dropped', Gone) \in Nat
      BY <1>0, <1>1, <1>2
    <3>2. departedDropped \in Nat /\ departedDropped <= Drops(Gone)
      BY <1>0 DEF Types, Counted
    <3>3. Gone \cup tally'.seen = Gone
      BY <2>2
    <3>4. departedDropped <= SumFunctionOnSet(dropped', Gone)
      BY <3>1, <3>2
    <3>. QED BY <2>2, <3>3, <3>4
  <2>5. \E D \in SUBSET Gone' : /\ D \cap (tally'.must \cup tally'.seen) = {}
                                /\ tally'.total <= SumFunctionOnSet(dropped', D \cup tally'.seen)
    BY <1>0, <2>3, <2>4
  <2>. QED BY <2>2, <2>5 DEF Tallies, Drops
<1>7. ASSUME NEW f \in Flusher, VisitLive(f) PROVE Tallies'
  <2>1. PICK s \in (tally.must \cup LiveSessions) \ tally.seen :
          tally' = [tally EXCEPT !.total = @ + dropped[s], !.seen = @ \cup {s}]
    BY <1>7 DEF VisitLive
  <2>2. /\ tally.step = "live" /\ tally'.step = "live" /\ tally'.must = tally.must
        /\ tally'.total = tally.total + dropped[s] /\ tally'.seen = tally.seen \cup {s}
    BY <1>0, <1>7, <2>1 DEF VisitLive, Tallier, TallyRec
  <2>3. PICK D \in SUBSET Gone :
          /\ D \cap (tally.must \cup tally.seen) = {}
          /\ D \cup tally.seen \in SUBSET SessionId
          /\ tally.total <= SumFunctionOnSet(dropped', D \cup tally.seen)
    BY <1>3, <2>2
  <2>4. s \in SessionId /\ s \notin D \cup tally.seen
    BY <1>0, <2>1, <2>3 DEF Gone, LiveSessions, TallyRec
  <2>5. dropped' = dropped /\ dropped[s] \in Nat
    BY <1>0, <1>7, <2>4 DEF VisitLive, core, countVars, Types
  <2>. DEFINE S == D \cup tally.seen
              T == D \cup (tally.seen \cup {s})
  <2>6. /\ SumFunctionOnSet(dropped', T) = SumFunctionOnSet(dropped', S) + dropped'[s]
        /\ SumFunctionOnSet(dropped', S) \in Nat
    <3>1. T \in SUBSET SessionId /\ s \in T /\ T \ {s} = S
      BY <2>3, <2>4
    <3>. HIDE DEF S, T
    <3>2. IsFiniteSet(T) /\ \A u \in T : dropped'[u] \in Nat
      BY <1>0, <3>1, GoneDrops DEF Types
    <3>. QED BY <3>1, <3>2, SumRemove
  <2>7. tally.total \in Nat
    BY <1>0 DEF TallyRec
  <2>8. tally'.total <= SumFunctionOnSet(dropped', T)
    <3>1. tally.total <= SumFunctionOnSet(dropped', S)
      BY <2>3
    <3>. HIDE DEF S, T
    <3>. QED BY <2>2, <2>5, <2>6, <2>7, <3>1
  <2>9. D \cap (tally'.must \cup tally'.seen) = {}
    BY <2>2, <2>3, <2>4
  <2>10. \E E \in SUBSET Gone' : /\ E \cap (tally'.must \cup tally'.seen) = {}
                                 /\ tally'.total <= SumFunctionOnSet(dropped', E \cup tally'.seen)
    BY <1>0, <2>2, <2>8, <2>9
  <2>. QED BY <2>2, <2>10 DEF Tallies, Drops
<1>8. ASSUME NEW f \in Flusher, LogStats(f) PROVE Tallies'
  <2>1. tally.step = "live" /\ tally'.step = "idle" /\ tally'.total = tally.total
    BY <1>0, <1>8 DEF LogStats, DepartedThenLive, Tallied, Tallier
  <2>2. PICK D \in SUBSET Gone : /\ D \cap (tally.must \cup tally.seen) = {}
                                 /\ tally.total <= Drops(D \cup tally.seen)
    BY <2>1 DEF Tallies
  <2>. DEFINE S == D \cup tally.seen
  <2>3. S \in SUBSET SessionId /\ tally.total <= Drops(S) /\ tally.total \in Nat
    BY <1>0, <2>2 DEF TallyRec
  <2>. HIDE DEF S
  <2>4. /\ Drops(S) <= SumFunctionOnSet(dropped', SessionId)
        /\ Drops(S) \in Nat /\ SumFunctionOnSet(dropped', SessionId) \in Nat
    BY <1>1, <1>2, <2>3
  <2>5. tally.total <= SumFunctionOnSet(dropped', SessionId)
    BY <2>3, <2>4
  <2>. QED BY <2>1, <2>5 DEF Tallies, Drops
<1>. QED BY <1>5, <1>6, <1>7, <1>8, TallySame

\* The stats line's dropped total never counts a session both as live and as
\* departed, whoever joins, quits or drops events while it is taken
\* (CaptureManager.onQuit, totalDropped).
THEOREM CaptureCountsDropsOnce == Spec => []NoDropCountedTwice
<1>1. Init => Counted /\ Tallies
  <2>. SUFFICES ASSUME Init PROVE Counted /\ Tallies
    OBVIOUS
  <2>1. Types /\ departedDropped = 0 /\ tally.step = "idle" /\ tally.total = 0
    BY TypesInit DEF Init, Tallied
  <2>2. Drops(Gone) \in Nat /\ Drops(SessionId) \in Nat
    BY <2>1, GoneDrops
  <2>. QED BY <2>1, <2>2 DEF Counted, Tallies
<1>2. IInv /\ Tallies => NoDropCountedTwice
  <2>. SUFFICES ASSUME IInv, Tallies PROVE NoDropCountedTwice
    OBVIOUS
  <2>1. Types /\ tally \in TallyRec /\ Gone \subseteq SessionId
    BY GoneDrops DEF IInv, Types
  <2>2. CASE tally.step = "live"
    <3>1. PICK D \in SUBSET Gone : tally.total <= Drops(D \cup tally.seen)
      BY <2>2 DEF Tallies
    <3>. DEFINE S == D \cup tally.seen
    <3>2. S \in SUBSET SessionId /\ tally.total <= Drops(S) /\ tally.total \in Nat
      BY <2>1, <3>1 DEF TallyRec
    <3>. HIDE DEF S
    <3>3. IsFiniteSet(S) /\ IsFiniteSet(SessionId) /\ \A s \in SessionId : dropped[s] \in Nat
      BY <2>1, <3>2, GoneDrops
    <3>4. SumFunctionOnSet(dropped, S) <= SumFunctionOnSet(dropped, SessionId)
      <4>1. \A s \in S :
              dropped[s] \in Nat /\ (dropped[s] = 0 \/ (s \in SessionId /\ dropped[s] <= dropped[s]))
        BY <3>2, <3>3
      <4>. QED BY <3>3, <4>1, SumMonotone
    <3>5. Drops(S) \in Nat /\ Drops(SessionId) \in Nat
      BY <2>1, <3>2, GoneDrops
    <3>6. tally.total <= Drops(SessionId)
      BY <3>2, <3>4, <3>5 DEF Drops
    <3>. QED BY <3>6 DEF NoDropCountedTwice
  <2>3. CASE tally.step = "idle"
    BY <2>3 DEF Tallies, NoDropCountedTwice
  <2>. QED BY <2>1, <2>2, <2>3 DEF TallyRec
<1>3. Counted /\ Tallies /\ IInv /\ IInv' /\ [Next]_vars => Counted' /\ Tallies'
  BY CountedStep, TalliesStep
<1>4. Spec => [](Counted /\ Tallies)
  BY <1>1, <1>3, CaptureInvariant, PTL DEF Spec
<1>. QED BY <1>2, <1>4, CaptureInvariant, PTL
=============================================================================
