-------------------------- MODULE CapturePipeline --------------------------
(***************************************************************************)
(* The life of a capture session: CaptureManager registers it on join and  *)
(* retires it on quit, the connection's Netty thread and the server thread *)
(* record into its two rings, one WriterTask per shard flushes the rings   *)
(* to a file, and BenchCapturePlugin.onDisable drains what is left.        *)
(*                                                                         *)
(* A ring is the bounded queue EventRing implements; what a flush takes of *)
(* the two rings of a session is read in one step and released in another. *)
(***************************************************************************)
EXTENDS Integers, Sequences, FiniteSets, FiniteSetsExt

CONSTANTS Players,
          MaxSessions,   \* bound on joins
          MaxEvents,     \* bound on events besides the two markers
          MaxFailed,     \* bound: no frame fails once so many events are in files or lost
          Shards,        \* capture.writer_threads
          PacketCap, MainCap, \* slots of a session's two rings
          NoSession

ASSUME PipelineAssumption ==
  /\ MaxSessions \in Nat /\ MaxEvents \in Nat /\ MaxFailed \in Nat /\ Shards \in Nat \ {0}
  /\ PacketCap \in Nat \ {0} /\ MainCap \in Nat \ {0}
  /\ NoSession \notin Nat \cup Players

SessionId == 0 .. MaxSessions - 1
Shard == 0 .. Shards - 1
ShardOf(s) == s % Shards
Lane == {"packet", "main"}
Cap == [packet |-> PacketCap, main |-> MainCap]
Flusher == Shard \X {"pool", "final"}

VARIABLES
  nextSession,      \* sessionCounter
  player,           \* session -> its player
  sessions,         \* player -> live session
  shardSessions,    \* sessions the writers iterate
  shardDeparted,    \* shard -> retired sessions awaiting their last drain
  departedDropped,  \* drops of retired sessions
  ring,             \* session, lane -> published events not yet released
  owner,            \* session -> connection bound to its packet ring
  dropped,          \* session -> claims refused by a full ring
  offThread,        \* events refused by claimProducer
  events,           \* events offered besides the markers
  net,              \* connection -> step of its Netty thread
  srv,              \* step of the server thread
  flush,            \* flusher -> step, sessions to visit and visited
  frame,            \* flusher -> events encoded into its frame
  written, failed,  \* events in files; events of frames an IOException lost
  tally,            \* totalDropped: its step, its sum (afterwards the total last
                    \* logged), the live sessions to visit and those visited
  late              \* history: events published after their session retired
                    \* or after the listener was unregistered

regVars   == <<nextSession, player, sessions, shardSessions, shardDeparted>>
countVars == <<departedDropped, dropped, offThread, events>>
flushVars == <<flush, frame, written, failed>>
core == <<regVars, countVars, ring, owner, net, srv, flushVars, late>>
vars == <<core, tally>>

Idle == [step |-> "idle", on |-> NoSession]
At(step, s) == [step |-> step, on |-> s]
NetIdle == [step |-> "idle", on |-> NoSession, event |-> 0]
Tallied(total) == [step |-> "idle", total |-> total, must |-> {}, seen |-> {}]
Contents(s) == ring[s].packet \cup ring[s].main

Init ==
  /\ nextSession = 0
  /\ player = [s \in SessionId |-> NoSession]
  /\ sessions = [p \in Players |-> NoSession]
  /\ shardSessions = {}
  /\ shardDeparted = [h \in Shard |-> <<>>]
  /\ departedDropped = 0
  /\ ring = [s \in SessionId |-> [l \in Lane |-> {}]]
  /\ owner = [s \in SessionId |-> NoSession]
  /\ dropped = [s \in SessionId |-> 0]
  /\ offThread = 0 /\ events = 0
  /\ net = [s \in SessionId |-> NetIdle]
  /\ srv = Idle
  /\ flush = [f \in Flusher |-> [step |-> "idle", must |-> {}, seen |-> {}, on |-> {}]]
  /\ frame = [f \in Flusher |-> {}]
  /\ written = {} /\ failed = {} /\ late = {}
  /\ tally = Tallied(0)
-----------------------------------------------------------------------------
(* Recording: claim, fill and publish, or count the drop *)

Stopping == srv.step \in {"unregistered", "finalFlush", "closed"}
Live(s) == player[s] # NoSession /\ sessions[player[s]] = s

OneTooMany(s, lane) == Cardinality(ring[s][lane]) <= Cap[lane]
HasRoom(s, lane) == Cardinality(ring[s][lane]) < Cap[lane]

Enqueue(s, lane, e) ==
  IF HasRoom(s, lane)
    THEN /\ ring' = [ring EXCEPT ![s][lane] = @ \cup {e}]
         /\ late' = IF Live(s) /\ ~Stopping THEN late ELSE late \cup {e}
         /\ UNCHANGED dropped
    ELSE /\ dropped' = [dropped EXCEPT ![s] = @ + 1]
         /\ UNCHANGED <<ring, late>>
-----------------------------------------------------------------------------
(* The server thread: joins, quits, its own events *)

\* onJoin: the session is visible to its Netty thread before any writer
\* knows of it ...
Join(p) ==
  /\ srv = Idle /\ sessions[p] = NoSession
  /\ nextSession < MaxSessions
  /\ nextSession' = nextSession + 1
  /\ player' = [player EXCEPT ![nextSession] = p]
  /\ sessions' = [sessions EXCEPT ![p] = nextSession]
  /\ srv' = At("joinShard", nextSession)
  /\ UNCHANGED <<shardSessions, shardDeparted, countVars, ring, owner, net,
                 flushVars, late, tally>>

JoinShard ==
  /\ srv.step = "joinShard"
  /\ shardSessions' = shardSessions \cup {srv.on}
  /\ srv' = At("joinStart", srv.on)
  /\ UNCHANGED <<nextSession, player, sessions, shardDeparted, countVars, ring,
                 owner, net, flushVars, late, tally>>

\* ... and the listener then records session_start.
JoinStart ==
  /\ srv.step = "joinStart"
  /\ Enqueue(srv.on, "main", <<srv.on, "start", 0>>)
  /\ srv' = Idle
  /\ UNCHANGED <<regVars, departedDropped, offThread, events, owner, net, flushVars, tally>>

\* Any other Bukkit event of a player: commands, inventory, mobs.
ServerEvent(p) ==
  LET s == sessions[p]
  IN /\ srv = Idle /\ s # NoSession
     /\ events < MaxEvents
     /\ events' = events + 1
     /\ Enqueue(s, "main", <<s, "main", events>>)
     /\ UNCHANGED <<regVars, departedDropped, offThread, owner, net, srv, flushVars, tally>>

\* onQuit: session_end, then the session leaves the map, its drops are kept,
\* and it is handed to the writer for one last drain.
Quit(p) ==
  LET s == sessions[p]
  IN /\ srv = Idle /\ s # NoSession
     /\ Enqueue(s, "main", <<s, "end", 0>>)
     /\ srv' = At("quitRemove", s)
     /\ UNCHANGED <<regVars, departedDropped, offThread, events, owner, net, flushVars, tally>>

RemoveThenCount ==
  \/ /\ srv.step = "quitRemove"
     /\ sessions' = [sessions EXCEPT ![player[srv.on]] = NoSession]
     /\ srv' = At("quitCount", srv.on)
     /\ UNCHANGED departedDropped
  \/ /\ srv.step = "quitCount"
     /\ departedDropped' = departedDropped + dropped[srv.on]
     /\ srv' = At("quitShard", srv.on)
     /\ UNCHANGED sessions

Retire ==
  /\ RemoveThenCount
  /\ UNCHANGED <<nextSession, player, shardSessions, shardDeparted, dropped,
                 offThread, events, ring, owner, net, flushVars, late, tally>>

QuitShard ==
  /\ srv.step = "quitShard"
  /\ shardSessions' = shardSessions \ {srv.on}
  /\ srv' = At("quitHandOff", srv.on)
  /\ UNCHANGED <<nextSession, player, sessions, shardDeparted, countVars, ring,
                 owner, net, flushVars, late, tally>>

NoHandOff == shardDeparted
HandOff == [shardDeparted EXCEPT ![ShardOf(srv.on)] = Append(@, srv.on)]

QuitHandOff ==
  /\ srv.step = "quitHandOff"
  /\ shardDeparted' = HandOff
  /\ srv' = Idle
  /\ UNCHANGED <<nextSession, player, sessions, shardSessions, countVars, ring,
                 owner, net, flushVars, late, tally>>
-----------------------------------------------------------------------------
(* A connection's Netty thread *)

\* onPacketReceive looks the session up ...
Receive(c) ==
  /\ net[c].step = "idle"
  /\ ~Stopping
  /\ Live(c)
  /\ events < MaxEvents
  /\ events' = events + 1
  /\ net' = [net EXCEPT ![c] = [step |-> "record", on |-> c, event |-> events]]
  /\ UNCHANGED <<regVars, departedDropped, dropped, offThread, ring, owner, srv,
                 flushVars, late, tally>>

\* ... and recordMovePacket or recordFromPacket looks it up again, by player:
\* gone, or by now perhaps another session of the same player.
FindSession(c) ==
  LET s == sessions[player[c]]
  IN /\ net[c].step = "record"
     /\ IF s = NoSession
          THEN net' = [net EXCEPT ![c] = NetIdle] /\ UNCHANGED <<owner, offThread>>
          ELSE IF owner[s] \in {NoSession, c}
            THEN /\ owner' = [owner EXCEPT ![s] = c]
                 /\ net' = [net EXCEPT ![c].step = "publish", ![c].on = s]
                 /\ UNCHANGED offThread
            ELSE /\ offThread' = offThread + 1
                 /\ net' = [net EXCEPT ![c] = NetIdle]
                 /\ UNCHANGED owner
     /\ UNCHANGED <<regVars, departedDropped, dropped, events, ring, srv,
                    flushVars, late, tally>>

PublishPacket(c) ==
  /\ net[c].step = "publish"
  /\ Enqueue(net[c].on, "packet", <<net[c].on, "packet", net[c].event>>)
  /\ net' = [net EXCEPT ![c] = NetIdle]
  /\ UNCHANGED <<regVars, departedDropped, offThread, events, owner, srv, flushVars, tally>>
-----------------------------------------------------------------------------
(* flushOnce, by the pool's repeating task or by onDisable *)

Other(f) == <<f[1], IF f[2] = "pool" THEN "final" ELSE "pool">>

NoMonitor(f) == TRUE
Monitor(f) == flush[Other(f)].step = "idle"   \* flushOnce is synchronized

MayFlush(f) ==
  IF f[2] = "pool" THEN srv.step \notin {"finalFlush", "closed"}
                   ELSE srv.step = "finalFlush" /\ srv.on = f[1]

FlushBegin(f) ==
  /\ flush[f].step = "idle" /\ MayFlush(f) /\ Monitor(f)
  /\ flush' = [flush EXCEPT ![f] =
       [step |-> "active", seen |-> {}, on |-> {},
        must |-> {s \in shardSessions : ShardOf(s) = f[1]}]]
  /\ frame' = [frame EXCEPT ![f] = {}]
  /\ UNCHANGED <<regVars, countVars, ring, owner, net, srv, written, failed, late, tally>>

\* encodeTo reads what is published, if anything is ...
Encode(f, s, step) ==
  IF Contents(s) = {}
    THEN /\ flush' = [flush EXCEPT ![f].seen = @ \cup {s}]
         /\ UNCHANGED frame
    ELSE /\ flush' = [flush EXCEPT ![f].step = step, ![f].seen = @ \cup {s},
                                   ![f].on = {<<s, Contents(s)>>}]
         /\ frame' = [frame EXCEPT ![f] = @ \cup Contents(s)]

\* ... and its last store makes the slots free again.
Release(f) ==
  /\ flush[f].step \in {"releaseActive", "releaseDeparted"}
  /\ \E h \in flush[f].on :
       ring' = [ring EXCEPT ![h[1]] = [l \in Lane |-> @[l] \ h[2]]]
  /\ flush' = [flush EXCEPT ![f].on = {},
       ![f].step = IF flush[f].step = "releaseActive" THEN "active" ELSE "departed"]
  /\ UNCHANGED <<regVars, countVars, owner, net, srv, frame, written, failed, late, tally>>

\* The iteration over the concurrent map visits what was there throughout, and
\* may visit what came or went meanwhile.
VisitActive(f) ==
  /\ flush[f].step = "active"
  /\ \E s \in (flush[f].must \cup {u \in shardSessions : ShardOf(u) = f[1]}) \ flush[f].seen :
       Encode(f, s, "releaseActive")
  /\ UNCHANGED <<regVars, countVars, ring, owner, net, srv, written, failed, late, tally>>

EndActive(f) ==
  /\ flush[f].step = "active"
  /\ flush[f].must \cap shardSessions \subseteq flush[f].seen
  /\ flush' = [flush EXCEPT ![f].step = "departed", ![f].must = {}, ![f].seen = {}]
  /\ UNCHANGED <<regVars, countVars, ring, owner, net, srv, frame, written,
                 failed, late, tally>>

PollDeparted(f) ==
  /\ flush[f].step = "departed"
  /\ shardDeparted[f[1]] # <<>>
  /\ Encode(f, Head(shardDeparted[f[1]]), "releaseDeparted")
  /\ shardDeparted' = [shardDeparted EXCEPT ![f[1]] = Tail(@)]
  /\ UNCHANGED <<nextSession, player, sessions, shardSessions, countVars, ring,
                 owner, net, srv, written, failed, late, tally>>

\* flushOnce returns, to the executor or to onDisable and the next shard.
Return(f) ==
  /\ flush' = [flush EXCEPT ![f].step = "idle", ![f].seen = {}]
  /\ srv' = IF f[2] = "pool" THEN srv
            ELSE IF f[1] + 1 \in Shard THEN At("finalFlush", f[1] + 1)
            ELSE At("closed", NoSession)

\* Nothing to write, or one frame: opening, rotating, compressing and writing
\* either succeed or throw, and then the frame is gone.
EndFlush(f) ==
  /\ flush[f].step = "departed"
  /\ shardDeparted[f[1]] = <<>>
  /\ \/ written' = written \cup frame[f] /\ UNCHANGED failed
     \/ /\ Cardinality(written \cup failed) < MaxFailed
        /\ failed' = failed \cup frame[f] /\ UNCHANGED written
  /\ frame' = [frame EXCEPT ![f] = {}]
  /\ Return(f)
  /\ UNCHANGED <<regVars, countVars, ring, owner, net, late, tally>>

-----------------------------------------------------------------------------
(* The stats line: totalDropped, beside joins, quits and drops *)

LiveSessions == {s \in SessionId : Live(s)}
AllVisited == tally.must \cap LiveSessions \subseteq tally.seen
Tallying(total) == [step |-> "live", total |-> total, must |-> LiveSessions, seen |-> {}]

\* Mutant: the live sessions first.
LiveThenDeparted ==
  \/ tally.step = "idle" /\ tally' = Tallying(0)
  \/ tally.step = "live" /\ AllVisited /\ tally' = Tallied(tally.total + departedDropped)

\* The drops of the departed are read and the iteration over the live begins; it
\* ends when it has visited what was live throughout.
DepartedThenLive ==
  \/ tally.step = "idle" /\ tally' = Tallying(departedDropped)
  \/ tally.step = "live" /\ AllVisited /\ tally' = Tallied(tally.total)

\* maybeLogStats: every ten seconds a frame of the first shard is written and
\* flushOnce goes on to log the totals.
EndFlushWithStats(f) ==
  /\ flush[f].step = "departed"
  /\ shardDeparted[f[1]] = <<>>
  /\ f[1] = 0 /\ frame[f] # {}
  /\ written' = written \cup frame[f]
  /\ frame' = [frame EXCEPT ![f] = {}]
  /\ flush' = [flush EXCEPT ![f].step = "stats", ![f].seen = {}]
  /\ tally.step = "idle" /\ DepartedThenLive
  /\ UNCHANGED <<regVars, countVars, ring, owner, net, srv, failed, late>>

\* What came or went since the iteration began may be visited too.
VisitLive(f) ==
  /\ flush[f].step = "stats"
  /\ \E s \in (tally.must \cup LiveSessions) \ tally.seen :
       tally' = [tally EXCEPT !.total = @ + dropped[s], !.seen = @ \cup {s}]
  /\ UNCHANGED core

LogStats(f) ==
  /\ flush[f].step = "stats"
  /\ DepartedThenLive
  /\ Return(f)
  /\ UNCHANGED <<regVars, countVars, ring, owner, net, frame, written, failed, late>>
-----------------------------------------------------------------------------
(* onDisable, on the server thread *)

\* The packet listener goes ...
Disable ==
  /\ srv = Idle
  /\ srv' = At("unregistered", NoSession)
  /\ UNCHANGED <<regVars, countVars, ring, owner, net, flushVars, late, tally>>

LastShardOnly == Shards - 1
AllShards == 0   \* from the first shard on

\* ... then the pool takes no new flush; one still running is awaited for five
\* seconds, and after that only by flushOnce's monitor.
FinalFlush ==
  /\ srv.step = "unregistered"
  /\ srv' = At("finalFlush", AllShards)
  /\ UNCHANGED <<regVars, countVars, ring, owner, net, flushVars, late, tally>>
-----------------------------------------------------------------------------
Flush(f) == \/ FlushBegin(f) \/ VisitActive(f) \/ Release(f) \/ EndActive(f)
            \/ PollDeparted(f) \/ EndFlush(f) \/ EndFlushWithStats(f)
            \/ VisitLive(f) \/ LogStats(f)
Server == \/ JoinShard \/ JoinStart \/ Retire \/ QuitShard \/ QuitHandOff \/ FinalFlush
Netty(c) == Receive(c) \/ FindSession(c) \/ PublishPacket(c)

Next ==
  \/ \E p \in Players : Join(p) \/ Quit(p) \/ ServerEvent(p)
  \/ Server \/ Disable
  \/ \E c \in SessionId : Netty(c)
  \/ \E f \in Flusher : Flush(f)

Spec == Init /\ [][Next]_vars

\* The executor reschedules each flush of the pool, and the server thread
\* finishes the handler it is in, onDisable with its flushes included; players
\* and packets owe nothing.
ServerThread == Server \/ \E h \in Shard : Flush(<<h, "final">>)

FairSpec ==
  /\ Spec
  /\ WF_<<srv, flush, tally>>(ServerThread)
  /\ \A h \in Shard : WF_<<flush, tally>>(Flush(<<h, "pool">>))
-----------------------------------------------------------------------------
(* Properties *)

EventId == SessionId \X {"start", "end", "main", "packet"} \X (0 .. MaxEvents)
Working == SessionId \cup {NoSession}

\* Types; a ring never holds more than its slots.
TypeOK ==
  /\ nextSession \in 0 .. MaxSessions
  /\ player \in [SessionId -> Players \cup {NoSession}]
  /\ sessions \in [Players -> Working]
  /\ shardSessions \subseteq SessionId
  /\ \A h \in Shard : \A i \in DOMAIN shardDeparted[h] :
       shardDeparted[h][i] \in {s \in SessionId : ShardOf(s) = h}
  /\ departedDropped \in Nat /\ offThread \in Nat /\ events \in 0 .. MaxEvents
  /\ \A s \in SessionId, l \in Lane :
       ring[s][l] \subseteq EventId /\ Cardinality(ring[s][l]) <= Cap[l]
  /\ owner \in [SessionId -> Working]
  /\ dropped \in [SessionId -> Nat]
  /\ \A c \in SessionId : net[c].step \in {"idle", "record", "publish"}
                          /\ net[c].on \in Working
  /\ srv.on \in Working \cup Shard
  /\ \A f \in Flusher : flush[f].must \cup flush[f].seen \subseteq SessionId
                        /\ frame[f] \subseteq EventId
  /\ written \cup failed \cup late \subseteq EventId
  /\ tally.total \in Nat /\ tally.must \cup tally.seen \subseteq SessionId
  /\ tally.step = "live" <=> \E f \in Flusher : flush[f].step = "stats"

\* A frame never carries an event another frame carries or has carried: a ring
\* is drained by one thread at a time, the pool's or onDisable's.
WrittenOnce ==
  \A f \in Flusher :
    /\ frame[f] \cap (written \cup failed) = {}
    /\ \A g \in Flusher \ {f} : frame[f] \cap frame[g] = {}

\* A writer can still come to the session: it is in the map the writers
\* iterate, in the hand-off queue, or on its way between the two.
Reachable(s) ==
  \/ s \in shardSessions
  \/ \E i \in DOMAIN shardDeparted[ShardOf(s)] : shardDeparted[ShardOf(s)][i] = s
  \/ srv.on = s /\ srv.step \in {"joinShard", "quitRemove", "quitCount", "quitShard",
                                 "quitHandOff"}
  \/ \E f \in Flusher : \E h \in flush[f].on : h[1] = s

\* Retiring a session loses nothing published before it left the map, the
\* session_end marker included (onQuit's hand-off queue).
RetiringLosesNothing ==
  \A s \in SessionId : ~Reachable(s) => Contents(s) \subseteq late

\* "They receive no further writes, so one drain empties them for good."
DrainedForGood ==
  \A s \in SessionId : ~Reachable(s) => Contents(s) = {}

\* "A final synchronous flush so no buffered events are lost on shutdown":
\* once the plugin is disabled no ring holds an event published before the
\* packet listener was unregistered.
FinalFlushTakesAll ==
  srv.step = "closed" =>
    \A s \in SessionId : Contents(s) \subseteq late

\* Every session_end that gets into its ring gets to the writer.
SessionEndReachesWriter ==
  \A s \in SessionId :
    <<s, "end", 0>> \in Contents(s) ~> <<s, "end", 0>> \in written \cup failed

Drops(S) == SumFunctionOnSet(dropped, S)

\* The dropped total of the stats line never counts a drop twice: a session that
\* quits while the total is taken is counted as departed or as live, not as both.
NoDropCountedTwice == tally.total <= Drops(SessionId)
=============================================================================
