--------------------------- MODULE ReplaySession ---------------------------
(***************************************************************************)
(* The sessions of a replay.  Each has a goroutine that connects, waits    *)
(* for play and sends its trace tick by tick, and a reader goroutine that  *)
(* answers the server.  They share the connection, the state word, the     *)
(* channels playReady and readerDone, and the view of the player's         *)
(* position under viewMu -- but a position computed under the lock is sent *)
(* after it.  All sessions share the run's stop channel and counters.      *)
(*                                                                         *)
(* Of a position only this matters: whether what was computed, and what    *)
(* the server was last sent, is still the view's.  Packets that touch      *)
(* nothing the two goroutines share are left out.  Time only passes: a     *)
(* timer may fire whenever it is armed.                                    *)
(***************************************************************************)
EXTENDS Integers, Sequences, FiniteSets, TLC

CONSTANTS Sessions,     \* 0 .. the most a run may launch - 1
          None,
          ResyncTicks,  \* idle ticks between two full positions (20)
          MaxLoops      \* bound on passes: by then the play time is over

Kinds == {"move", "reanchor", "act", "marker"}
States == {"new", "login", "configuration", "play_awaiting_position", "play_ready", "failed"}

ASSUME SessionAssumption ==
  /\ Sessions \subseteq Nat /\ IsFiniteSet(Sessions)
  /\ ResyncTicks \in Nat \ {0} /\ MaxLoops \in Nat \ {0}
  /\ None \notin [state : States, replayed : Nat, loops : Nat]

VARIABLES ses,     \* the sessions
          agg,     \* Aggregate: the counters they share
          budget,  \* bound: positions and configurations the server has left to send
          results, \* Collector.sessions: what each recorded, or None
          stop     \* the run's stop channel is closed

sessionVars == <<ses, agg, budget, results, stop>>

New == [pc |-> "new", state |-> "new", reader |-> "none", ready |-> FALSE, closed |-> FALSE,
        trace |-> <<>>, loop |-> FALSE,
        idx |-> 1, loops |-> 0, replayed |-> 0, idle |-> 0, moved |-> FALSE,
        mine |-> "none", theirs |-> "none",  \* positions computed and not sent yet
        synced |-> FALSE,                    \* the server was last sent the view's position
        behind |-> 0,                        \* history: idle packets while it was not, since
                                             \* the view last changed
        left |-> "no",                       \* history: the reader has left play since the
                                             \* loop began; "hidden": before, and is not back
        off |-> 0]                           \* history: ticks begun since

SessionInit ==
  /\ ses = [s \in Sessions |-> New]
  /\ agg = [connected |-> 0, active |-> 0, failed |-> 0, disconnected |-> 0,
            replayed |-> 0, skipped |-> 0, relocations |-> 0]
  /\ results = [s \in Sessions |-> None]
  /\ stop = FALSE

At(s, where) == ses[s].pc = where

----------------------------------------------------------------------------
(* Connecting                                                               *)

Dial(s) ==
  /\ At(s, "dial")
  /\ \/ /\ ses' = [ses EXCEPT ![s].pc = "login", ![s].state = "login"]
        /\ UNCHANGED agg
     \/ /\ ses' = [ses EXCEPT ![s].pc = "record", ![s].state = "failed"]
        /\ agg' = [agg EXCEPT !.failed = @ + 1]
  /\ UNCHANGED <<budget, results, stop>>

\* Mutant: a session that never played is taken off those in play.
FinishFailedLeaves(s) ==
  /\ ses' = [ses EXCEPT ![s].pc = "record", ![s].state = "failed", ![s].closed = TRUE]
  /\ agg' = [agg EXCEPT !.failed = @ + 1, !.active = @ - 1]
  /\ UNCHANGED <<budget, results, stop>>

FinishFailed(s) ==
  /\ ses' = [ses EXCEPT ![s].pc = "record", ![s].state = "failed", ![s].closed = TRUE]
  /\ agg' = [agg EXCEPT !.failed = @ + 1]
  /\ UNCHANGED <<budget, results, stop>>

\* handshakeAndLogin: waits for the server, and for nothing else.
Login(s) ==
  /\ At(s, "login")
  /\ \/ /\ ses' = [ses EXCEPT ![s].pc = "wait", ![s].state = "configuration",
                              ![s].reader = "config"]
        /\ UNCHANGED <<agg, budget, results, stop>>
     \/ FinishFailed(s)

\* Mutant: a session is active before it counts as connected.
ActiveFirst == <<"active", "connected">>

\* The counters of a session that enters play, in the order they are raised.
InPlay == <<"connected", "active">>

\* The select on playReady, readerDone, stop and 30 seconds; what is ready
\* is chosen among at random.
Await(s) ==
  /\ At(s, "wait")
  /\ \/ /\ ses[s].ready
        /\ ses' = [ses EXCEPT ![s].pc = "enter"]
        /\ agg' = [agg EXCEPT ![InPlay[1]] = @ + 1]
        /\ UNCHANGED <<budget, results, stop>>
     \/ ses[s].reader = "done" /\ FinishFailed(s)
     \/ /\ ses' = [ses EXCEPT ![s].pc = "giveup", ![s].closed = TRUE]
        /\ UNCHANGED <<agg, budget, results, stop>>

GiveUp(s) == At(s, "giveup") /\ ses[s].reader = "done" /\ FinishFailed(s)

\* The state the reader may have set meanwhile is overwritten: of a reader that has
\* gone back to configuration nothing is left to see.
Enter(s) ==
  /\ At(s, "enter")
  /\ ses' = [ses EXCEPT ![s].pc = "pass", ![s].state = "play_ready",
               ![s].left = IF ses[s].reader = "config" THEN "hidden" ELSE "no"]
  /\ agg' = [agg EXCEPT ![InPlay[2]] = @ + 1]
  /\ UNCHANGED <<budget, results, stop>>

----------------------------------------------------------------------------
(* Playing                                                                  *)

\* replayLoop: another pass while the play time lasts.
Pass(s) ==
  /\ At(s, "pass") /\ ses[s].loops < MaxLoops
  /\ ses' = [ses EXCEPT ![s].pc = "play", ![s].idx = 1]
  /\ UNCHANGED <<agg, budget, results, stop>>

\* A pass is over when all its events were sent and its duration has passed;
\* "once" then lingers.
PassEnds(s) ==
  /\ At(s, "play") /\ ses[s].idx > Len(ses[s].trace)
  /\ ses' = [ses EXCEPT ![s].loops = @ + 1, ![s].pc = IF ses[s].loop THEN "pass" ELSE "hold"]
  /\ UNCHANGED <<agg, budget, results, stop>>

\* PlayFor is over: a pass cut short counts as one, and "once" lingers no more.
PlayTimeEnds(s) ==
  /\ \/ At(s, "pass") /\ ses' = [ses EXCEPT ![s].pc = "leave"]
     \/ At(s, "play") /\ ses' = [ses EXCEPT ![s].pc = "leave", ![s].loops = @ + 1]
     \/ At(s, "hold") /\ ses' = [ses EXCEPT ![s].pc = "leave"]
  /\ UNCHANGED <<agg, budget, results, stop>>

\* The select of playOnce and of holdUntil: stop and readerDone.
Interrupted(s) ==
  /\ ses[s].pc \in {"play", "hold"} /\ (stop \/ ses[s].reader = "done")
  /\ ses' = [ses EXCEPT ![s].pc = "leave"]
  /\ UNCHANGED <<agg, budget, results, stop>>

\* Bound: 2 ticks stand for more.
OneMore(ticks) == IF ticks = 2 THEN 2 ELSE ticks + 1

BeginTick(s) ==
  /\ At(s, "play")
  /\ ses' = [ses EXCEPT ![s].pc = "tick", ![s].moved = FALSE,
               ![s].off = IF ses[s].left = "no" THEN @ ELSE OneMore(@)]
  /\ UNCHANGED <<agg, budget, results, stop>>

\* The view changes, computed by one goroutine: what the other holds is old.
Stale(pending) == IF pending = "none" THEN "none" ELSE "old"

\* Mutant: a relocation is the session's alone.
DispatchedApart(s, count) ==
  /\ ses' = [ses EXCEPT ![s].idx = @ + 1,
               ![s].replayed = IF count = "skipped" THEN @ ELSE @ + 1]
  /\ agg' = [agg EXCEPT !.replayed = IF count = "replayed" THEN @ + 1 ELSE @,
                        !.skipped = IF count = "skipped" THEN @ + 1 ELSE @,
                        !.relocations = IF count = "relocation" THEN @ + 1 ELSE @]

Dispatched(s, count) ==
  /\ ses' = [ses EXCEPT ![s].idx = @ + 1,
               ![s].replayed = IF count = "skipped" THEN @ ELSE @ + 1]
  /\ agg' = [agg EXCEPT !.replayed = IF count = "skipped" THEN @ ELSE @ + 1,
                        !.skipped = IF count = "skipped" THEN @ + 1 ELSE @,
                        !.relocations = IF count = "relocation" THEN @ + 1 ELSE @]

\* dispatch, of an event that is due.  A reanchor within reach moves the view,
\* another is counted.
Dispatch(s) ==
  /\ At(s, "tick") /\ ses[s].idx <= Len(ses[s].trace)
  /\ LET kind == ses[s].trace[ses[s].idx] IN
     \/ /\ kind \in {"move", "reanchor"}
        /\ ses' = [ses EXCEPT ![s].pc = "send", ![s].mine = "view", ![s].synced = FALSE,
                     ![s].behind = 0, ![s].theirs = Stale(@)]
        /\ UNCHANGED agg
     \/ kind = "reanchor" /\ Dispatched(s, "relocation")
     \/ kind = "act"      /\ Dispatched(s, "replayed")
     \/ kind = "marker"   /\ Dispatched(s, "skipped")
  /\ UNCHANGED <<budget, results, stop>>

\* Its position packet, after viewMu was released.
SendPosition(s) ==
  /\ At(s, "send")
  /\ ses' = [ses EXCEPT ![s].pc = "tick", ![s].synced = (ses[s].mine = "view"),
               ![s].mine = "none", ![s].behind = IF ses[s].mine = "view" THEN 0 ELSE @,
               ![s].moved = TRUE, ![s].idle = 0,
               ![s].idx = @ + 1, ![s].replayed = @ + 1]
  /\ agg' = [agg EXCEPT !.replayed = @ + 1]
  /\ UNCHANGED <<budget, results, stop>>

\* Where the goroutine sends a full position before it goes on.
Resync == [check |-> "check_resync", hold |-> "hold_resync"]

\* Mutant: the full position is the last one sent, not the view's.
IdleMovementRepeats(s, then) ==
  IF ses[s].state # "play_ready"
  THEN ses' = [ses EXCEPT ![s].pc = then]
  ELSE IF (ses[s].idle + 1) % ResyncTicks = 0
  THEN ses' = [ses EXCEPT ![s].pc = Resync[then], ![s].idle = 0,
                 ![s].mine = IF ses[s].synced THEN "view" ELSE "old"]
  ELSE ses' = [ses EXCEPT ![s].pc = then, ![s].idle = @ + 1,
                 ![s].behind = IF ses[s].synced THEN 0 ELSE @ + 1]

\* sendIdleMovement: the flags alone, and every ResyncTicks the position.
IdleMovement(s, then) ==
  IF ses[s].state # "play_ready"
  THEN ses' = [ses EXCEPT ![s].pc = then]
  ELSE IF (ses[s].idle + 1) % ResyncTicks = 0
  THEN ses' = [ses EXCEPT ![s].pc = Resync[then], ![s].mine = "view", ![s].idle = 0]
  ELSE ses' = [ses EXCEPT ![s].pc = then, ![s].idle = @ + 1,
                 ![s].behind = IF ses[s].synced THEN 0 ELSE @ + 1]

SendResync(s) ==
  /\ \E then \in {"check", "hold"} :
       /\ At(s, Resync[then])
       /\ ses' = [ses EXCEPT ![s].pc = then, ![s].synced = (ses[s].mine = "view"),
                    ![s].mine = "none", ![s].behind = IF ses[s].mine = "view" THEN 0 ELSE @]
  /\ UNCHANGED <<agg, budget, results, stop>>

\* Nothing more is due.
EndTick(s) ==
  /\ At(s, "tick")
  /\ IF ses[s].moved THEN ses' = [ses EXCEPT ![s].pc = "check"] ELSE IdleMovement(s, "check")
  /\ UNCHANGED <<agg, budget, results, stop>>

\* Mutant: the pass goes on whatever the reader made of the state.
CheckNothing(s) ==
  /\ At(s, "check")
  /\ ses' = [ses EXCEPT ![s].pc = "play"]
  /\ UNCHANGED <<agg, budget, results, stop>>

Check(s) ==
  /\ At(s, "check")
  /\ ses' = [ses EXCEPT ![s].pc = IF ses[s].state = "play_ready" THEN "play" ELSE "leave"]
  /\ UNCHANGED <<agg, budget, results, stop>>

\* holdUntil goes on ticking.
Hold(s) ==
  /\ At(s, "hold") /\ IdleMovement(s, "hold")
  /\ UNCHANGED <<agg, budget, results, stop>>

\* Mutant: the connection is left open.
LeaveOpen(s) ==
  /\ At(s, "leave")
  /\ ses' = [ses EXCEPT ![s].pc = "join"]
  /\ agg' = [agg EXCEPT !.active = @ - 1, !.disconnected = @ + 1]
  /\ UNCHANGED <<budget, results, stop>>

Leave(s) ==
  /\ At(s, "leave")
  /\ ses' = [ses EXCEPT ![s].pc = "join", ![s].closed = TRUE]
  /\ agg' = [agg EXCEPT !.active = @ - 1, !.disconnected = @ + 1]
  /\ UNCHANGED <<budget, results, stop>>

\* Mutant: the reader is not waited for.
JoinNobody(s) ==
  /\ At(s, "join")
  /\ ses' = [ses EXCEPT ![s].pc = "record"]
  /\ UNCHANGED <<agg, budget, results, stop>>

Join(s) ==
  /\ At(s, "join") /\ ses[s].reader = "done"
  /\ ses' = [ses EXCEPT ![s].pc = "record"]
  /\ UNCHANGED <<agg, budget, results, stop>>

\* AddSession.
Record(s) ==
  /\ At(s, "record")
  /\ ses' = [ses EXCEPT ![s].pc = "done"]
  /\ results' = [results EXCEPT ![s] = [state |-> ses[s].state, replayed |-> ses[s].replayed,
                                        loops |-> ses[s].loops]]
  /\ UNCHANGED <<agg, budget, stop>>

----------------------------------------------------------------------------
(* The reader                                                               *)

\* handleConfig; an answer fails on a closed connection.  The new state shows the
\* loop that the reader had left.
ReadConfig(s) ==
  /\ ses[s].reader = "config"
  /\ \/ /\ ~ses[s].closed
        /\ ses' = [ses EXCEPT ![s].reader = "play", ![s].state = "play_awaiting_position",
                     ![s].left = "yes", ![s].off = IF ses[s].left = "hidden" THEN 0 ELSE @]
     \/ ses' = [ses EXCEPT ![s].reader = "done"]
  /\ UNCHANGED <<agg, budget, results, stop>>

\* handlePlay: the server moves the player ...
SyncPosition(s) ==
  /\ ses[s].reader = "play" /\ budget[s] > 0
  /\ ses' = [ses EXCEPT ![s].reader = "sync", ![s].theirs = "view", ![s].synced = FALSE,
               ![s].behind = 0, ![s].mine = Stale(@)]
  /\ budget' = [budget EXCEPT ![s] = @ - 1]
  /\ UNCHANGED <<agg, results, stop>>

\* ... is told so, after viewMu was released ...
ConfirmPosition(s) ==
  /\ ses[s].reader = "sync"
  /\ \/ /\ ~ses[s].closed
        /\ ses' = [ses EXCEPT ![s].reader = "play", ![s].synced = (ses[s].theirs = "view"),
                     ![s].theirs = "none", ![s].ready = TRUE,
                     ![s].behind = IF ses[s].theirs = "view" THEN 0 ELSE @]
     \/ ses' = [ses EXCEPT ![s].reader = "done", ![s].theirs = "none"]
  /\ UNCHANGED <<agg, budget, results, stop>>

\* ... or goes back to configuration, with play going on.
StartConfiguration(s) ==
  /\ ses[s].reader = "play" /\ budget[s] > 0
  /\ ses' = [ses EXCEPT ![s].reader = "config", ![s].state = "configuration",
               ![s].left = "yes"]
  /\ budget' = [budget EXCEPT ![s] = @ - 1]
  /\ UNCHANGED <<agg, results, stop>>

\* A disconnect, an error, or the end of the connection.
ReadEnds(s) ==
  /\ ses[s].reader \in {"config", "play"}
  /\ ses' = [ses EXCEPT ![s].reader = "done"]
  /\ UNCHANGED <<agg, budget, results, stop>>

----------------------------------------------------------------------------

\* The goroutine of a session, past the login.
Run(s) == Await(s) \/ GiveUp(s) \/ Enter(s) \/ Pass(s) \/ PassEnds(s) \/ PlayTimeEnds(s)
          \/ Interrupted(s) \/ BeginTick(s) \/ Dispatch(s) \/ SendPosition(s)
          \/ SendResync(s) \/ EndTick(s) \/ Check(s) \/ Hold(s)
          \/ Leave(s) \/ Join(s) \/ Record(s)
Reader(s) == ReadConfig(s) \/ SyncPosition(s) \/ ConfirmPosition(s)
             \/ StartConfiguration(s) \/ ReadEnds(s)

\* What a reader does without the server.
ReaderAlone(s) == ConfirmPosition(s) \/ (ses[s].closed /\ ReadEnds(s))

SessionNext(s) == Dial(s) \/ Login(s) \/ Run(s) \/ Reader(s)
=============================================================================
