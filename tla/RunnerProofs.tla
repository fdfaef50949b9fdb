---------------------------- MODULE RunnerProofs ----------------------------
(***************************************************************************)
(* The safety of a run for any number of sessions, any traces, scenarios   *)
(* and chunks of budget.  What the report says is related to the sessions  *)
(* by what has become of each (Phase): the counters are the sizes of sets  *)
(* of sessions, and a step moves one session from one set to another.      *)
(***************************************************************************)
EXTENDS Runner, SumLemmas

(* The sessions *)

PCs == {"new", "dial", "login", "wait", "enter", "giveup", "pass", "play", "tick", "send",
        "check", "check_resync", "hold", "hold_resync", "leave", "join", "record", "done"}
Readers == {"none", "config", "play", "sync", "done"}
Pending == {"none", "view", "old"}
Leaves == {"no", "hidden", "yes"}

SessionRec ==
  [pc : PCs, state : States, reader : Readers, ready : BOOLEAN, closed : BOOLEAN,
   trace : Seq(Kinds), loop : BOOLEAN, idx : Nat, loops : Nat, replayed : Nat, idle : Nat,
   moved : BOOLEAN, mine : Pending, theirs : Pending, synced : BOOLEAN, behind : Nat,
   left : Leaves, off : Nat]

Playing == {"pass", "play", "tick", "send", "check", "check_resync", "hold", "hold_resync",
            "leave"}

\* What a session's replay loop holds back to send, and what its reader does,
\* belong to where they are; a goroutine that waits for its reader has closed the
\* connection.
SessionOK(r) ==
  /\ r \in SessionRec
  /\ r.mine # "none" <=> r.pc \in {"send", "check_resync", "hold_resync"}
  /\ r.theirs # "none" <=> r.reader = "sync"
  /\ r.pc \in {"new", "dial", "login"} => r.reader = "none"
  /\ r.reader = "none" => r.pc \in {"new", "dial", "login", "record", "done"}
  /\ r.pc \in {"giveup", "join"} => r.closed
  /\ r.pc \in {"record", "done"} => r.reader \in {"none", "done"}
  /\ r.state = "failed" => r.pc \in {"record", "done"}

\* A loop whose reader has left play, and not out of its sight, sees a state that
\* is not play_ready, and once it has begun a tick it is before the check that ends
\* it; there are no such ticks before the loop.
Notices(r) ==
  /\ r.off \in {0, 1, 2} /\ (r.off = 2 => r.left = "hidden")
  /\ r.left = "hidden" => r.reader \in {"config", "done"}
  /\ r.left = "no" => r.off = 0
  /\ r.left = "yes" /\ r.pc \in Playing => r.state # "play_ready"
  /\ r.left = "yes" /\ r.off = 1 =>
       r.pc \in {"tick", "send", "check", "leave", "join", "record", "done"}
  /\ r.pc \notin Playing \cup {"join", "record", "done"} => r.off = 0

\* The idle packets sent while the server was behind are no more than those
\* since the last full position, and none if a stale one is about to be sent.
Follows(r) ==
  /\ r.idle < ResyncTicks /\ r.behind < ResyncTicks
  /\ r.pc \notin {"check_resync", "hold_resync"} => r.behind <= r.idle
  /\ r.mine = "old" => r.behind = 0

\* A step changes one session.
OnlyS(s) == ses' = [ses EXCEPT ![s] = ses'[s]]

\* The values are what they are named.
LEMMA Literals ==
  /\ "new" \in PCs /\ "dial" \in PCs /\ "login" \in PCs /\ "wait" \in PCs /\ "enter" \in PCs
  /\ "giveup" \in PCs /\ "pass" \in PCs /\ "play" \in PCs /\ "tick" \in PCs /\ "send" \in PCs
  /\ "check" \in PCs /\ "check_resync" \in PCs /\ "hold" \in PCs /\ "hold_resync" \in PCs
  /\ "leave" \in PCs /\ "join" \in PCs /\ "record" \in PCs /\ "done" \in PCs
  /\ "new" \in States /\ "login" \in States /\ "configuration" \in States
  /\ "play_awaiting_position" \in States /\ "play_ready" \in States /\ "failed" \in States
  /\ "none" \in Readers /\ "config" \in Readers /\ "play" \in Readers /\ "sync" \in Readers
  /\ "done" \in Readers
  /\ "none" \in Pending /\ "view" \in Pending /\ "old" \in Pending
  /\ "no" \in Leaves /\ "hidden" \in Leaves /\ "yes" \in Leaves
  /\ InPlay[1] = "connected" /\ InPlay[2] = "active"
  /\ TRUE \in BOOLEAN /\ FALSE \in BOOLEAN /\ 0 \in Nat /\ 1 \in Nat
  /\ \A n \in Nat : n + 1 \in Nat
  BY DEF PCs, States, Readers, Pending, Leaves, InPlay

\* sendIdleMovement keeps SessionOK, in the loop and in the hold.
LEMMA IdleMovementKeeps ==
  ASSUME NEW s \in Sessions, ses \in [Sessions -> SessionRec], SessionOK(ses[s]),
         NEW then, IdleMovement(s, then),
         \/ then = "check" /\ ses[s].pc = "tick"
         \/ then = "hold" /\ ses[s].pc = "hold"
  PROVE  OnlyS(s) /\ SessionOK(ses'[s])
<1>0. ses[s] \in SessionRec /\ then \in PCs
  BY Literals
<1>. USE <1>0, Literals DEF SessionOK, SessionRec
<1>1. CASE ses[s].state # "play_ready"
  <2>1. OnlyS(s) /\ ses'[s] = [ses[s] EXCEPT !.pc = then]
    BY <1>1 DEF IdleMovement, OnlyS
  <2>. QED BY <1>1, <2>1
<1>2. CASE ses[s].state = "play_ready" /\ (ses[s].idle + 1) % ResyncTicks = 0
  BY <1>2 DEF IdleMovement, Resync, OnlyS
<1>3. CASE ses[s].state = "play_ready" /\ (ses[s].idle + 1) % ResyncTicks # 0
  <2>1. /\ OnlyS(s)
        /\ ses'[s] = [ses[s] EXCEPT !.pc = then, !.idle = @ + 1,
                        !.behind = IF ses[s].synced THEN 0 ELSE @ + 1]
    BY <1>3 DEF IdleMovement, OnlyS
  <2>2. ses[s].idle + 1 \in Nat /\ (IF ses[s].synced THEN 0 ELSE ses[s].behind + 1) \in Nat
    OBVIOUS
  <2>3. ses'[s] \in SessionRec
    BY <2>1, <2>2
  <2>. QED BY <1>3, <2>1, <2>3
<1>. QED BY <1>1, <1>2, <1>3

-----------------------------------------------------------------------------
(* A step of a session *)

\* Every step of either goroutine of a session keeps SessionOK.
LEMMA SessionKeeps ==
  ASSUME NEW s \in Sessions, ses \in [Sessions -> SessionRec], SessionOK(ses[s]), SessionNext(s)
  PROVE  OnlyS(s) /\ SessionOK(ses'[s])
<1>0. ses[s] \in SessionRec
  OBVIOUS
<1>. USE <1>0, Literals DEF OnlyS, SessionOK, SessionRec, At
<1>1. CASE Dial(s)
  <2>1. /\ OnlyS(s) /\ ses[s].pc = "dial"
        /\ \/ ses'[s] = [ses[s] EXCEPT !.pc = "login", !.state = "login"]
           \/ ses'[s] = [ses[s] EXCEPT !.pc = "record", !.state = "failed"]
    BY <1>1 DEF Dial
  <2>2. CASE ses'[s] = [ses[s] EXCEPT !.pc = "login", !.state = "login"]
    BY <2>1, <2>2
  <2>3. CASE ses'[s] = [ses[s] EXCEPT !.pc = "record", !.state = "failed"]
    BY <2>1, <2>3
  <2>. QED BY <2>1, <2>2, <2>3
<1>2. CASE Login(s)
  <2>1. CASE FinishFailed(s)
    BY <1>2, <2>1 DEF Login, FinishFailed
  <2>2. CASE ~FinishFailed(s)
    <3>1. /\ OnlyS(s) /\ ses[s].pc = "login"
          /\ ses'[s] = [ses[s] EXCEPT !.pc = "wait", !.state = "configuration",
                                      !.reader = "config"]
      BY <1>2, <2>2 DEF Login
    <3>2. ses'[s] \in SessionRec
      BY <3>1
    <3>. QED BY <3>1, <3>2
  <2>. QED BY <2>1, <2>2
<1>3. CASE Await(s)
  <2>1. CASE FinishFailed(s)
    BY <1>3, <2>1 DEF Await, FinishFailed
  <2>2. CASE ~FinishFailed(s)
    <3>1. /\ OnlyS(s) /\ ses[s].pc = "wait"
          /\ \/ ses'[s] = [ses[s] EXCEPT !.pc = "enter"]
             \/ ses'[s] = [ses[s] EXCEPT !.pc = "giveup", !.closed = TRUE]
      BY <1>3, <2>2 DEF Await
    <3>2. CASE ses'[s] = [ses[s] EXCEPT !.pc = "enter"]
      BY <3>1, <3>2
    <3>3. CASE ses'[s] = [ses[s] EXCEPT !.pc = "giveup", !.closed = TRUE]
      BY <3>1, <3>3
    <3>. QED BY <3>1, <3>2, <3>3
  <2>. QED BY <2>1, <2>2
<1>4. CASE GiveUp(s)
  BY <1>4 DEF GiveUp, FinishFailed
<1>5. CASE Enter(s)
  <2>. DEFINE l == IF ses[s].reader = "config" THEN "hidden" ELSE "no"
  <2>1. /\ OnlyS(s) /\ ses[s].pc = "enter"
        /\ ses'[s] = [ses[s] EXCEPT !.pc = "pass", !.state = "play_ready", !.left = l]
    BY <1>5 DEF Enter
  <2>2. l \in Leaves
    BY Literals
  <2>. HIDE DEF l
  <2>3. ses'[s] \in SessionRec
    BY <2>1, <2>2
  <2>. QED BY <2>1, <2>2, <2>3
<1>6. CASE Pass(s)
  BY <1>6 DEF Pass
<1>7. CASE PassEnds(s)
  BY <1>7 DEF PassEnds
<1>8. CASE PlayTimeEnds(s)
  <2>1. /\ OnlyS(s) /\ ses[s].pc \in {"pass", "play", "hold"}
        /\ \/ ses'[s] = [ses[s] EXCEPT !.pc = "leave"]
           \/ ses'[s] = [ses[s] EXCEPT !.pc = "leave", !.loops = @ + 1]
    BY <1>8 DEF PlayTimeEnds
  <2>2. CASE ses'[s] = [ses[s] EXCEPT !.pc = "leave"]
    BY <2>1, <2>2
  <2>3. CASE ses'[s] = [ses[s] EXCEPT !.pc = "leave", !.loops = @ + 1]
    <3>1. ses[s].loops + 1 \in Nat
      BY <1>0
    <3>2. ses'[s] \in SessionRec
      BY <2>3, <3>1
    <3>. QED BY <2>1, <2>3, <3>2
  <2>. QED BY <2>1, <2>2, <2>3
<1>9. CASE Interrupted(s)
  BY <1>9 DEF Interrupted
<1>10. CASE BeginTick(s)
  <2>. DEFINE n == IF ses[s].left = "no" THEN ses[s].off ELSE OneMore(ses[s].off)
  <2>1. /\ OnlyS(s) /\ ses[s].pc = "play"
        /\ ses'[s] = [ses[s] EXCEPT !.pc = "tick", !.moved = FALSE, !.off = n]
    BY <1>10 DEF BeginTick
  <2>2. n \in Nat
    BY DEF OneMore
  <2>. HIDE DEF n
  <2>3. ses'[s] \in SessionRec
    BY <2>1, <2>2
  <2>. QED BY <2>1, <2>2, <2>3
<1>11. CASE Dispatch(s)
  <2>1. CASE \E count \in {"relocation", "replayed", "skipped"} : Dispatched(s, count)
    <3>1. CASE Dispatched(s, "skipped")
      BY <1>11, <3>1 DEF Dispatch, Dispatched
    <3>2. CASE \E count \in {"relocation", "replayed"} : Dispatched(s, count)
      BY <1>11, <3>2 DEF Dispatch, Dispatched
    <3>. QED BY <2>1, <3>1, <3>2
  <2>2. CASE ses' = [ses EXCEPT ![s].pc = "send", ![s].mine = "view", ![s].synced = FALSE,
                       ![s].behind = 0, ![s].theirs = Stale(@)]
    <3>. DEFINE t == Stale(ses[s].theirs)
    <3>1. /\ OnlyS(s) /\ ses[s].pc = "tick"
          /\ ses'[s] = [ses[s] EXCEPT !.pc = "send", !.mine = "view", !.synced = FALSE,
                                      !.behind = 0, !.theirs = t]
      BY <1>11, <2>2 DEF Dispatch
    <3>2. t \in Pending /\ (t = "none" <=> ses[s].theirs = "none")
      BY DEF Stale
    <3>. HIDE DEF t
    <3>3. ses'[s] \in SessionRec
      <4>1. [ses[s] EXCEPT !.synced = FALSE, !.behind = 0, !.theirs = t] \in SessionRec
        BY <3>2
      <4>. QED BY <3>1, <4>1
    <3>. QED BY <3>1, <3>2, <3>3
  <2>. QED BY <1>11, <2>1, <2>2 DEF Dispatch
<1>12. CASE SendPosition(s)
  <2>. DEFINE b == IF ses[s].mine = "view" THEN 0 ELSE ses[s].behind
              y == (ses[s].mine = "view")
              sent == [ses[s] EXCEPT !.pc = "tick", !.synced = y, !.mine = "none", !.behind = b]
  <2>1. /\ OnlyS(s) /\ ses[s].pc = "send"
        /\ ses'[s] = [sent EXCEPT !.moved = TRUE, !.idle = 0, !.idx = ses[s].idx + 1,
                                  !.replayed = ses[s].replayed + 1]
    BY <1>12 DEF SendPosition
  <2>2. sent \in SessionRec /\ SessionOK(sent)
    <3>1. b \in Nat /\ y \in BOOLEAN
      OBVIOUS
    <3>. HIDE DEF b, y
    <3>2. sent \in SessionRec
      BY <3>1
    <3>. QED BY <2>1, <3>2
  <2>3. ses[s].idx + 1 \in Nat /\ ses[s].replayed + 1 \in Nat
    OBVIOUS
  <2>. HIDE DEF sent
  <2>4. ses'[s] \in SessionRec
    BY <2>1, <2>2, <2>3
  <2>. QED BY <2>1, <2>2, <2>4
<1>13. CASE SendResync(s)
  BY <1>13 DEF SendResync, Resync
<1>14. CASE EndTick(s)
  <2>1. CASE ses[s].moved
    <3>1. /\ OnlyS(s) /\ ses[s].pc = "tick"
          /\ ses'[s] = [ses[s] EXCEPT !.pc = "check"]
      BY <1>14, <2>1 DEF EndTick
    <3>. QED BY <3>1
  <2>2. CASE ~ses[s].moved
    <3>1. ses[s].pc = "tick" /\ IdleMovement(s, "check")
      BY <1>14, <2>2 DEF EndTick
    <3>. QED BY <3>1, IdleMovementKeeps
  <2>. QED BY <2>1, <2>2
<1>15. CASE Check(s)
  BY <1>15 DEF Check
<1>16. CASE Hold(s)
  BY <1>16, IdleMovementKeeps DEF Hold
<1>17. CASE Leave(s)
  BY <1>17 DEF Leave
<1>18. CASE Join(s)
  BY <1>18 DEF Join
<1>19. CASE Record(s)
  BY <1>19 DEF Record
<1>20. CASE ReadConfig(s)
  <2>. DEFINE n == IF ses[s].left = "hidden" THEN 0 ELSE ses[s].off
              back == [ses[s] EXCEPT !.reader = "play", !.state = "play_awaiting_position",
                                     !.left = "yes", !.off = n]
  <2>1. /\ OnlyS(s) /\ ses[s].reader = "config"
        /\ ses'[s] = back \/ ses'[s] = [ses[s] EXCEPT !.reader = "done"]
    BY <1>20 DEF ReadConfig
  <2>2. CASE ses'[s] = back
    <3>1. n \in Nat
      OBVIOUS
    <3>. HIDE DEF n
    <3>2. ses'[s] \in SessionRec
      <4>1. [ses[s] EXCEPT !.reader = "play", !.state = "play_awaiting_position"] \in SessionRec
        OBVIOUS
      <4>. QED BY <2>2, <3>1, <4>1
    <3>. QED BY <2>1, <2>2, <3>1, <3>2
  <2>3. CASE ses'[s] = [ses[s] EXCEPT !.reader = "done"]
    BY <2>1, <2>3
  <2>. QED BY <2>1, <2>2, <2>3
<1>21. CASE SyncPosition(s)
  <2>. DEFINE m == Stale(ses[s].mine)
              moved == [ses[s] EXCEPT !.synced = FALSE, !.behind = 0, !.mine = m]
  <2>1. /\ OnlyS(s) /\ ses[s].reader = "play"
        /\ ses'[s] = [moved EXCEPT !.reader = "sync", !.theirs = "view"]
    BY <1>21 DEF SyncPosition
  <2>2. moved \in SessionRec /\ SessionOK(moved)
    <3>1. m \in Pending /\ (m = "none" <=> ses[s].mine = "none")
      BY DEF Stale
    <3>. HIDE DEF m
    <3>2. moved \in SessionRec
      BY <3>1
    <3>. QED BY <3>1, <3>2
  <2>. HIDE DEF moved
  <2>3. moved.reader = "play"
    BY <2>1 DEF moved
  <2>4. ses'[s] \in SessionRec
    BY <2>1, <2>2
  <2>. QED BY <2>1, <2>2, <2>3, <2>4
<1>22. CASE ConfirmPosition(s)
  BY <1>22 DEF ConfirmPosition
<1>23. CASE StartConfiguration(s)
  BY <1>23 DEF StartConfiguration
<1>24. CASE ReadEnds(s)
  BY <1>24 DEF ReadEnds
<1>. QED BY <1>1, <1>2, <1>3, <1>4, <1>5, <1>6, <1>7, <1>8, <1>9, <1>10, <1>11, <1>12, <1>13,
           <1>14, <1>15, <1>16, <1>17, <1>18, <1>19, <1>20, <1>21, <1>22, <1>23, <1>24
           DEF SessionNext, Run, Reader

\* What the steps that move the goroutine alone leave alone.
Still(s) ==
  /\ ses'[s].left = ses[s].left /\ ses'[s].off = ses[s].off
  /\ ses'[s].state = ses[s].state /\ ses'[s].reader = ses[s].reader

\* Every step of either goroutine keeps Notices: a reader that leaves play changes the
\* state, and so does one that comes back to play, and the loop reads it after
\* each tick.
LEMMA SessionNotices ==
  ASSUME NEW s \in Sessions, ses \in [Sessions -> SessionRec], SessionOK(ses[s]),
         Notices(ses[s]), SessionNext(s)
  PROVE  Notices(ses'[s])
<1>0. ses[s] \in SessionRec
  OBVIOUS
<1>. USE <1>0 DEF SessionRec, Leaves, Notices, Playing, At, Still
<1>1. CASE Dial(s)
  <2>1. /\ ses[s].pc = "dial" /\ ses'[s].pc \in {"login", "record"}
        /\ ses'[s].left = ses[s].left /\ ses'[s].off = ses[s].off
        /\ ses'[s].reader = ses[s].reader
    BY <1>1 DEF Dial
  <2>. QED BY <2>1
<1>2. CASE Login(s)
  <2>1. /\ ses[s].pc = "login" /\ ses[s].reader = "none"
        /\ ses'[s].pc \in {"wait", "record"}
        /\ ses'[s].left = ses[s].left /\ ses'[s].off = ses[s].off
    BY <1>2 DEF Login, FinishFailed, SessionOK
  <2>. QED BY <2>1
<1>3. CASE Await(s)
  <2>1. /\ ses[s].pc = "wait" /\ ses'[s].pc \in {"enter", "giveup", "record"}
        /\ ses'[s].left = ses[s].left /\ ses'[s].off = ses[s].off
        /\ ses'[s].reader = ses[s].reader
    BY <1>3 DEF Await, FinishFailed
  <2>. QED BY <2>1
<1>4. CASE GiveUp(s)
  <2>1. /\ ses[s].pc = "giveup" /\ ses'[s].pc \in {"enter", "giveup", "record"}
        /\ ses'[s].left = ses[s].left /\ ses'[s].off = ses[s].off
        /\ ses'[s].reader = ses[s].reader
    BY <1>4 DEF GiveUp, FinishFailed
  <2>. QED BY <2>1
<1>5. CASE Enter(s)
  <2>1. /\ ses[s].pc = "enter" /\ ses'[s].pc = "pass" /\ ses'[s].off = ses[s].off
        /\ ses'[s].left = IF ses[s].reader = "config" THEN "hidden" ELSE "no"
        /\ ses'[s].reader = ses[s].reader
    BY <1>5 DEF Enter
  <2>. QED BY <2>1
<1>6. CASE Pass(s)
  <2>1. /\ Still(s) /\ ses[s].pc = "pass" /\ ses'[s].pc = "play"
    BY <1>6 DEF Pass
  <2>. QED BY <2>1
<1>7. CASE PassEnds(s)
  <2>1. /\ Still(s) /\ ses[s].pc = "play" /\ ses'[s].pc \in {"pass", "hold"}
    BY <1>7 DEF PassEnds
  <2>. QED BY <2>1
<1>8. CASE PlayTimeEnds(s)
  <2>1. /\ Still(s) /\ ses[s].pc \in {"pass", "play", "hold"} /\ ses'[s].pc = "leave"
    BY <1>8 DEF PlayTimeEnds
  <2>. QED BY <2>1
<1>9. CASE Interrupted(s)
  <2>1. /\ Still(s) /\ ses[s].pc \in {"play", "hold"} /\ ses'[s].pc = "leave"
    BY <1>9 DEF Interrupted
  <2>. QED BY <2>1
<1>10. CASE BeginTick(s)
  <2>1. /\ ses[s].pc = "play" /\ ses'[s].pc = "tick" /\ ses'[s].left = ses[s].left
        /\ ses'[s].off = IF ses[s].left = "no" THEN ses[s].off ELSE OneMore(ses[s].off)
        /\ ses'[s].state = ses[s].state /\ ses'[s].reader = ses[s].reader
    BY <1>10 DEF BeginTick
  <2>2. /\ ses'[s].off \in {0, 1, 2}
        /\ ses[s].left = "no" => ses'[s].off = 0
        /\ ses[s].left = "yes" => ses'[s].off = 1
    BY <2>1 DEF OneMore
  <2>. QED BY <2>1, <2>2
<1>11. CASE Dispatch(s)
  <2>1. /\ Still(s) /\ ses[s].pc = "tick" /\ ses'[s].pc \in {"tick", "send"}
    BY <1>11 DEF Dispatch, Dispatched
  <2>. QED BY <2>1
<1>12. CASE SendPosition(s)
  <2>1. /\ Still(s) /\ ses[s].pc = "send" /\ ses'[s].pc = "tick"
    BY <1>12 DEF SendPosition
  <2>. QED BY <2>1
<1>13. CASE SendResync(s)
  <2>1. /\ Still(s) /\ ses[s].pc \in {"check_resync", "hold_resync"}
        /\ ses'[s].pc = IF ses[s].pc = "check_resync" THEN "check" ELSE "hold"
    BY <1>13 DEF SendResync, Resync
  <2>. QED BY <2>1
<1>14. CASE EndTick(s)
  <2>1. /\ Still(s) /\ ses[s].pc = "tick" /\ ses'[s].pc \in {"check", "check_resync"}
        /\ ses'[s].pc = "check_resync" => ses[s].state = "play_ready"
    BY <1>14 DEF EndTick, IdleMovement, Resync
  <2>. QED BY <2>1
<1>15. CASE Check(s)
  <2>1. /\ Still(s) /\ ses[s].pc = "check"
        /\ ses'[s].pc = IF ses[s].state = "play_ready" THEN "play" ELSE "leave"
    BY <1>15 DEF Check
  <2>. QED BY <2>1
<1>16. CASE Hold(s)
  <2>1. /\ Still(s) /\ ses[s].pc = "hold" /\ ses'[s].pc \in {"hold", "hold_resync"}
    BY <1>16 DEF Hold, IdleMovement, Resync
  <2>. QED BY <2>1
<1>17. CASE Leave(s)
  <2>1. /\ Still(s) /\ ses[s].pc = "leave" /\ ses'[s].pc = "join"
    BY <1>17 DEF Leave
  <2>. QED BY <2>1
<1>18. CASE Join(s)
  <2>1. /\ Still(s) /\ ses[s].pc = "join" /\ ses'[s].pc = "record"
    BY <1>18 DEF Join
  <2>. QED BY <2>1
<1>19. CASE Record(s)
  <2>1. /\ Still(s) /\ ses[s].pc = "record" /\ ses'[s].pc = "done"
    BY <1>19 DEF Record
  <2>. QED BY <2>1
<1>20. CASE ReadConfig(s)
  <2>1. /\ ses'[s].pc = ses[s].pc /\ ses[s].reader = "config"
        /\ \/ /\ ses'[s].reader = "play" /\ ses'[s].state = "play_awaiting_position"
              /\ ses'[s].left = "yes"
              /\ ses'[s].off = IF ses[s].left = "hidden" THEN 0 ELSE ses[s].off
           \/ /\ ses'[s].reader = "done" /\ ses'[s].state = ses[s].state
              /\ ses'[s].left = ses[s].left /\ ses'[s].off = ses[s].off
    BY <1>20 DEF ReadConfig
  <2>. QED BY <2>1
<1>21. CASE SyncPosition(s)
  <2>1. /\ ses'[s].pc = ses[s].pc /\ ses'[s].state = ses[s].state
        /\ ses'[s].left = ses[s].left /\ ses'[s].off = ses[s].off
        /\ ses[s].reader = "play"
    BY <1>21 DEF SyncPosition
  <2>. QED BY <2>1
<1>22. CASE ConfirmPosition(s)
  <2>1. /\ ses'[s].pc = ses[s].pc /\ ses'[s].state = ses[s].state
        /\ ses'[s].left = ses[s].left /\ ses'[s].off = ses[s].off
        /\ ses[s].reader = "sync"
    BY <1>22 DEF ConfirmPosition
  <2>. QED BY <2>1
<1>23. CASE StartConfiguration(s)
  <2>1. /\ ses'[s].pc = ses[s].pc /\ ses'[s].state = "configuration"
        /\ ses'[s].left = "yes" /\ ses'[s].off = ses[s].off
        /\ ses[s].reader = "play"
    BY <1>23 DEF StartConfiguration
  <2>. QED BY <2>1
<1>24. CASE ReadEnds(s)
  <2>1. /\ ses'[s].pc = ses[s].pc /\ ses'[s].state = ses[s].state
        /\ ses'[s].left = ses[s].left /\ ses'[s].off = ses[s].off
        /\ ses'[s].reader = "done"
    BY <1>24 DEF ReadEnds
  <2>. QED BY <2>1
<1>. QED BY <1>1, <1>2, <1>3, <1>4, <1>5, <1>6, <1>7, <1>8, <1>9, <1>10, <1>11, <1>12, <1>13,
           <1>14, <1>15, <1>16, <1>17, <1>18, <1>19, <1>20, <1>21, <1>22, <1>23, <1>24
           DEF SessionNext, Run, Reader

\* Each idle packet counts towards the next full position.
LEMMA IdleFollows ==
  ASSUME NEW s \in Sessions, ses \in [Sessions -> SessionRec], Follows(ses[s]),
         ses[s].mine = "none", NEW then \in {"check", "hold"}, IdleMovement(s, then),
         ses[s].pc \in {"tick", "hold"}
  PROVE  Follows(ses'[s])
<1>0. ses[s] \in SessionRec
  OBVIOUS
<1>. USE <1>0 DEF SessionRec, Follows
<1>1. CASE ses[s].state # "play_ready"
  <2>1. ses'[s] = [ses[s] EXCEPT !.pc = then]
    BY <1>1 DEF IdleMovement
  <2>. QED BY <2>1
<1>2. CASE ses[s].state = "play_ready" /\ (ses[s].idle + 1) % ResyncTicks = 0
  <2>1. ses'[s].pc \in {"check_resync", "hold_resync"} /\ ses'[s].idle = 0
        /\ ses'[s].behind = ses[s].behind /\ ses'[s].mine = "view"
    BY <1>2 DEF IdleMovement, Resync
  <2>. QED BY <2>1, SessionAssumption
<1>3. CASE ses[s].state = "play_ready" /\ (ses[s].idle + 1) % ResyncTicks # 0
  <2>1. ses'[s] = [ses[s] EXCEPT !.pc = then, !.idle = @ + 1,
                     !.behind = IF ses[s].synced THEN 0 ELSE @ + 1]
    BY <1>3 DEF IdleMovement
  <2>2. ses[s].idle + 1 < ResyncTicks
    <3>1. ResyncTicks % ResyncTicks = 0
      BY SessionAssumption
    <3>2. ses[s].idle + 1 # ResyncTicks
      BY <1>3, <3>1
    <3>. QED BY <3>2, SessionAssumption
  <2>3. /\ ses'[s].pc \in {"check", "hold"} /\ ses'[s].mine = "none"
        /\ ses'[s].idle = ses[s].idle + 1
        /\ ses'[s].behind \in {0, ses[s].behind + 1}
    BY <2>1
  <2>. QED BY <2>2, <2>3, SessionAssumption
<1>. QED BY <1>1, <1>2, <1>3

\* Every step of either goroutine keeps Follows: what makes the server fall behind
\* (a stale position sent) sets idle back, or is followed by one that catches up.
LEMMA SessionFollows ==
  ASSUME NEW s \in Sessions, ses \in [Sessions -> SessionRec], SessionOK(ses[s]),
         Follows(ses[s]), SessionNext(s)
  PROVE  Follows(ses'[s])
<1>0. ses[s] \in SessionRec
  OBVIOUS
<1>. USE <1>0, SessionAssumption DEF SessionOK, SessionRec, Follows, At
<1>1. CASE Dial(s)
  <2>1. /\ ses'[s].idle = ses[s].idle /\ ses'[s].behind = ses[s].behind
        /\ ses'[s].mine = ses[s].mine /\ ses[s].pc = "dial"
        /\ ses'[s].pc \in {"login", "record"}
    BY <1>1 DEF Dial
  <2>. QED BY <2>1
<1>2. CASE Login(s)
  <2>1. /\ ses'[s].idle = ses[s].idle /\ ses'[s].behind = ses[s].behind
        /\ ses'[s].mine = ses[s].mine /\ ses[s].pc = "login"
        /\ ses'[s].pc \in {"wait", "record"}
    BY <1>2 DEF Login, FinishFailed
  <2>. QED BY <2>1
<1>3. CASE Await(s)
  <2>1. /\ ses'[s].idle = ses[s].idle /\ ses'[s].behind = ses[s].behind
        /\ ses'[s].mine = ses[s].mine
        /\ ses'[s].pc \notin {"check_resync", "hold_resync"}
        /\ ses[s].pc \notin {"check_resync", "hold_resync"}
    BY <1>3 DEF Await, FinishFailed
  <2>. QED BY <2>1
<1>4. CASE GiveUp(s)
  BY <1>4 DEF GiveUp, FinishFailed
<1>5. CASE Enter(s)
  BY <1>5 DEF Enter
<1>6. CASE Pass(s)
  BY <1>6 DEF Pass
<1>7. CASE PassEnds(s)
  BY <1>7 DEF PassEnds
<1>8. CASE PlayTimeEnds(s)
  <2>1. /\ ses'[s].idle = ses[s].idle /\ ses'[s].behind = ses[s].behind
        /\ ses'[s].mine = ses[s].mine
        /\ ses'[s].pc \notin {"check_resync", "hold_resync"}
        /\ ses[s].pc \notin {"check_resync", "hold_resync"}
    BY <1>8 DEF PlayTimeEnds
  <2>. QED BY <2>1
<1>9. CASE Interrupted(s)
  BY <1>9 DEF Interrupted
<1>10. CASE BeginTick(s)
  BY <1>10 DEF BeginTick
<1>11. CASE Dispatch(s)
  <2>1. CASE \E count : Dispatched(s, count)
    <3>1. /\ ses'[s].idle = ses[s].idle /\ ses'[s].behind = ses[s].behind
          /\ ses'[s].mine = ses[s].mine /\ ses'[s].pc = ses[s].pc
      BY <2>1 DEF Dispatched
    <3>. QED BY <3>1
  <2>2. CASE ~\E count : Dispatched(s, count)
    <3>1. /\ ses'[s].idle = ses[s].idle /\ ses'[s].behind = 0
          /\ ses'[s].mine = "view" /\ ses'[s].pc = "send"
      BY <1>11, <2>2 DEF Dispatch
    <3>. QED BY <3>1
  <2>. QED BY <2>1, <2>2
<1>12. CASE SendPosition(s)
  <2>1. /\ ses'[s].idle = 0 /\ ses'[s].mine = "none" /\ ses'[s].pc = "tick"
        /\ ses'[s].behind = IF ses[s].mine = "view" THEN 0 ELSE ses[s].behind
    BY <1>12 DEF SendPosition
  <2>2. ses[s].mine \in {"view", "old"}
    BY <1>12 DEF SendPosition, Pending
  <2>. QED BY <2>1, <2>2
<1>13. CASE SendResync(s)
  BY <1>13 DEF SendResync, Resync
<1>14. CASE EndTick(s)
  <2>1. ses[s].pc = "tick" /\ ses[s].mine = "none"
    BY <1>14 DEF EndTick
  <2>2. CASE ses[s].moved
    <3>1. /\ ses'[s].idle = ses[s].idle /\ ses'[s].behind = ses[s].behind
          /\ ses'[s].mine = "none" /\ ses'[s].pc = "check"
      BY <1>14, <2>1, <2>2 DEF EndTick
    <3>. QED BY <2>1, <3>1
  <2>3. CASE ~ses[s].moved
    <3>1. IdleMovement(s, "check")
      BY <1>14, <2>3 DEF EndTick
    <3>. QED BY <2>1, <3>1, IdleFollows
  <2>. QED BY <2>2, <2>3
<1>15. CASE Check(s)
  BY <1>15 DEF Check
<1>16. CASE Hold(s)
  <2>1. ses[s].pc = "hold" /\ ses[s].mine = "none" /\ IdleMovement(s, "hold")
    BY <1>16 DEF Hold
  <2>. QED BY <2>1, IdleFollows
<1>17. CASE Leave(s)
  BY <1>17 DEF Leave
<1>18. CASE Join(s)
  BY <1>18 DEF Join
<1>19. CASE Record(s)
  BY <1>19 DEF Record
<1>20. CASE ReadConfig(s)
  <2>1. /\ ses'[s].idle = ses[s].idle /\ ses'[s].behind = ses[s].behind
        /\ ses'[s].mine = ses[s].mine
        /\ ses'[s].pc = ses[s].pc
    BY <1>20 DEF ReadConfig
  <2>. QED BY <2>1
<1>21. CASE SyncPosition(s)
  BY <1>21 DEF SyncPosition, Stale
<1>22. CASE ConfirmPosition(s)
  BY <1>22 DEF ConfirmPosition
<1>23. CASE StartConfiguration(s)
  BY <1>23 DEF StartConfiguration
<1>24. CASE ReadEnds(s)
  BY <1>24 DEF ReadEnds
<1>. QED BY <1>1, <1>2, <1>3, <1>4, <1>5, <1>6, <1>7, <1>8, <1>9, <1>10, <1>11, <1>12, <1>13,
           <1>14, <1>15, <1>16, <1>17, <1>18, <1>19, <1>20, <1>21, <1>22, <1>23, <1>24
           DEF SessionNext, Run, Reader

-----------------------------------------------------------------------------
(* The counters *)

Counters == {"connected", "active", "failed", "disconnected", "replayed", "skipped",
             "relocations"}

\* What has become of a session, for the counters.
Phase(r) ==
  CASE r.pc = "enter" -> "entering"
    [] r.pc \in Playing -> "playing"
    [] r.pc = "join" -> "gone"
    [] r.pc \in {"record", "done"} -> IF r.state = "failed" THEN "failed" ELSE "gone"
    [] OTHER -> "before"

Among(phase) == {s \in Sessions : Phase(ses[s]) = phase}

\* A step of one session takes at most that one from a set or into it.
LEMMA AmongStep ==
  ASSUME ses \in [Sessions -> SessionRec], NEW s \in Sessions, NEW p, OnlyS(s)
  PROVE  /\ Cardinality(Among(p)) \in Nat /\ Cardinality(Among(p)') \in Nat
         /\ Cardinality(Among(p)') = Cardinality(Among(p))
              + (IF Phase(ses'[s]) = p THEN 1 ELSE 0) - (IF Phase(ses[s]) = p THEN 1 ELSE 0)
<1>1. IsFiniteSet(Among(p))
  BY SessionAssumption, FS_Subset DEF Among
<1>2. s \in Among(p) <=> Phase(ses[s]) = p
  BY DEF Among
<1>3. Among(p)' = IF Phase(ses'[s]) = p THEN Among(p) \cup {s} ELSE Among(p) \ {s}
  BY DEF Among, OnlyS
<1>4. Cardinality(Among(p)) \in Nat
  BY <1>1, FS_CardinalityType
<1>5. CASE Phase(ses'[s]) = p
  <2>1. Cardinality(Among(p)') = IF s \in Among(p) THEN Cardinality(Among(p))
                                ELSE Cardinality(Among(p)) + 1
    BY <1>1, <1>3, <1>5, FS_AddElement
  <2>. QED BY <1>2, <1>4, <1>5, <2>1
<1>6. CASE Phase(ses'[s]) # p
  <2>1. Cardinality(Among(p)') = IF s \in Among(p) THEN Cardinality(Among(p)) - 1
                                ELSE Cardinality(Among(p))
    BY <1>1, <1>3, <1>6, FS_RemoveElement
  <2>2. Cardinality(Among(p)') \in Nat
    BY <1>1, <1>3, <1>6, FS_RemoveElement, FS_CardinalityType
  <2>. QED BY <1>2, <1>4, <1>6, <2>1, <2>2
<1>. QED BY <1>5, <1>6

\* A step that no counter of sessions sees.
Uncounted(s) ==
  /\ agg' \in [Counters -> Nat]
  /\ agg'.connected = agg.connected /\ agg'.active = agg.active
  /\ agg'.disconnected = agg.disconnected /\ agg'.failed = agg.failed
  /\ Phase(ses'[s]) = Phase(ses[s])

Changes(s, before, after) == Phase(ses[s]) = before /\ Phase(ses'[s]) = after

\* The counters change where a session's phase does, and nowhere else.
LEMMA SessionCounts ==
  ASSUME NEW s \in Sessions, ses \in [Sessions -> SessionRec], SessionOK(ses[s]),
         agg \in [Counters -> Nat], SessionNext(s)
  PROVE  /\ ses[s].pc # "new" /\ ses'[s].pc # "new"
         /\ \/ Uncounted(s)
            \/ /\ Changes(s, "before", "entering")
               /\ agg' = [agg EXCEPT !.connected = @ + 1]
            \/ /\ Changes(s, "before", "failed")
               /\ agg' = [agg EXCEPT !.failed = @ + 1]
            \/ /\ Changes(s, "entering", "playing")
               /\ agg' = [agg EXCEPT !.active = @ + 1]
            \/ /\ Changes(s, "playing", "gone")
               /\ agg' = [agg EXCEPT !.active = @ - 1, !.disconnected = @ + 1]
<1>0. ses[s] \in SessionRec /\ \A n \in Nat : n + 1 \in Nat
  OBVIOUS
<1>. USE <1>0 DEF Uncounted, Changes, Phase, Counters, Playing, At, SessionRec, SessionOK
<1>1. CASE Dial(s)
  <2>1. \/ /\ ses'[s].pc = "login" /\ agg' = agg
        \/ /\ ses'[s].pc = "record" /\ ses'[s].state = "failed"
           /\ agg' = [agg EXCEPT !.failed = @ + 1]
    BY <1>1 DEF Dial
  <2>2. ses[s].pc = "dial"
    BY <1>1 DEF Dial
  <2>3. CASE ses'[s].pc = "login" /\ agg' = agg
    BY <2>2, <2>3
  <2>4. CASE /\ ses'[s].pc = "record" /\ ses'[s].state = "failed"
             /\ agg' = [agg EXCEPT !.failed = @ + 1]
    BY <2>2, <2>4
  <2>. QED BY <2>1, <2>3, <2>4
<1>2. CASE Login(s)
  <2>1. CASE FinishFailed(s)
    BY <1>2, <2>1 DEF Login, FinishFailed
  <2>2. CASE ~FinishFailed(s)
    <3>1. ses[s].pc = "login" /\ ses'[s].pc = "wait" /\ agg' = agg
      BY <1>2, <2>2 DEF Login
    <3>. QED BY <3>1
  <2>. QED BY <2>1, <2>2
<1>3. CASE Await(s)
  <2>1. CASE FinishFailed(s)
    BY <1>3, <2>1 DEF Await, FinishFailed
  <2>2. CASE ~FinishFailed(s)
    <3>1. /\ ses[s].pc = "wait"
          /\ \/ ses'[s].pc = "enter" /\ agg' = [agg EXCEPT !.connected = @ + 1]
             \/ ses'[s].pc = "giveup" /\ agg' = agg
      BY <1>3, <2>2, Literals DEF Await
    <3>. QED BY <3>1
  <2>. QED BY <2>1, <2>2
<1>4. CASE GiveUp(s)
  BY <1>4 DEF GiveUp, FinishFailed
<1>5. CASE Enter(s)
  BY <1>5, Literals DEF Enter
<1>6. CASE Pass(s)
  BY <1>6 DEF Pass
<1>7. CASE PassEnds(s)
  BY <1>7 DEF PassEnds
<1>8. CASE PlayTimeEnds(s)
  <2>1. ses[s].pc \in {"pass", "play", "hold"} /\ ses'[s].pc = "leave" /\ agg' = agg
    BY <1>8 DEF PlayTimeEnds
  <2>. QED BY <2>1
<1>9. CASE Interrupted(s)
  BY <1>9 DEF Interrupted
<1>10. CASE BeginTick(s)
  BY <1>10 DEF BeginTick
<1>11. CASE Dispatch(s)
  <2>1. CASE \E count : Dispatched(s, count)
    <3>1. ses[s].pc = "tick" /\ ses'[s].pc = "tick"
      BY <1>11, <2>1 DEF Dispatch, Dispatched
    <3>2. PICK count : Dispatched(s, count)
      BY <2>1
    <3>3. CASE count = "skipped"
      BY <3>1, <3>2, <3>3 DEF Dispatched
    <3>4. CASE count = "relocation"
      BY <3>1, <3>2, <3>4 DEF Dispatched
    <3>5. CASE count \notin {"skipped", "relocation"}
      BY <3>1, <3>2, <3>5 DEF Dispatched
    <3>. QED BY <3>3, <3>4, <3>5
  <2>2. CASE ~\E count : Dispatched(s, count)
    <3>1. ses[s].pc = "tick" /\ ses'[s].pc = "send" /\ agg' = agg
      BY <1>11, <2>2 DEF Dispatch
    <3>. QED BY <3>1
  <2>. QED BY <2>1, <2>2
<1>12. CASE SendPosition(s)
  <2>1. /\ ses[s].pc = "send" /\ ses'[s].pc = "tick"
        /\ agg' = [agg EXCEPT !.replayed = @ + 1]
    BY <1>12 DEF SendPosition
  <2>. QED BY <2>1
<1>13. CASE SendResync(s)
  BY <1>13 DEF SendResync, Resync
<1>14. CASE EndTick(s)
  BY <1>14 DEF EndTick, IdleMovement, Resync
<1>15. CASE Check(s)
  BY <1>15 DEF Check
<1>16. CASE Hold(s)
  BY <1>16 DEF Hold, IdleMovement, Resync
<1>17. CASE Leave(s)
  <2>1. /\ ses[s].pc = "leave" /\ ses'[s].pc = "join"
        /\ agg' = [agg EXCEPT !.active = @ - 1, !.disconnected = @ + 1]
    BY <1>17 DEF Leave
  <2>. QED BY <2>1
<1>18. CASE Join(s)
  BY <1>18 DEF Join
<1>19. CASE Record(s)
  BY <1>19 DEF Record
<1>20. CASE ReadConfig(s)
  <2>1. agg' = agg /\ ses'[s].pc = ses[s].pc
    BY <1>20 DEF ReadConfig
  <2>2. ses[s].pc \notin {"new", "record", "done"}
    BY <1>20 DEF ReadConfig
  <2>3. Uncounted(s)
    BY <2>1, <2>2
  <2>. QED BY <2>1, <2>2, <2>3
<1>21. CASE SyncPosition(s)
  BY <1>21 DEF SyncPosition
<1>22. CASE ConfirmPosition(s)
  BY <1>22 DEF ConfirmPosition
<1>23. CASE StartConfiguration(s)
  BY <1>23 DEF StartConfiguration
<1>24. CASE ReadEnds(s)
  BY <1>24 DEF ReadEnds
<1>. QED BY <1>1, <1>2, <1>3, <1>4, <1>5, <1>6, <1>7, <1>8, <1>9, <1>10, <1>11, <1>12, <1>13,
           <1>14, <1>15, <1>16, <1>17, <1>18, <1>19, <1>20, <1>21, <1>22, <1>23, <1>24
           DEF SessionNext, Run, Reader

\* A session that is done does nothing more; it is done when it has recorded.
LEMMA SessionEnds ==
  ASSUME NEW s \in Sessions, ses \in [Sessions -> SessionRec], SessionOK(ses[s]),
         SessionNext(s)
  PROVE  /\ stop' = stop /\ ses[s].pc # "done"
         /\ \/ ses'[s].pc # "done" /\ results' = results
            \/ Record(s)
<1>0. ses[s] \in SessionRec
  OBVIOUS
<1>. USE <1>0 DEF At, SessionRec, SessionOK
<1>1. CASE Dial(s)
  BY <1>1 DEF Dial
<1>2. CASE Login(s)
  BY <1>2 DEF Login, FinishFailed
<1>3. CASE Await(s)
  BY <1>3 DEF Await, FinishFailed
<1>4. CASE GiveUp(s)
  BY <1>4 DEF GiveUp, FinishFailed
<1>5. CASE Enter(s)
  BY <1>5 DEF Enter
<1>6. CASE Pass(s)
  BY <1>6 DEF Pass
<1>7. CASE PassEnds(s)
  BY <1>7 DEF PassEnds
<1>8. CASE PlayTimeEnds(s)
  BY <1>8 DEF PlayTimeEnds
<1>9. CASE Interrupted(s)
  BY <1>9 DEF Interrupted
<1>10. CASE BeginTick(s)
  BY <1>10 DEF BeginTick
<1>11. CASE Dispatch(s)
  <2>1. CASE \E count : Dispatched(s, count)
    BY <1>11, <2>1 DEF Dispatch, Dispatched
  <2>2. CASE ~\E count : Dispatched(s, count)
    BY <1>11, <2>2 DEF Dispatch
  <2>. QED BY <2>1, <2>2
<1>12. CASE SendPosition(s)
  BY <1>12 DEF SendPosition
<1>13. CASE SendResync(s)
  BY <1>13 DEF SendResync, Resync
<1>14. CASE EndTick(s)
  BY <1>14 DEF EndTick, IdleMovement, Resync
<1>15. CASE Check(s)
  BY <1>15 DEF Check
<1>16. CASE Hold(s)
  BY <1>16 DEF Hold, IdleMovement, Resync
<1>17. CASE Leave(s)
  BY <1>17 DEF Leave
<1>18. CASE Join(s)
  BY <1>18 DEF Join
<1>19. CASE Record(s)
  BY <1>19 DEF Record
<1>20. CASE ReadConfig(s)
  BY <1>20 DEF ReadConfig
<1>21. CASE SyncPosition(s)
  BY <1>21 DEF SyncPosition
<1>22. CASE ConfirmPosition(s)
  BY <1>22 DEF ConfirmPosition
<1>23. CASE StartConfiguration(s)
  BY <1>23 DEF StartConfiguration
<1>24. CASE ReadEnds(s)
  BY <1>24 DEF ReadEnds
<1>. QED BY <1>1, <1>2, <1>3, <1>4, <1>5, <1>6, <1>7, <1>8, <1>9, <1>10, <1>11, <1>12, <1>13,
           <1>14, <1>15, <1>16, <1>17, <1>18, <1>19, <1>20, <1>21, <1>22, <1>23, <1>24
           DEF SessionNext, Run, Reader

-----------------------------------------------------------------------------
(* The inductive invariant *)

Config == [traces : Seq(Seq(Kinds)), random : BOOLEAN, loop : BOOLEAN,
           target : Int, initial : Int, step : Int]

\* Each session is as it should be, and the server's position near its own.
SessionsOK ==
  /\ ses \in [Sessions -> SessionRec]
  /\ \A s \in Sessions : SessionOK(ses[s]) /\ Notices(ses[s]) /\ Follows(ses[s])

\* The counters are those of the sessions.
Counted ==
  /\ agg \in [Counters -> Nat]
  /\ agg.active = Cardinality(Among("playing"))
  /\ agg.disconnected = Cardinality(Among("gone"))
  /\ agg.failed = Cardinality(Among("failed"))
  /\ agg.connected = Cardinality(Among("entering")) + agg.active + agg.disconnected

\* What is recorded is what a session ended with.
Result == [state : States, replayed : Nat, loops : Nat]
Recorded ==
  /\ results \in [Sessions -> Result \cup {None}]
  /\ \A s \in Sessions :
       /\ results[s] # None <=> ses[s].pc = "done"
       /\ results[s] # None => results[s].state = ses[s].state

\* The report is of the run's last state, as nothing happens after it.
Reported ==
  report # None =>
    /\ run.pc \in {"reported", "report_failed"}
    /\ report = [connected |-> agg.connected, failed |-> agg.failed,
                 replayed |-> agg.replayed, peak |-> peak, sessions |-> results]

RunPCs == {"refused", "launch", "ramp", "watch", "drain", "sample", "write", "reported",
           "report_failed"}

\* The run launches its sessions in their order, no more than there are.
RunOK ==
  /\ run \in [pc : RunPCs, sc : {None} \cup Config, launched : Nat, quota : Int]
  /\ run.pc # "refused" =>
       /\ run.sc \in Config /\ run.sc.traces # <<>>
       /\ run.sc.target >= 1 /\ run.sc.target <= Cardinality(Sessions)
       /\ run.launched = 0 => run.pc = "launch" /\ run.quota >= 1
  /\ run.launched <= Cardinality(Sessions)
  /\ \A s \in Sessions : ses[s].pc = "new" <=> s >= run.launched

\* A sample is of a number of sessions that were in play, none of which has left
\* the count of those that connected.
Sampled ==
  /\ stop \in BOOLEAN
  /\ sampler \in [pc : {"idle", "read", "done"}, active : Nat] /\ sampler.active <= agg.connected
  /\ peak \in Nat /\ peak <= agg.connected

IInv == SessionsOK /\ Counted /\ Recorded /\ RunOK /\ Reported /\ Sampled

-----------------------------------------------------------------------------
(* It holds initially, and every step keeps it *)

\* A scenario that Load accepts launches at least one session and has a trace.
LEMMA LoadConfig ==
  ASSUME NEW f \in Scenarios, Load(f) # None
  PROVE  /\ Load(f) \in Config /\ Load(f).traces # <<>>
         /\ Load(f).target >= 1 /\ Load(f).target <= Cardinality(Sessions)
         /\ Load(f).initial >= 1
<1>1. /\ f.target \in Int /\ f.initial \in Int /\ f.add \in Int /\ f.interval \in Int
      /\ IfSet(f.target, 1) <= Cardinality(Sessions)
      /\ f.traces # None => f.traces \in Seq(Seq(Kinds)) /\ f.traces # <<>>
  BY ScenarioAssumption
<1>2. f.traces # None /\ ~(f.target < 0) /\ ~(f.initial < 0)
  BY DEF Load
<1>3. IfSet(f.target, 1) \in Int /\ IfSet(f.interval, 5) \in Int
  BY <1>1 DEF IfSet
<1>4. f.add * IfSet(f.interval, 5) \in Int
  BY <1>1, <1>3
<1>. DEFINE step == IF f.add * IfSet(f.interval, 5) <= 0 THEN IfSet(f.target, 1)
                   ELSE f.add * IfSet(f.interval, 5)
<1>5. step \in Int
  BY <1>1, <1>3, <1>4
<1>6. Load(f) = [traces |-> f.traces, random |-> f.strategy = "random",
                 loop |-> f.reuse # "once", target |-> IfSet(f.target, 1),
                 initial |-> IfSet(f.initial, IfSet(f.target, 1)), step |-> step]
  BY DEF Load
<1>. HIDE DEF step
<1>7. /\ IfSet(f.target, 1) >= 1
      /\ IfSet(f.initial, IfSet(f.target, 1)) \in Int /\ IfSet(f.initial, IfSet(f.target, 1)) >= 1
  BY <1>1, <1>2, <1>3 DEF IfSet
<1>8. Load(f) \in Config
  BY <1>1, <1>2, <1>3, <1>5, <1>6, <1>7 DEF Config
<1>. QED BY <1>1, <1>2, <1>6, <1>7, <1>8

\* The peak is the larger of the old one and the sample.
LEMMA MaxOfTwo ==
  ASSUME NEW a \in Int, NEW b \in Int
  PROVE  Max({a, b}) \in {a, b} /\ Max({a, b}) >= a /\ Max({a, b}) >= b
<1>1. \E x \in {a, b} : \A y \in {a, b} : x >= y
  OBVIOUS
<1>. QED BY <1>1 DEF Max

\* A process starts in the invariant, whether the scenario is refused or not.
LEMMA InitIInv == Init => IInv
<1>. SUFFICES ASSUME Init PROVE IInv
  OBVIOUS
<1>1. SessionsOK
  <2>1. New \in SessionRec
    BY DEF New, SessionRec, PCs, States, Readers, Pending, Leaves
  <2>2. SessionOK(New) /\ Notices(New) /\ Follows(New)
    BY <2>1, SessionAssumption DEF SessionOK, Notices, Follows, New, Playing
  <2>. QED BY <2>1, <2>2 DEF Init, SessionInit, SessionsOK
<1>2. Counted
  <2>1. \A s \in Sessions : ses[s].pc = "new"
    BY DEF Init, SessionInit, New
  <2>2. \A p \in {"playing", "gone", "failed", "entering"} : Among(p) = {}
    BY <2>1 DEF Among, Phase, Playing
  <2>3. agg \in [Counters -> Nat] /\ agg.active = 0 /\ agg.connected = 0
        /\ agg.disconnected = 0 /\ agg.failed = 0
    BY DEF Init, SessionInit, Counters
  <2>4. \A p \in {"playing", "gone", "failed", "entering"} : Cardinality(Among(p)) = 0
    BY <2>2, FS_EmptySet
  <2>. QED BY <2>3, <2>4 DEF Counted
<1>3. RunOK
  <2>1. PICK f \in Scenarios :
          run = [pc |-> IF Load(f) = None THEN "refused" ELSE "launch", sc |-> Load(f),
                 launched |-> 0, quota |-> IF Load(f) = None THEN 0 ELSE Load(f).initial]
    BY DEF Init
  <2>2. Cardinality(Sessions) \in Nat
    BY SessionAssumption, FS_CardinalityType
  <2>3. \A s \in Sessions : ses[s].pc = "new" /\ s >= 0
    BY SessionAssumption DEF Init, SessionInit, New
  <2>4. CASE Load(f) = None
    <3>1. run = [pc |-> "refused", sc |-> None, launched |-> 0, quota |-> 0]
      BY <2>1, <2>4
    <3>. QED BY <2>2, <2>3, <3>1 DEF RunOK, RunPCs
  <2>5. CASE Load(f) # None
    <3>1. Load(f) \in Config /\ Load(f).traces # <<>> /\ Load(f).initial \in Int
          /\ Load(f).target >= 1 /\ Load(f).target <= Cardinality(Sessions)
          /\ Load(f).initial >= 1
      BY <2>5, LoadConfig DEF Config
    <3>2. run = [pc |-> "launch", sc |-> Load(f), launched |-> 0, quota |-> Load(f).initial]
      BY <2>1, <2>5
    <3>. QED BY <2>2, <2>3, <3>1, <3>2 DEF RunOK, RunPCs
  <2>. QED BY <2>4, <2>5
<1>4. Sampled
  <2>1. /\ stop = FALSE /\ sampler = [pc |-> "idle", active |-> 0] /\ peak = 0
        /\ agg.connected = 0
    BY DEF Init, SessionInit
  <2>2. sampler \in [pc : {"idle", "read", "done"}, active : Nat] /\ sampler.active = 0
    BY <2>1
  <2>3. stop \in BOOLEAN /\ peak = 0 /\ agg.connected = 0
    BY <2>1
  <2>. QED BY <2>2, <2>3 DEF Sampled
<1>5. Recorded
  BY DEF Init, SessionInit, New, Recorded
<1>6. Reported
  BY DEF Init, Reported
<1>. QED BY <1>1, <1>2, <1>3, <1>4, <1>5, <1>6 DEF IInv

\* A session's step: its phase, the counters and its result change together.
LEMMA SessionStep ==
  ASSUME IInv, Going, NEW s \in Sessions, Session(s)
  PROVE  IInv'
<1>0. /\ ses \in [Sessions -> SessionRec] /\ SessionOK(ses[s]) /\ Notices(ses[s])
      /\ Follows(ses[s]) /\ agg \in [Counters -> Nat]
      /\ SessionNext(s) /\ UNCHANGED <<run, sampler, peak, report>>
  BY DEF IInv, SessionsOK, Counted, Session, runnerVars
<1>1. OnlyS(s) /\ SessionOK(ses'[s]) /\ Notices(ses'[s]) /\ Follows(ses'[s])
  BY <1>0, SessionKeeps, SessionNotices, SessionFollows
<1>2. ses'[s] \in SessionRec
  BY <1>1 DEF SessionOK
<1>3. SessionsOK'
  BY <1>0, <1>1, <1>2 DEF IInv, SessionsOK, OnlyS
<1>4. Counted' /\ agg'.connected >= agg.connected
  <2>. DEFINE Count(p) == Cardinality(Among(p))
  <2>1. \A p : /\ Count(p) \in Nat /\ Count(p)' \in Nat
               /\ Count(p)' = Count(p) + (IF Phase(ses'[s]) = p THEN 1 ELSE 0)
                                       - (IF Phase(ses[s]) = p THEN 1 ELSE 0)
    BY <1>0, <1>1, AmongStep
  <2>2. /\ agg.active = Count("playing") /\ agg.disconnected = Count("gone")
        /\ agg.failed = Count("failed")
        /\ agg.connected = Count("entering") + agg.active + agg.disconnected
    BY DEF IInv, Counted
  <2>3. agg.active \in Nat /\ agg.connected \in Nat /\ agg.disconnected \in Nat
        /\ agg.failed \in Nat
    BY <1>0 DEF Counters
  <2>. SUFFICES /\ agg' \in [Counters -> Nat]
                /\ agg'.active = Count("playing")' /\ agg'.disconnected = Count("gone")'
                /\ agg'.failed = Count("failed")'
                /\ agg'.connected = Count("entering")' + agg'.active + agg'.disconnected
                /\ agg'.connected >= agg.connected
    BY DEF Counted
  <2>. HIDE DEF Count
  <2>4. CASE Uncounted(s)
    BY <2>1, <2>2, <2>3, <2>4 DEF Uncounted
  <2>5. CASE Changes(s, "before", "entering") /\ agg' = [agg EXCEPT !.connected = @ + 1]
    BY <1>0, <2>1, <2>2, <2>3, <2>5 DEF Changes, Counters
  <2>6. CASE Changes(s, "before", "failed") /\ agg' = [agg EXCEPT !.failed = @ + 1]
    BY <1>0, <2>1, <2>2, <2>3, <2>6 DEF Changes, Counters
  <2>7. CASE Changes(s, "entering", "playing") /\ agg' = [agg EXCEPT !.active = @ + 1]
    BY <1>0, <2>1, <2>2, <2>3, <2>7 DEF Changes, Counters
  <2>8. CASE /\ Changes(s, "playing", "gone")
             /\ agg' = [agg EXCEPT !.active = @ - 1, !.disconnected = @ + 1]
    <3>1. agg.active - 1 \in Nat /\ agg.disconnected + 1 \in Nat
      BY <2>1, <2>2, <2>3, <2>8 DEF Changes
    <3>2. agg' \in [Counters -> Nat]
      BY <1>0, <2>8, <3>1 DEF Counters
    <3>3. /\ agg'.active = agg.active - 1 /\ agg'.disconnected = agg.disconnected + 1
          /\ agg'.connected = agg.connected /\ agg'.failed = agg.failed
      BY <1>0, <2>8 DEF Counters
    <3>. QED BY <2>1, <2>2, <2>3, <2>8, <3>2, <3>3 DEF Changes
  <2>. QED BY <1>0, <2>4, <2>5, <2>6, <2>7, <2>8, SessionCounts
<1>5. RunOK'
  <2>1. ses[s].pc # "new" /\ ses'[s].pc # "new"
    BY <1>0, SessionCounts
  <2>2. \A t \in Sessions : ses'[t].pc = "new" <=> t >= run.launched
    BY <1>0, <1>1, <2>1 DEF IInv, RunOK, OnlyS
  <2>. QED BY <1>0, <2>2 DEF IInv, RunOK
<1>6. Sampled'
  <2>1. stop' = stop
    BY <1>0, SessionEnds
  <2>2. agg.connected \in Nat /\ agg'.connected \in Nat
    BY <1>4 DEF IInv, Counted, Counters
  <2>. QED BY <1>0, <1>4, <2>1, <2>2 DEF IInv, Sampled
<1>7. Recorded'
  <2>1. ses[s].pc # "done" /\ \A t \in Sessions : t # s => ses'[t] = ses[t]
    BY <1>0, <1>1, SessionEnds DEF OnlyS
  <2>2. CASE ses'[s].pc # "done" /\ results' = results
    BY <2>1, <2>2 DEF IInv, Recorded
  <2>3. CASE Record(s)
    <3>. DEFINE res == [state |-> ses[s].state, replayed |-> ses[s].replayed,
                       loops |-> ses[s].loops]
    <3>1. res \in Result /\ res # None /\ res.state = ses[s].state
      <4>1. res \in Result
        BY <1>0 DEF SessionRec, Result
      <4>. QED BY <4>1, SessionAssumption DEF Result
    <3>2. /\ ses'[s].pc = "done" /\ ses'[s].state = ses[s].state
          /\ results' = [results EXCEPT ![s] = res]
      BY <1>0, <2>3 DEF Record, SessionRec
    <3>. HIDE DEF res
    <3>. QED BY <2>1, <3>1, <3>2 DEF IInv, Recorded
  <2>. QED BY <1>0, <2>2, <2>3, SessionEnds
<1>8. Reported'
  BY <1>0 DEF IInv, Going, Reported
<1>. QED BY <1>3, <1>4, <1>5, <1>6, <1>7, <1>8 DEF IInv

\* A launch makes the next session in order a new one, with a trace of its own.
LEMMA LaunchStep ==
  ASSUME IInv, Launch
  PROVE  IInv'
<1>. DEFINE l == run.launched
<1>0. /\ ses \in [Sessions -> SessionRec]
      /\ \A s \in Sessions : SessionOK(ses[s]) /\ Notices(ses[s]) /\ Follows(ses[s])
      /\ run \in [pc : RunPCs, sc : {None} \cup Config, launched : Nat, quota : Int]
      /\ run.pc = "launch" /\ run.sc \in Config /\ run.sc.traces # <<>>
      /\ l < run.sc.target /\ run.sc.target <= Cardinality(Sessions)
      /\ \A s \in Sessions : ses[s].pc = "new" <=> s >= l
      /\ run' = [run EXCEPT !.launched = @ + 1, !.quota = @ - 1]
      /\ UNCHANGED <<agg, budget, results, stop, sampler, peak, report>>
  BY DEF IInv, SessionsOK, RunOK, Launch
<1>1. PICK n \in TraceFor(l) :
        ses' = [ses EXCEPT ![l].pc = "dial", ![l].trace = run.sc.traces[n], ![l].loop = run.sc.loop]
  BY DEF Launch
<1>2. run.sc.traces[n] \in Seq(Kinds) /\ run.sc.loop \in BOOLEAN
  <2>1. run.sc.traces \in Seq(Seq(Kinds)) /\ Len(run.sc.traces) \in Nat \ {0}
    BY <1>0 DEF Config
  <2>2. (l % Len(run.sc.traces)) + 1 \in 1 .. Len(run.sc.traces)
    BY <1>0, <2>1
  <2>3. n \in 1 .. Len(run.sc.traces)
    BY <2>1, <2>2 DEF TraceFor
  <2>. QED BY <1>0, <2>1, <2>3 DEF Config
<1>3. l \in Sessions
  <2>1. Cardinality(Sessions) \in Nat /\ run.sc.target \in Int
    BY <1>0, SessionAssumption, FS_CardinalityType DEF Config
  <2>. QED BY <1>0, <2>1, ScenarioAssumption
<1>4. /\ OnlyS(l)
      /\ ses'[l] = [ses[l] EXCEPT !.pc = "dial", !.trace = run.sc.traces[n], !.loop = run.sc.loop]
      /\ ses[l] \in SessionRec /\ SessionOK(ses[l]) /\ ses[l].pc = "new"
      /\ Notices(ses[l]) /\ Follows(ses[l])
  <2>1. /\ ses[l] \in SessionRec /\ SessionOK(ses[l]) /\ ses[l].pc = "new"
        /\ Notices(ses[l]) /\ Follows(ses[l])
    BY <1>0, <1>3
  <2>2. /\ OnlyS(l)
        /\ ses'[l] = [ses[l] EXCEPT !.pc = "dial", !.trace = run.sc.traces[n], !.loop = run.sc.loop]
    <3>1. ses \in [Sessions -> SessionRec]
      BY <1>0
    <3>. QED BY <1>1, <1>3, <3>1 DEF OnlyS
  <2>. QED BY <2>1, <2>2
<1>5. ses'[l] \in SessionRec /\ ses'[l].pc = "dial"
  BY <1>2, <1>4 DEF SessionRec, PCs
<1>6. SessionsOK'
  <2>1. SessionOK(ses'[l]) /\ Follows(ses'[l])
    BY <1>4, <1>5 DEF SessionOK, Follows, SessionRec
  <2>2. Notices(ses'[l])
    BY <1>4, <1>5 DEF Notices, SessionRec, Leaves, Playing
  <2>. QED BY <2>2, <1>0, <1>4, <1>5, <2>1 DEF SessionsOK, OnlyS
<1>9. \A s \in Sessions : s # l => ses'[s] = ses[s]
  BY <1>0, <1>4 DEF OnlyS
<1>10. Counted'
  <2>1. \A p : Among(p)' = Among(p)
    <3>1. Phase(ses'[l]) = "before" /\ Phase(ses[l]) = "before"
      BY <1>4, <1>5 DEF Phase, Playing
    <3>. QED BY <1>9, <3>1 DEF Among
  <2>. QED BY <1>0, <2>1 DEF IInv, Counted
<1>11. Recorded'
  <2>1. results[l] = None /\ ses'[l].pc # "done"
    BY <1>3, <1>4, <1>5 DEF IInv, Recorded
  <2>. QED BY <1>0, <1>9, <2>1 DEF IInv, Recorded
<1>12. Reported'
  BY <1>0 DEF IInv, Reported
<1>7. RunOK'
  <2>1. Cardinality(Sessions) \in Nat
    BY SessionAssumption, FS_CardinalityType
  <2>2. run.sc.target \in Int
    BY <1>0 DEF Config
  <2>3. /\ run'.launched = l + 1 /\ run'.pc = "launch" /\ run'.sc = run.sc
        /\ l \in Nat /\ run'.quota = run.quota - 1
    BY <1>0
  <2>4. \A s \in Sessions : ses'[s].pc = "new" <=> s >= run'.launched
    BY <1>0, <1>5, <1>9, <2>3, SessionAssumption
  <2>5. run' \in [pc : RunPCs, sc : {None} \cup Config, launched : Nat, quota : Int]
    <3>1. l + 1 \in Nat /\ run.quota - 1 \in Int
      BY <1>0
    <3>. QED BY <1>0, <3>1
  <2>6. l + 1 <= Cardinality(Sessions)
    BY <1>0, <2>1, <2>2, <2>3
  <2>7. run.sc.target >= 1
    BY <1>0, <2>2
  <2>. QED BY <1>0, <2>3, <2>4, <2>5, <2>6, <2>7 DEF RunOK
<1>8. Sampled'
  BY <1>0 DEF IInv, Sampled
<1>. QED BY <1>6, <1>7, <1>8, <1>10, <1>11, <1>12 DEF IInv

\* The other steps of the run's goroutine and of the sampler leave the sessions alone.
LEMMA Aside ==
  ASSUME IInv, ses' = ses, agg' = agg, results' = results
  PROVE  /\ RunOK' /\ Reported' /\ Sampled' => IInv'
         /\ \A p \in RunPCs \ {"refused"} :
              /\ run.pc # "refused" /\ run.launched # 0 /\ run' = [run EXCEPT !.pc = p]
              => RunOK' /\ run'.pc = p
         /\ run' = run => RunOK'
         /\ Going /\ report' = report => Reported'
         /\ UNCHANGED <<stop, sampler, peak>> => Sampled'
<1>1. SessionsOK' /\ Counted' /\ Recorded'
  BY DEF IInv, SessionsOK, Counted, Among, Recorded
<1>2. ASSUME NEW p \in RunPCs \ {"refused"}, run.pc # "refused", run.launched # 0,
             run' = [run EXCEPT !.pc = p]
      PROVE  RunOK' /\ run'.pc = p
  <2>1. /\ run' \in [pc : RunPCs, sc : {None} \cup Config, launched : Nat, quota : Int]
        /\ run'.sc = run.sc /\ run'.launched = run.launched /\ run'.pc = p
    BY <1>2 DEF IInv, RunOK
  <2>. QED BY <1>2, <2>1 DEF IInv, RunOK
<1>3. run' = run => RunOK'
  BY DEF IInv, RunOK
<1>4. Going /\ report' = report => Reported'
  BY DEF IInv, Reported, Going
<1>5. UNCHANGED <<stop, sampler, peak>> => Sampled'
  BY DEF IInv, Sampled
<1>. QED BY <1>1, <1>2, <1>3, <1>4, <1>5 DEF IInv

\* No more sessions play than have connected.
LEMMA ActiveWereConnected ==
  ASSUME IInv
  PROVE  agg.active \in Nat /\ agg.connected \in Nat /\ agg.active <= agg.connected
<1>1. Among("entering") \in SUBSET Sessions
  BY DEF Among
<1>2. Cardinality(Among("entering")) \in Nat
  BY <1>1, SessionAssumption, FS_Subset, FS_CardinalityType
<1>. QED BY <1>2 DEF IInv, Counted, Counters

\* A sample is of what Active was at some time.
LEMMA SamplerStep ==
  ASSUME IInv, Going, Sampler
  PROVE  IInv'
<1>1. /\ ses' = ses /\ agg' = agg /\ run' = run /\ stop' = stop /\ results' = results
      /\ report' = report
  BY DEF Sampler, ReadActive, TakeSample, SamplerEnds, sessionVars
<1>2. agg.active \in Nat /\ agg.connected \in Nat /\ agg.active <= agg.connected
  BY ActiveWereConnected
<1>3. Sampled'
  <2>1. CASE ReadActive
    BY <1>1, <1>2, <2>1 DEF ReadActive, IInv, Sampled
  <2>2. CASE TakeSample
    <3>1. peak \in Int /\ sampler.active \in Int /\ peak' = Max({peak, sampler.active})
      BY <2>2 DEF TakeSample, IInv, Sampled
    <3>2. peak' \in {peak, sampler.active}
      BY <3>1, MaxOfTwo, Zenon
    <3>. QED BY <1>1, <1>2, <2>2, <3>2 DEF TakeSample, IInv, Sampled
  <2>3. CASE SamplerEnds
    BY <1>1, <1>2, <2>3 DEF SamplerEnds, IInv, Sampled
  <2>. QED BY <2>1, <2>2, <2>3 DEF Sampler
<1>. QED BY <1>1, <1>3, Aside DEF Going

\* A step of the run's own goroutine; the last one writes the report.
LEMMA MainStep ==
  ASSUME IInv, Going, Main
  PROVE  IInv'
<1>1. CASE Launch
  BY <1>1, LaunchStep
<1>0. run.pc \notin {"refused", "launch"} => run.launched # 0
  BY DEF IInv, RunOK
<1>2. CASE Launched
  <2>1. UNCHANGED <<ses, agg, results, stop, sampler, peak, report>>
    BY <1>2 DEF Launched, sessionVars
  <2>2. PICK p \in {"ramp", "watch"} : run' = [run EXCEPT !.pc = p]
    BY <1>2 DEF Launched
  <2>3. run.pc # "refused" /\ run.launched # 0
    <3>1. /\ run.pc # "refused" /\ run.sc.target >= 1
          /\ run.launched = 0 => run.quota >= 1
      BY <1>2 DEF Launched, IInv, RunOK
    <3>2. run.quota <= 0 \/ run.launched >= run.sc.target
      BY <1>2 DEF Launched
    <3>3. run.quota \in Int /\ run.launched \in Nat /\ run.sc.target \in Int
      BY <3>1 DEF IInv, RunOK, Config
    <3>. QED BY <3>1, <3>2, <3>3
  <2>. QED BY <1>0, <2>1, <2>2, <2>3, Aside DEF RunPCs
<1>3. CASE RampTick
  <2>1. UNCHANGED <<ses, agg, results, stop, sampler, peak, report>> /\ run.pc = "ramp"
        /\ run' = [run EXCEPT !.pc = "launch", !.quota = run.sc.step]
    BY <1>3 DEF RampTick, sessionVars
  <2>2. run.sc.step \in Int
    BY <2>1 DEF IInv, RunOK, Config
  <2>3. /\ run' \in [pc : RunPCs, sc : {None} \cup Config, launched : Nat, quota : Int]
        /\ run'.sc = run.sc /\ run'.launched = run.launched /\ run'.pc = "launch"
    BY <2>1, <2>2 DEF IInv, RunOK, RunPCs
  <2>4. RunOK'
    BY <1>0, <2>1, <2>3 DEF IInv, RunOK
  <2>. QED BY <2>1, <2>3, <2>4, Aside
<1>4. CASE RampEnds
  <2>1. UNCHANGED <<ses, agg, results, stop, sampler, peak, report>> /\ run.pc \notin {"refused", "launch"}
        /\ run' = [run EXCEPT !.pc = "watch"]
    BY <1>4 DEF RampEnds, sessionVars
  <2>. QED BY <1>0, <2>1, Aside DEF RunPCs
<1>5. CASE Stop
  <2>1. /\ UNCHANGED <<ses, agg, results, sampler, peak, report>> /\ stop' = TRUE
        /\ run.pc \notin {"refused", "launch"}
        /\ run' = [run EXCEPT !.pc = "drain"]
    BY <1>5 DEF Stop
  <2>2. Sampled'
    BY <2>1 DEF IInv, Sampled
  <2>. QED BY <1>0, <2>1, <2>2, Aside DEF RunPCs
<1>6. CASE Drain
  <2>1. UNCHANGED <<ses, agg, results, stop, sampler, peak, report>> /\ run.pc \notin {"refused", "launch"}
        /\ run' = [run EXCEPT !.pc = "sample"]
    BY <1>6 DEF Drain, sessionVars
  <2>. QED BY <1>0, <2>1, Aside DEF RunPCs
<1>7. CASE LastSample
  <2>1. UNCHANGED <<ses, agg, results, stop, sampler, report>> /\ run.pc \notin {"refused", "launch"}
        /\ run' = [run EXCEPT !.pc = "write"] /\ peak' = Max({peak, agg.active})
    BY <1>7 DEF LastSample, sessionVars
  <2>2. agg.active \in Nat /\ agg.connected \in Nat /\ agg.active <= agg.connected
    BY ActiveWereConnected
  <2>3. peak' \in {peak, agg.active}
    <3>1. peak \in Int /\ agg.active \in Int
      BY <2>2 DEF IInv, Sampled
    <3>. QED BY <2>1, <3>1, MaxOfTwo, Zenon
  <2>4. Sampled'
    BY <2>1, <2>2, <2>3 DEF IInv, Sampled
  <2>. QED BY <1>0, <2>1, <2>4, Aside DEF RunPCs
<1>8. CASE WriteReport
  <2>1. UNCHANGED <<ses, agg, results, stop, sampler, peak>> /\ run.pc = "write"
    BY <1>8 DEF WriteReport, sessionVars
  <2>2. ASSUME NEW end \in {"reported", "report_failed"}, run' = [run EXCEPT !.pc = end],
               report' = [connected |-> agg.connected, failed |-> agg.failed,
                          replayed |-> agg.replayed, peak |-> peak, sessions |-> results]
        PROVE  IInv'
    <3>1. RunOK' /\ run'.pc = end
      BY <1>0, <2>1, <2>2, Aside DEF RunPCs
    <3>2. Reported'
      BY <2>1, <2>2, <3>1 DEF Reported
    <3>. QED BY <2>1, <3>1, <3>2, Aside
  <2>3. CASE run' = [run EXCEPT !.pc = "report_failed"] /\ report' = report
    BY <1>0, <2>1, <2>3, Aside DEF RunPCs
  <2>. QED BY <1>8, <2>2, <2>3 DEF WriteReport
<1>. QED BY <1>1, <1>2, <1>3, <1>4, <1>5, <1>6, <1>7, <1>8 DEF Main

\* The invariant is inductive.
LEMMA NextIInv == IInv /\ [Next]_vars => IInv'
<1>. SUFFICES ASSUME IInv, [Next]_vars PROVE IInv'
  OBVIOUS
<1>1. CASE UNCHANGED vars
  <2>1. UNCHANGED <<ses, agg, results, stop, run, sampler, peak, report>>
    BY <1>1 DEF vars, sessionVars, runnerVars
  <2>2. Reported'
    BY <2>1 DEF IInv, Reported
  <2>. QED BY <2>1, <2>2, Aside
<1>2. ASSUME NEW s \in Sessions, Going, Session(s) PROVE IInv'
  BY <1>2, SessionStep
<1>. QED BY <1>1, <1>2, MainStep, SamplerStep DEF Next

-----------------------------------------------------------------------------
(* The theorems *)

\* The sessions, the counters, the recorded results, the launches, the sampler
\* and the report agree at every time: with two goroutines per session, the
\* run's and the sampler's, whatever the server does (session.go 164-257,
\* runner.go 89-172, metrics.go 143-158).
THEOREM RunInvariant == Spec => []IInv
<1>. QED BY InitIInv, NextIInv, PTL DEF Spec

\* Every variable keeps its type, and a goroutine holds a computed position
\* exactly while it is between computing and sending it (dispatch.go 25-45).
THEOREM RunTypes == Spec => []TypeOK
<1>1. IInv => TypeOK
  <2>. SUFFICES ASSUME IInv PROVE TypeOK
    OBVIOUS
  <2>1. run.launched \in 0 .. Cardinality(Sessions)
    BY SessionAssumption, FS_CardinalityType DEF IInv, RunOK
  <2>2. ASSUME NEW s \in Sessions
        PROVE  /\ ses[s].state \in States /\ ses[s].reader \in Readers
               /\ {ses[s].mine, ses[s].theirs} \subseteq Pending
               /\ ses[s].mine # "none" <=> ses[s].pc \in {"send", "check_resync", "hold_resync"}
               /\ ses[s].theirs # "none" <=> ses[s].reader = "sync"
    BY DEF IInv, SessionsOK, SessionOK, SessionRec
  <2>. QED BY <2>1, <2>2 DEF TypeOK, IInv, Counted, Counters, Sampled, States, Readers, Pending
<1>. QED BY <1>1, RunInvariant, PTL

\* A result is read, and a session recorded, only when its reader has ended, on
\* every path out of Run (session.go 199-241).
THEOREM RunJoins == Spec => []JoinedBeforeRecorded
<1>1. IInv => JoinedBeforeRecorded
  BY DEF IInv, SessionsOK, SessionOK, JoinedBeforeRecorded
<1>. QED BY <1>1, RunInvariant, PTL

\* A replay loop whose reader has left play begins one more tick at most
\* (protocol_flow.go 220, 372-394), or, if the reader had left before play was
\* entered, one more once that reader is back (session.go 221).
THEOREM RunTicks == Spec => []OneTickAtMost
<1>1. IInv => OneTickAtMost
  BY DEF IInv, SessionsOK, Notices, SessionRec, Leaves, OneTickAtMost
<1>. QED BY <1>1, RunInvariant, PTL

\* When the two goroutines' positions leave in the wrong order, the server has
\* the client's again within ResyncTicks idle packets, for any value of it
\* (protocol_flow.go 136-162, 411-425).
THEOREM RunFollows == Spec => []BehindAtMostOneResync
<1>1. IInv => BehindAtMostOneResync
  BY DEF IInv, SessionsOK, Follows, BehindAtMostOneResync
<1>. QED BY <1>1, RunInvariant, PTL

\* The peak never exceeds the sessions that connected (metrics.go 143-158).
THEOREM RunPeak == Spec => []PeakWasReached
<1>1. IInv => PeakWasReached
  BY DEF IInv, Sampled, PeakWasReached
<1>. QED BY <1>1, RunInvariant, PTL

\* The sessions that ended are those counted as failed or as gone, and no others
\* once none is left that plays or is about to leave.
LEMMA ListedCounts ==
  ASSUME IInv
  PROVE  /\ Cardinality(Listed({"failed"})) <= agg.failed
         /\ Cardinality({s \in Sessions : results[s] # None}) <= agg.failed + agg.disconnected
         /\ Drained =>
              /\ agg.failed = Cardinality(Listed({"failed"}))
              /\ agg.connected + agg.failed = Cardinality({s \in Sessions : results[s] # None})
<1>. DEFINE F == Among("failed")
            G == Among("gone")
            D == {s \in Sessions : results[s] # None}
<1>1. /\ IsFiniteSet(F) /\ IsFiniteSet(G) /\ IsFiniteSet(F \cup G)
      /\ Cardinality(F) \in Nat /\ Cardinality(G) \in Nat
  <2>1. F \in SUBSET Sessions /\ G \in SUBSET Sessions /\ F \cup G \in SUBSET Sessions
    BY DEF Among
  <2>. QED BY <2>1, SessionAssumption, FS_Subset, FS_CardinalityType
<1>2. Cardinality(F \cup G) = Cardinality(F) + Cardinality(G)
  <2>1. F \cap G = {}
    BY DEF Among
  <2>2. Cardinality(F \cap G) = 0
    BY <2>1, FS_EmptySet
  <2>3. Cardinality(F \cup G) = Cardinality(F) + Cardinality(G) - Cardinality(F \cap G)
    BY <1>1, FS_Union
  <2>. QED BY <1>1, <2>2, <2>3
<1>3. agg.failed = Cardinality(F) /\ agg.disconnected = Cardinality(G)
  BY DEF IInv, Counted
<1>4. \A s \in Sessions :
        /\ results[s] # None => ses[s].pc = "done" /\ results[s].state = ses[s].state
        /\ ses[s].pc = "done" => results[s] # None /\ s \in F \cup G
        /\ ses[s].pc = "done" => (s \in F <=> ses[s].state = "failed")
  BY DEF IInv, Recorded, Among, Phase, Playing
<1>5. D \in SUBSET (F \cup G) /\ Listed({"failed"}) \in SUBSET F
  BY <1>4 DEF Listed
<1>6. Cardinality(D) <= Cardinality(F \cup G) /\ Cardinality(Listed({"failed"})) <= Cardinality(F)
  BY <1>1, <1>5, FS_Subset
<1>7. ASSUME Drained
      PROVE  /\ F = Listed({"failed"}) /\ F \cup G = D
             /\ Among("playing") = {} /\ Among("entering") = {}
  <2>1. \A s \in Sessions : ses[s].pc \in {"new", "done"}
    BY <1>7 DEF Drained
  <2>2. \A s \in Sessions : s \in F \cup G => ses[s].pc = "done"
    BY <2>1 DEF Among, Phase, Playing
  <2>3. \A s \in Sessions : Phase(ses[s]) \notin {"playing", "entering"}
    BY <2>1 DEF Phase, Playing
  <2>4. F \subseteq Sessions /\ G \subseteq Sessions
    BY DEF Among
  <2>5. F = Listed({"failed"}) /\ F \cup G = D
    BY <1>4, <1>5, <2>2, <2>4 DEF Listed
  <2>6. Among("playing") = {} /\ Among("entering") = {}
    BY <2>3 DEF Among
  <2>. QED BY <2>5, <2>6
<1>8. Drained => /\ agg.failed = Cardinality(Listed({"failed"}))
                 /\ agg.connected + agg.failed = Cardinality(D)
  <2>. SUFFICES ASSUME Drained
                PROVE  /\ agg.failed = Cardinality(Listed({"failed"}))
                       /\ agg.connected + agg.failed = Cardinality(D)
    OBVIOUS
  <2>1. Cardinality(Among("playing")) = 0 /\ Cardinality(Among("entering")) = 0
    BY <1>7, FS_EmptySet
  <2>2. agg.connected = Cardinality(G)
    BY <1>1, <1>3, <2>1 DEF IInv, Counted
  <2>3. Cardinality(D) = Cardinality(F) + Cardinality(G) /\ F = Listed({"failed"})
    BY <1>2, <1>7
  <2>. QED BY <1>1, <1>3, <2>2, <2>3
<1>. QED BY <1>1, <1>2, <1>3, <1>6, <1>8

\* The report's counts are those of the sessions it lists, for any number of
\* sessions and any scenario (session.go 164-257, runner.go 140-165).
THEOREM RunReport == Spec => []ReportAddsUp
<1>1. IInv => ReportAddsUp
  <2>. SUFFICES ASSUME IInv PROVE ReportAddsUp
    OBVIOUS
  <2>1. agg.active + agg.disconnected <= agg.connected
    <3>1. Cardinality(Among("entering")) \in Nat
      <4>1. Among("entering") \in SUBSET Sessions
        BY DEF Among
      <4>. QED BY <4>1, SessionAssumption, FS_Subset, FS_CardinalityType
    <3>. QED BY <3>1 DEF IInv, Counted, Counters
  <2>2. ASSUME report # None, Drained
        PROVE  LET listed == {s \in Sessions : report.sessions[s] # None} IN
               /\ listed = 0 .. (run.launched - 1) /\ run.launched >= 1
               /\ report.failed = Cardinality(Listed({"failed"}))
               /\ report.connected + report.failed = Cardinality(listed)
    <3>1. /\ report.sessions = results /\ report.failed = agg.failed
          /\ report.connected = agg.connected
      BY <2>2 DEF IInv, Reported
    <3>2. run.launched \in Nat /\ run.launched >= 1 /\ run.launched <= Cardinality(Sessions)
      BY <2>2 DEF IInv, RunOK, Reported
    <3>3. \A s \in Sessions : results[s] # None <=> s < run.launched
      <4>1. \A s \in Sessions : ses[s].pc = "new" <=> s >= run.launched
        BY DEF IInv, RunOK
      <4>2. \A s \in Sessions : ses[s].pc \in {"new", "done"} /\ s \in Nat
        BY <2>2, SessionAssumption DEF Drained
      <4>3. \A s \in Sessions : results[s] # None <=> ses[s].pc = "done"
        BY DEF IInv, Recorded
      <4>. QED BY <3>2, <4>1, <4>2, <4>3
    <3>4. {s \in Sessions : results[s] # None} = 0 .. (run.launched - 1)
      BY <3>2, <3>3, ScenarioAssumption, SessionAssumption, FS_CardinalityType
    <3>. QED BY <2>2, <3>1, <3>2, <3>4, ListedCounts
  <2>. QED BY <2>1, <2>2, ListedCounts DEF ReportAddsUp
<1>. QED BY <1>1, RunInvariant, PTL
-----------------------------------------------------------------------------
(* The events replayed: a sum over the sessions rather than a number of them *)

Replayed == [s \in Sessions |-> ses[s].replayed]

\* The run's count is the sum of the sessions' own, and each recorded its own;
\* one that was never launched has replayed nothing.
EventsCounted ==
  /\ agg.replayed = SumFunctionOnSet(Replayed, Sessions)
  /\ \A s \in Sessions :
       /\ results[s] # None => results[s].replayed = ses[s].replayed
       /\ ses[s].pc = "new" => ses[s].replayed = 0

\* A session counts an event for itself and for the run in one step, or for neither.
LEMMA SessionReplays ==
  ASSUME NEW s \in Sessions, ses \in [Sessions -> SessionRec], SessionOK(ses[s]),
         agg \in [Counters -> Nat], SessionNext(s)
  PROVE  \E n \in {0, 1} : /\ ses'[s].replayed = ses[s].replayed + n
                           /\ agg'.replayed = agg.replayed + n
<1>0. ses[s] \in SessionRec /\ ses[s].replayed \in Nat /\ agg.replayed \in Nat
  BY DEF SessionRec, Counters
<1>. SUFFICES \/ ses'[s].replayed = ses[s].replayed /\ agg'.replayed = agg.replayed
              \/ /\ ses'[s].replayed = ses[s].replayed + 1
                 /\ agg'.replayed = agg.replayed + 1
  BY <1>0
<1>. USE <1>0 DEF At, SessionRec, Counters
<1>1. CASE Dial(s)
  BY <1>1 DEF Dial
<1>2. CASE Login(s)
  BY <1>2 DEF Login, FinishFailed
<1>3. CASE Await(s)
  <2>1. agg' = agg \/ agg' = [agg EXCEPT !.connected = @ + 1] \/ agg' = [agg EXCEPT !.failed = @ + 1]
    BY <1>3, Literals DEF Await, FinishFailed
  <2>2. ses'[s].replayed = ses[s].replayed
    BY <1>3 DEF Await, FinishFailed
  <2>3. agg'.replayed = agg.replayed
    BY <2>1
  <2>. QED BY <2>2, <2>3
<1>4. CASE GiveUp(s)
  BY <1>4 DEF GiveUp, FinishFailed
<1>5. CASE Enter(s)
  BY <1>5, Literals DEF Enter
<1>6. CASE Pass(s)
  BY <1>6 DEF Pass
<1>7. CASE PassEnds(s)
  BY <1>7 DEF PassEnds
<1>8. CASE PlayTimeEnds(s)
  BY <1>8 DEF PlayTimeEnds
<1>9. CASE Interrupted(s)
  BY <1>9 DEF Interrupted
<1>10. CASE BeginTick(s)
  BY <1>10 DEF BeginTick
<1>11. CASE Dispatch(s)
  <2>1. CASE Dispatched(s, "skipped")
    BY <2>1 DEF Dispatched
  <2>2. CASE Dispatched(s, "replayed")
    BY <2>2 DEF Dispatched
  <2>3. CASE Dispatched(s, "relocation")
    BY <2>3 DEF Dispatched
  <2>4. CASE ~\E count \in {"skipped", "replayed", "relocation"} : Dispatched(s, count)
    BY <1>11, <2>4 DEF Dispatch
  <2>. QED BY <2>1, <2>2, <2>3, <2>4
<1>12. CASE SendPosition(s)
  BY <1>12 DEF SendPosition
<1>13. CASE SendResync(s)
  BY <1>13 DEF SendResync, Resync
<1>14. CASE EndTick(s)
  BY <1>14 DEF EndTick, IdleMovement, Resync
<1>15. CASE Check(s)
  BY <1>15 DEF Check
<1>16. CASE Hold(s)
  BY <1>16 DEF Hold, IdleMovement, Resync
<1>17. CASE Leave(s)
  BY <1>17 DEF Leave
<1>18. CASE Join(s)
  BY <1>18 DEF Join
<1>19. CASE Record(s)
  BY <1>19 DEF Record
<1>20. CASE ReadConfig(s)
  BY <1>20 DEF ReadConfig
<1>21. CASE SyncPosition(s)
  BY <1>21 DEF SyncPosition
<1>22. CASE ConfirmPosition(s)
  BY <1>22 DEF ConfirmPosition
<1>23. CASE StartConfiguration(s)
  BY <1>23 DEF StartConfiguration
<1>24. CASE ReadEnds(s)
  BY <1>24 DEF ReadEnds
<1>. QED BY <1>1, <1>2, <1>3, <1>4, <1>5, <1>6, <1>7, <1>8, <1>9, <1>10, <1>11, <1>12, <1>13,
           <1>14, <1>15, <1>16, <1>17, <1>18, <1>19, <1>20, <1>21, <1>22, <1>23, <1>24
           DEF SessionNext, Run, Reader

\* A step that leaves every session's events, the run's and the results alone.
LEMMA EventsKept ==
  ASSUME EventsCounted, agg' = agg, results' = results,
         \A s \in Sessions : /\ ses'[s].replayed = ses[s].replayed
                             /\ ses'[s].pc = "new" => ses[s].pc = "new"
  PROVE  EventsCounted'
<1>1. Replayed' = Replayed
  BY DEF Replayed
<1>. QED BY <1>1 DEF EventsCounted

\* A session's step adds to the sum what it adds to the run's count, and what
\* it records is its entry of the sum.
LEMMA SessionEvents ==
  ASSUME IInv, IInv', EventsCounted, NEW s \in Sessions, Session(s)
  PROVE  EventsCounted'
<1>0. /\ ses \in [Sessions -> SessionRec] /\ ses' \in [Sessions -> SessionRec]
      /\ SessionOK(ses[s]) /\ agg \in [Counters -> Nat] /\ SessionNext(s)
      /\ IsFiniteSet(Sessions) /\ results \in [Sessions -> Result \cup {None}]
  BY SessionAssumption DEF IInv, SessionsOK, Counted, Session, Recorded
<1>1. OnlyS(s)
  BY <1>0, SessionKeeps
<1>2. \A t \in Sessions : t # s => ses'[t] = ses[t]
  BY <1>0, <1>1 DEF OnlyS
<1>3. PICK n \in {0, 1} : /\ ses'[s].replayed = ses[s].replayed + n
                          /\ agg'.replayed = agg.replayed + n
  BY <1>0, SessionReplays
<1>4. \A t \in Sessions : ses[t].replayed \in Nat /\ ses'[t].replayed \in Nat
  BY <1>0 DEF SessionRec
<1>5. SumFunctionOnSet(Replayed', Sessions)
        = SumFunctionOnSet(Replayed, Sessions) + (Replayed'[s] - Replayed[s])
  <2>1. \A t \in Sessions : /\ Replayed[t] = ses[t].replayed
                            /\ Replayed'[t] = ses'[t].replayed
    BY DEF Replayed
  <2>2. \A t \in Sessions : Replayed[t] \in Nat /\ Replayed'[t] \in Nat
    BY <1>4, <2>1
  <2>3. \A t \in Sessions \ {s} : Replayed'[t] = Replayed[t]
    BY <1>2, <2>1
  <2>. QED BY <1>0, <2>2, <2>3, SumUpdate
<1>6. Replayed[s] = ses[s].replayed /\ Replayed'[s] = ses'[s].replayed
  BY DEF Replayed
<1>7. SumFunctionOnSet(Replayed, Sessions) \in Nat
  BY <1>0 DEF EventsCounted, Counters
<1>8. agg'.replayed = SumFunctionOnSet(Replayed', Sessions)
  BY <1>3, <1>4, <1>5, <1>6, <1>7 DEF EventsCounted
<1>9. ASSUME NEW t \in Sessions
      PROVE  /\ results'[t] # None => results'[t].replayed = ses'[t].replayed
             /\ ses'[t].pc = "new" => ses'[t].replayed = 0
  <2>1. ses'[s].pc # "new"
    BY <1>0, SessionCounts
  <2>2. results[s] = None
    BY <1>0, SessionEnds DEF IInv, Recorded
  <2>3. CASE results' = results
    BY <1>2, <2>1, <2>2, <2>3 DEF EventsCounted
  <2>4. CASE Record(s)
    <3>1. /\ results' = [results EXCEPT ![s] = [state |-> ses[s].state,
                            replayed |-> ses[s].replayed, loops |-> ses[s].loops]]
          /\ ses'[s].replayed = ses[s].replayed
      BY <1>0, <2>4 DEF Record, SessionRec
    <3>2. CASE t = s
      BY <1>0, <2>1, <3>1, <3>2
    <3>3. CASE t # s
      BY <1>0, <1>2, <3>1, <3>3 DEF EventsCounted
    <3>. QED BY <3>2, <3>3
  <2>. QED BY <1>0, <2>3, <2>4, SessionEnds
<1>. QED BY <1>8, <1>9 DEF EventsCounted

\* A session counts an event for itself and for the run at once.
LEMMA EventsStep == IInv /\ IInv' /\ EventsCounted /\ [Next]_vars => EventsCounted'
<1>. SUFFICES ASSUME IInv, IInv', EventsCounted, [Next]_vars PROVE EventsCounted'
  OBVIOUS
<1>1. CASE ses' = ses /\ agg' = agg /\ results' = results
  BY <1>1, EventsKept
<1>2. CASE Launch
  <2>1. \A s \in Sessions : /\ ses'[s].replayed = ses[s].replayed
                            /\ ses'[s].pc = "new" => ses[s].pc = "new"
    <3>1. PICK n \in TraceFor(run.launched) :
            ses' = [ses EXCEPT ![run.launched].pc = "dial",
                               ![run.launched].trace = run.sc.traces[n],
                               ![run.launched].loop = run.sc.loop]
      BY <1>2 DEF Launch
    <3>2. ses \in [Sessions -> SessionRec]
      BY DEF IInv, SessionsOK
    <3>3. ASSUME NEW s \in Sessions
          PROVE  /\ ses'[s].replayed = ses[s].replayed
                 /\ ses'[s].pc = "new" => ses[s].pc = "new"
      <4>1. CASE s # run.launched
        BY <3>1, <3>2, <4>1
      <4>2. CASE s = run.launched
        <5>1. ses[s] \in SessionRec
          BY <3>2
        <5>2. ses'[s] = [ses[s] EXCEPT !.pc = "dial", !.trace = run.sc.traces[n],
                                       !.loop = run.sc.loop]
          BY <3>1, <3>2, <4>2
        <5>. QED BY <5>1, <5>2 DEF SessionRec
      <4>. QED BY <4>1, <4>2
    <3>. QED BY <3>3
  <2>. QED BY <1>2, <2>1, EventsKept DEF Launch
<1>3. ASSUME NEW s \in Sessions, Session(s) PROVE EventsCounted'
  BY <1>3, SessionEvents
<1>4. Main /\ ~Launch => ses' = ses /\ agg' = agg /\ results' = results
  BY DEF Main, Launched, RampTick, RampEnds, Stop, Drain, LastSample, WriteReport, sessionVars
<1>5. Sampler => ses' = ses /\ agg' = agg /\ results' = results
  BY DEF Sampler, ReadActive, TakeSample, SamplerEnds, sessionVars
<1>6. UNCHANGED vars => ses' = ses /\ agg' = agg /\ results' = results
  BY DEF vars, sessionVars
<1>. QED BY <1>1, <1>2, <1>3, <1>4, <1>5, <1>6 DEF Next

\* The events a report says were replayed are those of the sessions it lists, for
\* any number of sessions and whatever each of them met (dispatch.go 319-324).
THEOREM RunEvents == Spec => []EventsAddUp
<1>1. Init => EventsCounted
  <2>. SUFFICES ASSUME Init PROVE EventsCounted
    OBVIOUS
  <2>1. \A s \in Sessions : /\ ses[s].replayed = 0 /\ Replayed[s] = 0 /\ results[s] = None
    BY DEF Init, SessionInit, New, Replayed
  <2>2. SumFunctionOnSet(Replayed, Sessions) = 0
    BY <2>1, SessionAssumption, SumZero
  <2>3. agg.replayed = 0
    BY DEF Init, SessionInit
  <2>. QED BY <2>1, <2>2, <2>3 DEF EventsCounted
<1>2. IInv /\ EventsCounted => EventsAddUp
  <2>. SUFFICES ASSUME IInv, EventsCounted, report # None, Drained
                PROVE  report.replayed =
                         SumFunctionOnSet([s \in Sessions |-> IF report.sessions[s] = None THEN 0
                                              ELSE report.sessions[s].replayed], Sessions)
    BY DEF EventsAddUp
  <2>1. report.replayed = agg.replayed /\ report.sessions = results
    BY DEF IInv, Reported
  <2>. DEFINE listed == [s \in Sessions |-> IF report.sessions[s] = None THEN 0
                                           ELSE report.sessions[s].replayed]
  <2>2. \A s \in Sessions : Replayed[s] \in Nat /\ listed[s] = Replayed[s]
    <3>1. \A s \in Sessions : /\ ses[s].pc \in {"new", "done"}
                              /\ results[s] # None <=> ses[s].pc = "done"
                              /\ ses[s].replayed \in Nat
      BY DEF Drained, IInv, Recorded, SessionsOK, SessionRec
    <3>. QED BY <2>1, <3>1 DEF EventsCounted, Replayed
  <2>. HIDE DEF listed
  <2>3. SumFunctionOnSet(listed, Sessions) = SumFunctionOnSet(Replayed, Sessions)
    BY <2>2, SessionAssumption, SumSame
  <2>. QED BY <2>1, <2>3 DEF EventsCounted, listed
<1>3. Spec => []EventsCounted
  BY <1>1, EventsStep, RunInvariant, PTL DEF Spec
<1>. QED BY <1>2, <1>3, RunInvariant, PTL

-----------------------------------------------------------------------------
(* What a session can do by itself *)

\* At every time a session past its login, or its reader, has a step to take that
\* waits for nothing from the server: a goroutine waits for its reader only with
\* the connection closed (session.go 199-230).
THEOREM RunStrandsNobody == Spec => []StopNeverStrands
<1>1. IInv => StopNeverStrands
  <2>. SUFFICES ASSUME IInv, NEW s \in Sessions,
                       ses[s].pc \notin {"new", "dial", "login", "done"}, ~CanRun(s)
                PROVE  ReaderCanEnd(s)
    BY DEF StopNeverStrands
  <2>1. SessionOK(ses[s])
    BY DEF IInv, SessionsOK
  <2>2. ses[s].pc \in {"giveup", "join"} /\ ses[s].reader # "done"
    BY DEF CanRun
  <2>3. ses[s].closed /\ ses[s].reader \in {"config", "play", "sync"}
    BY <2>1, <2>2 DEF SessionOK, SessionRec, Readers
  <2>. QED BY <2>3 DEF ReaderCanEnd
<1>. QED BY <1>1, RunInvariant, PTL

\* A session's way to its end once the run is stopped, by steps that need nothing
\* of the server: out of the tick and the loop it is in, to the end of its
\* reader, to what it records.
Homeward(r) ==
  CASE r.pc \in {"giveup", "join"} /\ r.reader = "sync" ->
         [r EXCEPT !.reader = "done", !.theirs = "none"]
    [] r.pc \in {"giveup", "join"} /\ r.reader \in {"config", "play"} ->
         [r EXCEPT !.reader = "done"]
    [] r.pc = "wait" -> [r EXCEPT !.pc = "giveup", !.closed = TRUE]
    [] r.pc = "giveup" /\ r.reader = "done" ->
         [r EXCEPT !.pc = "record", !.state = "failed", !.closed = TRUE]
    [] r.pc = "enter" -> [r EXCEPT !.pc = "pass", !.state = "play_ready",
                            !.left = IF r.reader = "config" THEN "hidden" ELSE "no"]
    [] r.pc = "send" ->
         [r EXCEPT !.pc = "tick", !.synced = (r.mine = "view"), !.mine = "none",
                   !.behind = IF r.mine = "view" THEN 0 ELSE @, !.moved = TRUE, !.idle = 0,
                   !.idx = @ + 1, !.replayed = @ + 1]
    [] r.pc = "tick" /\ (r.moved \/ r.state # "play_ready") -> [r EXCEPT !.pc = "check"]
    [] r.pc = "tick" /\ ~r.moved /\ r.state = "play_ready" ->
         IF (r.idle + 1) % ResyncTicks = 0
         THEN [r EXCEPT !.pc = "check_resync", !.mine = "view", !.idle = 0]
         ELSE [r EXCEPT !.pc = "check", !.idle = @ + 1,
                        !.behind = IF r.synced THEN 0 ELSE @ + 1]
    [] r.pc \in {"check_resync", "hold_resync"} ->
         [r EXCEPT !.pc = IF r.pc = "check_resync" THEN "check" ELSE "hold",
                   !.synced = (r.mine = "view"), !.mine = "none",
                   !.behind = IF r.mine = "view" THEN 0 ELSE @]
    [] r.pc = "check" -> [r EXCEPT !.pc = IF r.state = "play_ready" THEN "play" ELSE "leave"]
    [] r.pc \in {"pass", "play", "hold"} -> [r EXCEPT !.pc = "leave"]
    [] r.pc = "leave" -> [r EXCEPT !.pc = "join", !.closed = TRUE]
    [] r.pc = "join" /\ r.reader = "done" -> [r EXCEPT !.pc = "record"]
    [] r.pc = "record" -> [r EXCEPT !.pc = "done"]

\* What it adds to the counters and the results on the way.
CountsHomeward(r) ==
  CASE r.pc = "giveup" /\ r.reader = "done" -> [agg EXCEPT !.failed = @ + 1]
    [] r.pc = "enter" -> [agg EXCEPT !.active = @ + 1]
    [] r.pc = "send" -> [agg EXCEPT !.replayed = @ + 1]
    [] r.pc = "leave" -> [agg EXCEPT !.active = @ - 1, !.disconnected = @ + 1]
    [] OTHER -> agg

GoesHome(s) ==
  /\ ses' = [ses EXCEPT ![s] = Homeward(ses[s])]
  /\ agg' = CountsHomeward(ses[s])
  /\ results' = IF ses[s].pc = "record"
                THEN [results EXCEPT ![s] = [state |-> ses[s].state, replayed |-> ses[s].replayed,
                                             loops |-> ses[s].loops]]
                ELSE results
  /\ UNCHANGED <<budget, stop, runnerVars>>

\* The steps it has left on that way.
StepsLeft(r) ==
  [done |-> 0, record |-> 1, giveup |-> 2, join |-> 2, wait |-> 3, leave |-> 3, pass |-> 4,
   play |-> 4, hold |-> 4, enter |-> 5, check |-> 5, hold_resync |-> 5, check_resync |-> 6,
   tick |-> 7, send |-> 8][r.pc]
  + IF r.reader \in {"none", "done"} THEN 0 ELSE 1

\* Once the run is stopped, a session past its login can always end without the
\* server: from every state it can be in it has a step, of its own goroutine or of
\* its reader, that brings it nearer to its end (session.go 199-257,
\* protocol_flow.go 335-397).  What keeps it from that is its select choosing the
\* ticker for ever, or a write that does not return.
THEOREM StoppedSessionCanEnd ==
  ASSUME IInv, Going, stop, NEW s \in Sessions,
         ses[s].pc \notin {"new", "dial", "login", "done"}, GoesHome(s)
  PROVE  /\ Session(s) /\ Next
         /\ StepsLeft(ses'[s]) < StepsLeft(ses[s]) /\ StepsLeft(ses'[s]) \in Nat
<1>. DEFINE r == ses[s]
<1>0. /\ r \in SessionRec /\ SessionOK(r)
      /\ ses \in [Sessions -> SessionRec]
      /\ agg \in [Counters -> Nat]
  BY DEF IInv, SessionsOK, Counted
<1>1. /\ ses' = [ses EXCEPT ![s] = Homeward(r)] /\ ses'[s] = Homeward(r)
      /\ agg' = CountsHomeward(r)
      /\ r.pc # "record" => UNCHANGED results
      /\ UNCHANGED <<budget, stop>>
  BY <1>0 DEF GoesHome
<1>2. SUFFICES (Run(s) \/ Reader(s)) /\ StepsLeft(ses'[s]) < StepsLeft(r)
                /\ StepsLeft(ses'[s]) \in Nat
  BY <1>2 DEF Session, SessionNext, Next, GoesHome
<1>3. CASE r.pc \in {"giveup", "join"} /\ r.reader = "sync"
  <2>1. Homeward(r) = [r EXCEPT !.reader = "done", !.theirs = "none"]
    BY <1>3 DEF Homeward
  <2>2. CountsHomeward(r) = agg
    BY <1>3 DEF CountsHomeward
  <2>3. ConfirmPosition(s)
    BY <1>1, <1>3, <2>1, <2>2 DEF ConfirmPosition
  <2>. QED BY <1>0, <1>1, <1>3, <2>1, <2>3 DEF Reader, StepsLeft, SessionRec
<1>4. CASE r.pc \in {"giveup", "join"} /\ r.reader \in {"config", "play"}
  <2>1. Homeward(r) = [r EXCEPT !.reader = "done"]
    BY <1>4 DEF Homeward
  <2>2. CountsHomeward(r) = agg
    BY <1>4 DEF CountsHomeward
  <2>3. ReadEnds(s)
    BY <1>1, <1>4, <2>1, <2>2 DEF ReadEnds
  <2>. QED BY <1>0, <1>1, <1>4, <2>1, <2>3 DEF Reader, StepsLeft, SessionRec
<1>5. CASE r.pc = "wait"
  <2>1. Homeward(r) = [r EXCEPT !.pc = "giveup", !.closed = TRUE]
    BY <1>5 DEF Homeward
  <2>2. CountsHomeward(r) = agg
    BY <1>5 DEF CountsHomeward
  <2>3. Await(s)
    BY <1>1, <1>5, <2>1, <2>2 DEF Await, At
  <2>. QED BY <1>0, <1>1, <1>5, <2>1, <2>3 DEF Run, StepsLeft, SessionRec
<1>6. CASE r.pc = "giveup" /\ r.reader = "done"
  <2>1. Homeward(r) = [r EXCEPT !.pc = "record", !.state = "failed", !.closed = TRUE]
    BY <1>6 DEF Homeward
  <2>2. CountsHomeward(r) = [agg EXCEPT !.failed = @ + 1]
    BY <1>6 DEF CountsHomeward
  <2>3. GiveUp(s)
    BY <1>1, <1>6, <2>1, <2>2 DEF GiveUp, FinishFailed, At
  <2>. QED BY <1>0, <1>1, <1>6, <2>1, <2>3 DEF Run, StepsLeft, SessionRec
<1>7. CASE r.pc = "enter"
  <2>1. Homeward(r) = [r EXCEPT !.pc = "pass", !.state = "play_ready",
                          !.left = IF r.reader = "config" THEN "hidden" ELSE "no"]
    BY <1>7 DEF Homeward
  <2>2. CountsHomeward(r) = [agg EXCEPT !.active = @ + 1]
    BY <1>7 DEF CountsHomeward
  <2>3. Enter(s)
    BY <1>1, <1>7, <2>1, <2>2, Literals DEF Enter, At
  <2>. QED BY <1>0, <1>1, <1>7, <2>1, <2>3 DEF Run, StepsLeft, SessionRec
<1>8. CASE r.pc = "send"
  <2>1. Homeward(r) =
         [r EXCEPT !.pc = "tick", !.synced = (r.mine = "view"), !.mine = "none",
                   !.behind = IF r.mine = "view" THEN 0 ELSE @, !.moved = TRUE, !.idle = 0,
                   !.idx = @ + 1, !.replayed = @ + 1]
    BY <1>8 DEF Homeward
  <2>2. CountsHomeward(r) = [agg EXCEPT !.replayed = @ + 1]
    BY <1>8 DEF CountsHomeward
  <2>3. SendPosition(s)
    <3>1. ses' = [ses EXCEPT ![s].pc = "tick", ![s].synced = (ses[s].mine = "view"),
                   ![s].mine = "none", ![s].behind = IF ses[s].mine = "view" THEN 0 ELSE @,
                   ![s].moved = TRUE, ![s].idle = 0,
                   ![s].idx = @ + 1, ![s].replayed = @ + 1]
      BY <1>0, <1>1, <2>1
    <3>2. agg' = [agg EXCEPT !.replayed = @ + 1] /\ UNCHANGED <<budget, results, stop>>
      BY <1>1, <1>8, <2>2
    <3> QED
      BY <1>8, <3>1, <3>2 DEF SendPosition, At
  <2>4. ses'[s].pc = "tick" /\ ses'[s].reader = r.reader
    BY <1>0, <1>1, <2>1 DEF SessionRec
  <2>. QED BY <1>8, <2>3, <2>4 DEF Run, StepsLeft
<1>9. CASE r.pc = "tick" /\ (r.moved \/ r.state # "play_ready")
  <2>1. Homeward(r) = [r EXCEPT !.pc = "check"]
    BY <1>9 DEF Homeward
  <2>2. CountsHomeward(r) = agg
    BY <1>9 DEF CountsHomeward
  <2>3. EndTick(s)
    BY <1>1, <1>9, <2>1, <2>2 DEF EndTick, IdleMovement, At
  <2>. QED BY <1>0, <1>1, <1>9, <2>1, <2>3 DEF Run, StepsLeft, SessionRec
<1>10. CASE r.pc = "tick" /\ ~r.moved /\ r.state = "play_ready" /\ (r.idle + 1) % ResyncTicks = 0
  <2>1. Homeward(r) = [r EXCEPT !.pc = "check_resync", !.mine = "view", !.idle = 0]
    BY <1>10 DEF Homeward
  <2>2. CountsHomeward(r) = agg
    BY <1>10 DEF CountsHomeward
  <2>3. EndTick(s)
    BY <1>1, <1>10, <2>1, <2>2 DEF EndTick, IdleMovement, Resync, At
  <2>. QED BY <1>0, <1>1, <1>10, <2>1, <2>3 DEF Run, StepsLeft, SessionRec
<1>11. CASE r.pc = "tick" /\ ~r.moved /\ r.state = "play_ready" /\ (r.idle + 1) % ResyncTicks # 0
  <2>1. Homeward(r) = [r EXCEPT !.pc = "check", !.idle = @ + 1,
                                !.behind = IF r.synced THEN 0 ELSE @ + 1]
    BY <1>11 DEF Homeward
  <2>2. CountsHomeward(r) = agg
    BY <1>11 DEF CountsHomeward
  <2>3. EndTick(s)
    BY <1>0, <1>1, <1>11, <2>1, <2>2 DEF EndTick, IdleMovement, At
  <2>. QED BY <1>0, <1>1, <1>11, <2>1, <2>3 DEF Run, StepsLeft, SessionRec
<1>12. CASE r.pc \in {"check_resync", "hold_resync"}
  <2>. DEFINE then == IF r.pc = "check_resync" THEN "check" ELSE "hold"
  <2>1. Homeward(r) =
         [r EXCEPT !.pc = then, !.synced = (r.mine = "view"), !.mine = "none",
                   !.behind = IF r.mine = "view" THEN 0 ELSE @]
    BY <1>12 DEF Homeward
  <2>2. CountsHomeward(r) = agg
    BY <1>12 DEF CountsHomeward
  <2>3. then \in {"check", "hold"} /\ r.pc = Resync[then]
    BY <1>12 DEF Resync
  <2>4. StepsLeft([r EXCEPT !.pc = then]) < StepsLeft(r)
        /\ StepsLeft([r EXCEPT !.pc = then]) \in Nat
    BY <1>0, <1>12 DEF StepsLeft, SessionRec
  <2>. HIDE DEF then
  <2>5. SendResync(s)
    BY <1>0, <1>1, <1>12, <2>1, <2>2, <2>3 DEF SendResync, At
  <2>6. /\ ses'[s].pc = then /\ ses'[s].reader = r.reader
        /\ [r EXCEPT !.pc = then].pc = then /\ [r EXCEPT !.pc = then].reader = r.reader
    BY <1>0, <1>1, <2>1 DEF SessionRec
  <2>. QED BY <2>4, <2>5, <2>6 DEF Run, StepsLeft
<1>13. CASE r.pc = "check"
  <2>1. Homeward(r) = [r EXCEPT !.pc = IF r.state = "play_ready" THEN "play" ELSE "leave"]
    BY <1>13 DEF Homeward
  <2>2. CountsHomeward(r) = agg
    BY <1>13 DEF CountsHomeward
  <2>3. Check(s)
    BY <1>1, <1>13, <2>1, <2>2 DEF Check, At
  <2>. QED BY <1>0, <1>1, <1>13, <2>1, <2>3 DEF Run, StepsLeft, SessionRec
<1>14. CASE r.pc \in {"pass", "play", "hold"}
  <2>1. Homeward(r) = [r EXCEPT !.pc = "leave"]
    BY <1>14 DEF Homeward
  <2>2. CountsHomeward(r) = agg
    BY <1>14 DEF CountsHomeward
  <2>3. PlayTimeEnds(s) \/ Interrupted(s)
    BY <1>1, <1>14, <2>1, <2>2 DEF PlayTimeEnds, Interrupted, At
  <2>. QED BY <1>0, <1>1, <1>14, <2>1, <2>3 DEF Run, StepsLeft, SessionRec
<1>15. CASE r.pc = "leave"
  <2>1. Homeward(r) = [r EXCEPT !.pc = "join", !.closed = TRUE]
    BY <1>15 DEF Homeward
  <2>2. CountsHomeward(r) = [agg EXCEPT !.active = @ - 1, !.disconnected = @ + 1]
    BY <1>15 DEF CountsHomeward
  <2>3. Leave(s)
    BY <1>1, <1>15, <2>1, <2>2 DEF Leave, At
  <2>. QED BY <1>0, <1>1, <1>15, <2>1, <2>3 DEF Run, StepsLeft, SessionRec
<1>16. CASE r.pc = "join" /\ r.reader = "done"
  <2>1. Homeward(r) = [r EXCEPT !.pc = "record"]
    BY <1>16 DEF Homeward
  <2>2. CountsHomeward(r) = agg
    BY <1>16 DEF CountsHomeward
  <2>3. Join(s)
    BY <1>1, <1>16, <2>1, <2>2 DEF Join, At
  <2>. QED BY <1>0, <1>1, <1>16, <2>1, <2>3 DEF Run, StepsLeft, SessionRec
<1>17. CASE r.pc = "record"
  <2>1. Homeward(r) = [r EXCEPT !.pc = "done"]
    BY <1>17 DEF Homeward
  <2>2. CountsHomeward(r) = agg
    BY <1>17 DEF CountsHomeward
  <2>3. Record(s)
    BY <1>1, <1>17, <2>1, <2>2 DEF Record, At, GoesHome
  <2>4. ses'[s].pc = "done" /\ ses'[s].reader = r.reader
    BY <1>0, <1>1, <2>1 DEF SessionRec
  <2>. QED BY <1>17, <2>3, <2>4 DEF Run, StepsLeft
<1>. QED
  <2>1. r.pc \in {"giveup", "join"} => r.reader \in {"sync", "config", "play", "done"}
    BY <1>0 DEF SessionOK, SessionRec, Readers
  <2>2. r.pc \in PCs \ {"new", "dial", "login", "done"}
    BY <1>0 DEF SessionRec
  <2>. QED BY <1>3, <1>4, <1>5, <1>6, <1>7, <1>8, <1>9, <1>10, <1>11, <1>12, <1>13, <1>14,
             <1>15, <1>16, <1>17, <2>1, <2>2 DEF PCs
=============================================================================
