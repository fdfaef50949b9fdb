----------------------------- MODULE DigLedger -----------------------------
(***************************************************************************)
(* A replay session digs and builds what its trace says and must report    *)
(* how much of it happened.  The dispatch goroutine sends the packets and  *)
(* notes what it asked for; the reader goroutine learns the blocks from    *)
(* chunks and updates and matches updates against what was asked.  They    *)
(* share the ledger (under its own mutex) and the two pending sets (under  *)
(* digMu), but no lock covers a lookup and the note it leads to, nor the   *)
(* packet and its note.                                                    *)
(*                                                                         *)
(* The server is modelled from what the client expects of it: packets      *)
(* arrive in order both ways, a finish counts only for the position last   *)
(* started, a refusal is silent or answered with the block as it is.       *)
(***************************************************************************)
EXTENDS Integers, Sequences, FiniteSets

CONSTANTS Positions,   \* the blocks the trace touches
          Dims,        \* dimensions the player may be in
          Sections,    \* Sections[d]: sections in a column of d
          Origin,      \* Origin[d]: its true lowest section
          Traces,      \* sequences of events: what is dug or built where
          Loops,       \* passes over it
          MaxOther,    \* bound on world changes that are not this player's
          MaxViews,    \* bound on how often a column comes into view
          MaxToServer, \* bounds on the packets under way to the server
          MaxToClient, \* and to the client
          None, Unknown

Blocks == {"air", "stone"}
Event == [op : {"start", "abort", "finish", "place"}, at : Positions]

IsDig(e) == e.op # "place"

ASSUME LedgerAssumption ==
  /\ IsFiniteSet(Positions) /\ Dims # {}
  /\ Sections \in [Dims -> Nat] /\ Origin \in [Dims -> Int]
  /\ Traces \subseteq Seq(Event)
  /\ Loops \in Nat \ {0} /\ MaxOther \in Nat /\ MaxViews \in Nat
  /\ MaxToServer \in Nat /\ MaxToClient \in Nat
  /\ None \notin Positions \cup Int
  /\ Unknown \notin Blocks

VARIABLES
  trace,        \* events of the trace: "at" is where a block goes or comes
  pass, idx,    \* passes completed, next event
  step,         \* where the dispatcher is inside that event
  digStarted, digPending, placePending,
  ledger,       \* blockLedger.state
  minSectionY,  \* None until a column has been seen
  reading,      \* the update the reader has entered but not matched yet
  count,        \* Aggregate's counters
  toServer, toClient, open,
  world, here, tracked, serverDig, format,  \* the server
  other, views,
  breaks,       \* history: blocks that became air
  late,         \* history: digs found gone between their lookup and their note
  misled        \* history: blocks left behind in another dimension, where the one
                \* entered has air, and blocks read at the wrong height

client == <<trace, pass, idx, step, digStarted, digPending, placePending,
            ledger, minSectionY, reading, count, late>>
others == <<world, here, tracked, serverDig, format, other, views, breaks>>
server == <<others, misled>>
vars == <<client, server, toServer, toClient, open>>

Zero == [sent |-> 0, confirmed |-> 0, intoAir |-> 0, unverifiable |-> 0,
         synthesised |-> 0, placesSent |-> 0, placesConfirmed |-> 0, unparsed |-> 0]

Init ==
  /\ trace \in Traces
  /\ pass = 0 /\ idx = 1 /\ step = "next"
  /\ digStarted = {} /\ digPending = {} /\ placePending = {}
  /\ ledger = [p \in Positions |-> Unknown]
  /\ minSectionY = None /\ reading = None
  /\ count = Zero /\ late = 0
  /\ toServer = <<>> /\ toClient = <<>> /\ open = TRUE
  /\ world \in [Dims -> [Positions -> Blocks]]
  /\ here \in Dims
  /\ tracked = FALSE /\ serverDig = None
  /\ format \in {"read", "moved"}
  /\ other = 0 /\ views = 0 /\ breaks = 0 /\ misled = 0

Bump(c) == [count EXCEPT ![c] = @ + 1]
Ev == trace[idx]
Send(op) == /\ Len(toServer) < MaxToServer
            /\ toServer' = IF open THEN Append(toServer, [op |-> op, at |-> Ev.at]) ELSE toServer
ToNextEvent == step' = "next" /\ idx' = idx + 1
Running == pass < Loops /\ idx <= Len(trace)

----------------------------------------------------------------------------
(* Dispatch                                                                 *)

DigStart ==
  /\ step = "next" /\ Running /\ Ev.op = "start"
  /\ digStarted' = digStarted \cup {Ev.at}
  /\ Send("start") /\ ToNextEvent
  /\ UNCHANGED <<trace, pass, digPending, placePending, ledger, minSectionY, reading,
                 count, late, server, toClient, open>>

DigAbort ==
  /\ step = "next" /\ Running /\ Ev.op = "abort"
  /\ digStarted' = digStarted \ {Ev.at}
  /\ Send("abort") /\ ToNextEvent
  /\ UNCHANGED <<trace, pass, digPending, placePending, ledger, minSectionY, reading,
                 count, late, server, toClient, open>>

\* A finish whose start the trace does not hold is given one.
Synthesise ==
  /\ step = "next" /\ Running /\ Ev.op = "finish" /\ Ev.at \notin digStarted
  /\ Send("start") /\ step' = "finish"
  /\ count' = Bump("synthesised")
  /\ UNCHANGED <<trace, pass, idx, digStarted, digPending, placePending, ledger,
                 minSectionY, reading, late, server, toClient, open>>

\* Mutant: a finish does not end the dig it finishes.
DigFinishKeepsStart ==
  /\ Running /\ Ev.op = "finish"
  /\ step = "finish" \/ (step = "next" /\ Ev.at \in digStarted)
  /\ Send("finish") /\ step' = "note"
  /\ UNCHANGED <<trace, pass, idx, digStarted, digPending, placePending, ledger,
                 minSectionY, reading, count, late, server, toClient, open>>

DigFinish ==
  /\ Running /\ Ev.op = "finish"
  /\ step = "finish" \/ (step = "next" /\ Ev.at \in digStarted)
  /\ digStarted' = digStarted \ {Ev.at}
  /\ Send("finish") /\ step' = "note"
  /\ UNCHANGED <<trace, pass, idx, digPending, placePending, ledger, minSectionY,
                 reading, count, late, server, toClient, open>>

\* Mutant: a dig into air is noted as any other.
NoteDigIntoAir ==
  /\ step = "note"
  /\ count' = IF ledger[Ev.at] = Unknown THEN Bump("unverifiable") ELSE count
  /\ step' = "pend"
  /\ UNCHANGED <<trace, pass, idx, digStarted, digPending, placePending, ledger,
                 minSectionY, reading, late, server, toServer, toClient, open>>

\* noteDig: the lookup, then the note under another lock.
NoteDig ==
  /\ step = "note"
  /\ IF ledger[Ev.at] = "air"
     THEN count' = Bump("intoAir") /\ ToNextEvent
     ELSE /\ count' = IF ledger[Ev.at] = Unknown THEN Bump("unverifiable") ELSE count
          /\ step' = "pend" /\ idx' = idx
  /\ UNCHANGED <<trace, pass, digStarted, digPending, placePending, ledger, minSectionY,
                 reading, late, server, toServer, toClient, open>>

AddPending ==
  /\ step = "pend"
  /\ digPending' = digPending \cup {Ev.at}
  /\ step' = "sent"
  /\ UNCHANGED <<trace, pass, idx, digStarted, placePending, ledger, minSectionY,
                 reading, count, late, server, toServer, toClient, open>>

CountDig ==
  /\ step = "sent"
  /\ count' = Bump("sent") /\ ToNextEvent
  /\ UNCHANGED <<trace, pass, digStarted, digPending, placePending, ledger, minSectionY,
                 reading, late, server, toServer, toClient, open>>

PlaceBlock ==
  /\ step = "next" /\ Running /\ Ev.op = "place"
  /\ Send("place") /\ step' = "placed"
  /\ UNCHANGED <<trace, pass, idx, digStarted, digPending, placePending, ledger,
                 minSectionY, reading, count, late, server, toClient, open>>

NotePlace ==
  /\ step = "placed"
  /\ placePending' = placePending \cup {Ev.at}
  /\ count' = Bump("placesSent") /\ ToNextEvent
  /\ UNCHANGED <<trace, pass, digStarted, digPending, ledger, minSectionY, reading,
                 late, server, toServer, toClient, open>>

\* A looped trace starts over; what was started or is pending stays.
NextPass ==
  /\ step = "next" /\ pass < Loops /\ idx > Len(trace)
  /\ pass' = pass + 1 /\ idx' = 1
  /\ UNCHANGED <<trace, step, digStarted, digPending, placePending, ledger, minSectionY,
                 reading, count, late, server, toServer, toClient, open>>

Dispatch == DigStart \/ DigAbort \/ Synthesise \/ DigFinish \/ NoteDig \/ AddPending
            \/ CountDig \/ PlaceBlock \/ NotePlace \/ NextPass

----------------------------------------------------------------------------
(* Reader                                                                   *)

\* What an update or a section says of some blocks, and the ledger with it.
One(p, b) == [q \in {p} |-> b]
Learn(states) == [p \in Positions |-> IF p \in DOMAIN states THEN states[p] ELSE ledger[p]]

\* The dispatcher has looked a block up and not noted it, and now it is gone.
CountLate == late' = late + IF step = "pend" /\ ledger[Ev.at] # "air" /\ ledger'[Ev.at] = "air"
                            THEN 1 ELSE 0

\* Mutant: the origin in blocks, not in sections.
KnownOriginInBlocks(n) == IF n = 24 THEN -64 ELSE IF n = 16 THEN 0 ELSE None

KnownOrigin(n) == IF n = 24 THEN -4 ELSE IF n = 16 THEN 0 ELSE None

\* readChunk.  The origin is inferred from the first column and kept; read
\* from another origin, a column yields blocks of another height.
ReadChunk ==
  /\ reading = None /\ toClient # <<>> /\ Head(toClient).kind = "chunk"
  /\ toClient' = Tail(toClient)
  /\ LET m == Head(toClient)
         inferred == IF format = "moved" THEN None ELSE KnownOrigin(Sections[m.from])
         origin == IF minSectionY = None THEN inferred ELSE minSectionY
     IN /\ minSectionY' = origin
        /\ \/ /\ origin = None \/ format = "moved"
              /\ UNCHANGED <<ledger, misled>> /\ count' = Bump("unparsed")
           \/ /\ origin = Origin[m.from] /\ format = "read"
              /\ ledger' = m.states /\ UNCHANGED <<count, misled>>
           \/ /\ origin \notin {None, Origin[m.from]} /\ format = "read"
              /\ \E part \in SUBSET Positions, read \in [Positions -> Blocks] :
                   ledger' = [x \in Positions |-> IF x \in part THEN read[x] ELSE ledger[x]]
              /\ misled' = misled + Cardinality({x \in Positions : ledger'[x] # ledger[x]})
              /\ UNCHANGED count
  /\ CountLate
  /\ UNCHANGED <<trace, pass, idx, step, digStarted, digPending, placePending, reading,
                 others, toServer, open>>

\* Mutant: section updates do not reach the ledger.
ReadSectionDrops ==
  /\ reading = None /\ toClient # <<>> /\ Head(toClient).kind = "section"
  /\ toClient' = Tail(toClient)
  /\ UNCHANGED <<client, server, toServer, open>>

ReadSection ==
  /\ reading = None /\ toClient # <<>> /\ Head(toClient).kind = "section"
  /\ ledger' = Learn(Head(toClient).states) /\ CountLate
  /\ toClient' = Tail(toClient)
  /\ UNCHANGED <<trace, pass, idx, step, digStarted, digPending, placePending, minSectionY,
                 reading, count, server, toServer, open>>

\* confirmBlockUpdate: the ledger first ...
ReadUpdate ==
  /\ reading = None /\ toClient # <<>> /\ Head(toClient).kind = "update"
  /\ reading' = Head(toClient).states
  /\ ledger' = Learn(reading') /\ CountLate
  /\ toClient' = Tail(toClient)
  /\ UNCHANGED <<trace, pass, idx, step, digStarted, digPending, placePending, minSectionY,
                 count, server, toServer, open>>

\* Mutant: what was confirmed stays pending.
ConfirmKeepsPending ==
  /\ reading # None
  /\ LET p == CHOOSE q \in DOMAIN reading : TRUE
     IN count' = IF reading[p] = "air" /\ p \in digPending THEN Bump("confirmed")
                 ELSE IF reading[p] # "air" /\ p \in placePending THEN Bump("placesConfirmed")
                 ELSE count
  /\ reading' = None
  /\ UNCHANGED <<trace, pass, idx, step, digStarted, digPending, placePending, ledger,
                 minSectionY, late, server, toServer, toClient, open>>

\* ... then the pending sets, under digMu.
Confirm ==
  /\ reading # None
  /\ LET p == CHOOSE q \in DOMAIN reading : TRUE
         dug == reading[p] = "air" /\ p \in digPending
         built == reading[p] # "air" /\ p \in placePending
     IN /\ digPending' = IF dug THEN digPending \ {p} ELSE digPending
        /\ placePending' = IF built THEN placePending \ {p} ELSE placePending
        /\ count' = IF dug THEN Bump("confirmed")
                    ELSE IF built THEN Bump("placesConfirmed") ELSE count
  /\ reading' = None
  /\ UNCHANGED <<trace, pass, idx, step, digStarted, ledger, minSectionY, late, server,
                 toServer, toClient, open>>

Reader == ReadChunk \/ ReadSection \/ ReadUpdate \/ Confirm

----------------------------------------------------------------------------
(* The server and the connection (not in this repository)                   *)

Tell(kind, states) ==
  /\ Len(toClient) < MaxToClient
  /\ toClient' = Append(toClient, [kind |-> kind, states |-> states, from |-> here])

\* The world changes at p: a client that tracks the column is told.
Change(p, b) ==
  /\ world' = [world EXCEPT ![here][p] = b]
  /\ breaks' = breaks + IF b = "air" /\ world[here][p] # "air" THEN 1 ELSE 0
  /\ IF tracked THEN \E kind \in {"update", "section"} : Tell(kind, One(p, b))
                ELSE UNCHANGED toClient

Refuse(p) ==
  /\ UNCHANGED <<world, breaks>>
  /\ UNCHANGED toClient \/ Tell("update", One(p, world[here][p]))

ServerReceives ==
  /\ open /\ toServer # <<>>
  /\ toServer' = Tail(toServer)
  /\ LET m == Head(toServer) IN
     \/ /\ m.op = "start"   \* some blocks break at once
        /\ serverDig' = m.at
        /\ \/ UNCHANGED <<world, breaks, toClient>>
           \/ world[here][m.at] # "air" /\ Change(m.at, "air")
     \/ /\ m.op = "abort"
        /\ serverDig' = None /\ UNCHANGED <<world, breaks, toClient>>
     \/ /\ m.op = "finish"
        /\ serverDig' = None
        /\ \/ Refuse(m.at)
           \/ serverDig = m.at /\ world[here][m.at] # "air" /\ Change(m.at, "air")
     \/ /\ m.op = "place"
        /\ UNCHANGED serverDig
        /\ \/ Refuse(m.at)
           \/ world[here][m.at] = "air" /\ Change(m.at, "stone")
  /\ UNCHANGED <<client, here, tracked, format, other, views, misled, open>>

\* Someone else digs or builds, or a break the server had put off happens.
OtherChange ==
  /\ open /\ other < MaxOther /\ other' = other + 1
  /\ \E p \in Positions, b \in Blocks : world[here][p] # b /\ Change(p, b)
  /\ UNCHANGED <<client, here, tracked, serverDig, format, views, misled, toServer, open>>

\* The column comes into view and is sent whole, or goes out of view.
Track ==
  /\ open /\ ~tracked /\ views < MaxViews
  /\ tracked' = TRUE /\ views' = views + 1
  /\ Tell("chunk", world[here])
  /\ UNCHANGED <<client, world, here, serverDig, format, other, breaks, misled, toServer, open>>

Untrack ==
  /\ open /\ tracked /\ views < MaxViews
  /\ tracked' = FALSE
  /\ here' \in Dims
  /\ misled' = misled + Cardinality({p \in Positions : /\ world[here][p] # "air"
                                                      /\ world[here'][p] = "air"})
  /\ UNCHANGED <<client, world, serverDig, format, other, views, breaks, toServer,
                 toClient, open>>

\* What was under way in either direction is lost, and later sends fail.
Disconnect ==
  /\ open /\ open' = FALSE
  /\ toServer' = <<>> /\ toClient' = <<>>
  /\ UNCHANGED <<client, server>>

Server == ServerReceives \/ OtherChange \/ Track \/ Untrack \/ Disconnect

Next == Dispatch \/ Reader \/ Server
Spec == Init /\ [][Next]_vars

----------------------------------------------------------------------------
(* Properties                                                               *)

TypeOK ==
  /\ trace \in Seq(Event) /\ pass \in 0 .. Loops /\ idx \in 1 .. Len(trace) + 1
  /\ step \in {"next", "finish", "note", "pend", "sent", "placed"}
  /\ digStarted \subseteq Positions /\ digPending \subseteq Positions
  /\ placePending \subseteq Positions
  /\ ledger \in [Positions -> Blocks \cup {Unknown}]
  /\ minSectionY \in {None, -4, 0}
  /\ reading = None \/ \E p \in Positions, b \in Blocks : reading = One(p, b)
  /\ count \in [DOMAIN Zero -> Nat]
  /\ \A i \in DOMAIN toServer : toServer[i] \in Event
  /\ \A i \in DOMAIN toClient : toClient[i].kind \in {"update", "section", "chunk"}
  /\ open \in BOOLEAN /\ tracked \in BOOLEAN /\ serverDig \in Positions \cup {None}
  /\ world \in [Dims -> [Positions -> Blocks]] /\ here \in Dims

\* Trace t, looped, has a start at p that is left alone, as when the block
\* breaks at once: other digs follow it, and then a finish at p whose own start
\* is missing.
Between(t, i, j) == IF i < j THEN i + 1 .. j - 1 ELSE (i + 1 .. Len(t)) \cup (1 .. j - 1)
LeftOver(t, p) ==
  \E i, j \in DOMAIN t :
    /\ t[i] = [op |-> "start", at |-> p] /\ t[j] = [op |-> "finish", at |-> p]
    /\ i < j \/ Loops > 1
    /\ \A k \in Between(t, i, j) : IsDig(t[k]) => t[k].at # p
    /\ \E k \in Between(t, i, j) : IsDig(t[k])

\* The server takes a finish only for the position it last saw started
\* (dispatch.go 118-125): every finish that reaches it follows its own start,
\* whatever trace is replayed, wherever it begins and ends and however often it
\* is looped, unless a start left alone hides that the finish lacks its own, an
\* exception the comment there (125-127) does not make.
FinishIsPaired ==
  toServer # <<>> /\ Head(toServer).op = "finish" =>
    serverDig = Head(toServer).at \/ LeftOver(trace, Head(toServer).at)

\* "air where we dug" (session.go 342-344) stands for a block that was there
\* and went: successes never exceed the blocks that broke, the digs counted
\* as unverifiable, those noted after their block had already gone, and the
\* blocks the client was misled about: what is pending and the ledger know
\* positions only, and keep them through a change of dimension.
NoFalseSuccess == count.confirmed <= breaks + count.unverifiable + late + misled

\* The report's digs=N/M never has N over M, although a dig is counted only
\* after the reader may have confirmed it.
ConfirmedOnce == count.confirmed <= count.sent + IF step = "sent" THEN 1 ELSE 0

\* What the client knows of a block in view is how the block is, once it has
\* read all it was sent, in every dimension whose origin is the one it goes by
\* (blocks.go 76-82).
LedgerFollowsWorld ==
  (open /\ tracked /\ toClient = <<>> /\ format = "read" /\ minSectionY = Origin[here]) =>
    \A p \in Positions : ledger[p] \in {Unknown, world[here][p]}

\* README.md 281-283: digs_unverifiable is never folded into a success.
UnverifiableNotASuccess ==
  step = "next" => count.confirmed + count.unverifiable <= count.sent

\* blocks.go 76-78: blocks are never read at the wrong height.
NotReadAtWrongHeight ==
  [][ReadChunk /\ ledger' # ledger => minSectionY' = Origin[Head(toClient).from]]_vars
=============================================================================
