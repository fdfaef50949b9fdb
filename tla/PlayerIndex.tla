---------------------------- MODULE PlayerIndex ----------------------------
(***************************************************************************)
(* PlayerIndex buckets the online players into square cells so that a mob  *)
(* event can be attributed to the nearest one.  The server thread adds,    *)
(* relocates and removes players and looks the nearest up; each            *)
(* connection's Netty thread relocates its own player meanwhile.  Both     *)
(* take a player's lock to change his cell, but a cell's map is shared by  *)
(* all who enter and leave it and is created and dropped under no lock.    *)
(*                                                                         *)
(* A position is a pair <<x, z>>: height takes no part in choosing a cell, *)
(* nor in anything said here.  A map of byCell has an identity, because    *)
(* byCell.remove(cell, old) drops the very map that detach looked at.      *)
(***************************************************************************)
EXTENDS Integers, FiniteSets

CONSTANTS Players,
          Positions,     \* where players are put, and mobs appear
          CellSize,      \* 64 blocks
          Radius,        \* attribution radius, 48 blocks
          MaxEntries,    \* bound on joins
          MaxMoves,      \* bound on position updates
          MaxMobs,       \* bound on mob events
          None

ASSUME IndexAssumption ==
  /\ CellSize \in Nat \ {0} /\ Radius \in 0 .. CellSize
  /\ Positions \subseteq Int \X Int /\ IsFiniteSet(Positions) /\ IsFiniteSet(Players)
  /\ MaxEntries \in Nat \ {0} /\ MaxMoves \in Nat /\ MaxMobs \in Nat
  /\ None \notin Players \cup (Int \X Int) /\ "server" \notin Players

Entry == 1 .. MaxEntries
Thread == Players \cup {"server"}
Cell(pos) == <<pos[1] \div CellSize, pos[2] \div CellSize>>
Cells == {<<Cell(q)[1] + ox, Cell(q)[2] + oz>> : q \in Positions, ox \in -1 .. 1, oz \in -1 .. 1}
MapId == 1 .. Cardinality(Positions) + Cardinality(Players) + 1

VARIABLES
  byPlayer,  \* player -> his entry
  byCell,    \* cell -> identity of its map
  maps,      \* identity -> player -> entry
  entries,   \* entry -> its fields; cell is None before the first update
  nextEntry, \* joins so far, plus one
  th,        \* thread -> the operation it is in
  scan,      \* the server thread's search for the nearest player
  moves, mobs

vars == <<byPlayer, byCell, maps, entries, nextEntry, th, scan, moves, mobs>>

Idle == [step |-> "idle", player |-> None, entry |-> 0, pos |-> None, map |-> 0]
NoScan == [step |-> "idle", at |-> None, cell |-> 0, todo |-> {}, reading |-> 0,
           x |-> 0, best |-> 0, bestSq |-> 0, calm |-> FALSE]
EmptyMap == [p \in Players |-> 0]

Init ==
  /\ byPlayer = [p \in Players |-> 0]
  /\ byCell = [c \in Cells |-> 0]
  /\ maps = [m \in MapId |-> EmptyMap]
  /\ entries = [e \in Entry |->
                  [id |-> None, x |-> 0, z |-> 0, cell |-> None, gone |-> FALSE]]
  /\ nextEntry = 1
  /\ th = [t \in Thread |-> Idle]
  /\ scan = NoScan
  /\ moves = 0 /\ mobs = 0
-----------------------------------------------------------------------------
Holding == {"detach", "empty", "drop", "insert", "put"}
Locked(e) == \E t \in Thread : th[t].step \in Holding /\ th[t].entry = e

Goto(t, step) == th' = [th EXCEPT ![t].step = step]
Return(t) == th' = [th EXCEPT ![t] = Idle]
ServerIdle == th["server"] = Idle /\ scan.step = "idle"

\* An update by any thread may change what a search under way should find.
Disturb == scan' = [scan EXCEPT !.calm = FALSE]
-----------------------------------------------------------------------------
(* Calls *)

\* update finds the player's entry, or ignores him.
Update(t, p, pos) ==
  /\ th[t] = Idle
  /\ moves < MaxMoves /\ moves' = moves + 1
  /\ byPlayer[p] # 0
  /\ th' = [th EXCEPT ![t] = [step |-> "x", player |-> p, entry |-> byPlayer[p],
                              pos |-> pos, map |-> 0]]
  /\ Disturb
  /\ UNCHANGED <<byPlayer, byCell, maps, entries, nextEntry, mobs>>

Add(p, pos) ==
  /\ ServerIdle /\ byPlayer[p] = 0 /\ nextEntry \in Entry
  /\ byPlayer' = [byPlayer EXCEPT ![p] = nextEntry]
  /\ nextEntry' = nextEntry + 1
  /\ entries' = [entries EXCEPT ![nextEntry].id = p]
  /\ th' = [th EXCEPT !["server"] = [step |-> "x", player |-> p, entry |-> nextEntry,
                                     pos |-> pos, map |-> 0]]
  /\ UNCHANGED <<byCell, maps, scan, moves, mobs>>

Remove(p) ==
  /\ ServerIdle /\ byPlayer[p] # 0
  /\ byPlayer' = [byPlayer EXCEPT ![p] = 0]
  /\ th' = [th EXCEPT !["server"] = [step |-> "lock", player |-> p, entry |-> byPlayer[p],
                                     pos |-> None, map |-> 0]]
  /\ UNCHANGED <<byCell, maps, entries, nextEntry, scan, moves, mobs>>
-----------------------------------------------------------------------------
(* update: three stores, then the cell is compared without the lock *)

StoreX(t) ==
  /\ th[t].step = "x"
  /\ entries' = [entries EXCEPT ![th[t].entry].x = th[t].pos[1]]
  /\ Goto(t, "z") /\ Disturb
  /\ UNCHANGED <<byPlayer, byCell, maps, nextEntry, moves, mobs>>

StoreZ(t) ==
  /\ th[t].step = "z"
  /\ entries' = [entries EXCEPT ![th[t].entry].z = th[t].pos[2]]
  /\ Goto(t, "compare") /\ Disturb
  /\ UNCHANGED <<byPlayer, byCell, maps, nextEntry, moves, mobs>>

Compare(t) ==
  /\ th[t].step = "compare"
  /\ IF Cell(th[t].pos) # entries[th[t].entry].cell THEN Goto(t, "lock") ELSE Return(t)
  /\ UNCHANGED <<byPlayer, byCell, maps, entries, nextEntry, scan, moves, mobs>>
-----------------------------------------------------------------------------
(* moveCell and remove: the entry's lock, then out of one cell and into     *)
(* another; a removal (pos = None) marks the entry and goes into no cell.   *)

Target(t) == IF th[t].pos = None THEN None ELSE Cell(th[t].pos)

GoneOrNot(e, c) == c = entries[e].cell
Pointless(e, c) == entries[e].gone \/ c = entries[e].cell

NoLock(e) == TRUE
Free(e) == ~Locked(e)

Lock(t) ==
  LET e == th[t].entry
  IN /\ th[t].step = "lock" /\ Free(e)
     /\ IF th[t].pos = None
          THEN Goto(t, "detach") /\ entries' = [entries EXCEPT ![e].gone = TRUE]
          ELSE /\ IF Pointless(e, Target(t)) THEN Return(t) ELSE Goto(t, "detach")
               /\ UNCHANGED entries
     /\ UNCHANGED <<byPlayer, byCell, maps, nextEntry, scan, moves, mobs>>

\* Leaving the entry's lock with its new cell.
StoreBlock(t) ==
  /\ entries' = [entries EXCEPT ![th[t].entry].cell = th[t].pos]
  /\ Return(t)
Finish(t) ==
  /\ entries' = [entries EXCEPT ![th[t].entry].cell = Target(t)]
  /\ Return(t)
AfterDetach(t) ==
  IF th[t].pos = None THEN Finish(t) ELSE Goto(t, "insert") /\ UNCHANGED entries

Detach(t) ==
  LET c == entries[th[t].entry].cell
      m == IF c = None THEN 0 ELSE byCell[c]
  IN /\ th[t].step = "detach"
     /\ IF m = 0
          THEN AfterDetach(t)
          ELSE th' = [th EXCEPT ![t].step = "empty", ![t].map = m] /\ UNCHANGED entries
     /\ UNCHANGED <<byPlayer, byCell, maps, nextEntry, scan, moves, mobs>>

\* old.remove(id), which commutes with whatever others do to the map, and
\* old.isEmpty() ...
Empty(t) ==
  LET old == [maps[th[t].map] EXCEPT ![th[t].player] = 0]
  IN /\ th[t].step = "empty"
     /\ maps' = [maps EXCEPT ![th[t].map] = old]
     /\ IF old = EmptyMap THEN Goto(t, "drop") /\ UNCHANGED entries ELSE AfterDetach(t)
     /\ UNCHANGED <<byPlayer, byCell, nextEntry, scan, moves, mobs>>

\* ... then byCell.remove(cell, old), which compares maps by their contents.
Drop(t) ==
  LET c == entries[th[t].entry].cell
  IN /\ th[t].step = "drop"
     /\ byCell' = IF byCell[c] # 0 /\ maps[byCell[c]] = maps[th[t].map]
                    THEN [byCell EXCEPT ![c] = 0] ELSE byCell
     /\ AfterDetach(t)
     /\ UNCHANGED <<byPlayer, maps, nextEntry, scan, moves, mobs>>

InUse == {byCell[c] : c \in Cells} \cup {th[t].map : t \in Thread}
Fresh == CHOOSE m \in MapId : m \notin InUse

\* computeIfAbsent: the cell's map, or a new one ...
Insert(t) ==
  LET c == Target(t)
      m == IF byCell[c] = 0 THEN Fresh ELSE byCell[c]
  IN /\ th[t].step = "insert"
     /\ byCell' = [byCell EXCEPT ![c] = m]
     /\ maps' = IF byCell[c] = 0 THEN [maps EXCEPT ![m] = EmptyMap] ELSE maps
     /\ th' = [th EXCEPT ![t].step = "put", ![t].map = m]
     /\ UNCHANGED <<byPlayer, entries, nextEntry, scan, moves, mobs>>

\* ... and put into it, dropped from byCell meanwhile or not.
Put(t) ==
  /\ th[t].step = "put"
  /\ maps' = [maps EXCEPT ![th[t].map][th[t].player] = th[t].entry]
  /\ Finish(t)
  /\ UNCHANGED <<byPlayer, byCell, nextEntry, scan, moves, mobs>>
-----------------------------------------------------------------------------
(* nearest, on the server thread *)

Sq(n) == n * n

\* The nine cells in the order the loops visit them.
OwnCellOnly(pos, k) == Cell(pos)
Neighbour(pos, k) == <<Cell(pos)[1] + (k \div 3) - 1, Cell(pos)[2] + (k % 3) - 1>>

\* Nobody is between positions or cells, and every player is in his cell.
InOwnCell(p) ==
  LET e == byPlayer[p]
      c == Cell(<<entries[e].x, entries[e].z>>)
  IN entries[e].cell = c /\ byCell[c] # 0 /\ maps[byCell[c]][p] = e
Calm == (\A t \in Thread : th[t] = Idle)
        /\ \A p \in Players : byPlayer[p] # 0 => InOwnCell(p)

Mob(pos) ==
  /\ ServerIdle /\ mobs < MaxMobs
  /\ mobs' = mobs + 1
  /\ scan' = [NoScan EXCEPT !.step = "cell", !.at = pos, !.bestSq = Sq(Radius), !.calm = Calm]
  /\ UNCHANGED <<byPlayer, byCell, maps, entries, nextEntry, th, moves>>

ScanCell ==
  LET c == Neighbour(scan.at, scan.cell)
      m == IF c \in Cells THEN byCell[c] ELSE 0
      found == IF m = 0 THEN {} ELSE {maps[m][p] : p \in Players} \ {0}
  IN /\ scan.step = "cell" /\ scan.todo = {}
     /\ scan' = IF scan.cell < 9
                  THEN [scan EXCEPT !.todo = found, !.cell = @ + 1]
                  ELSE [scan EXCEPT !.step = "scanned"]
     /\ UNCHANGED <<byPlayer, byCell, maps, entries, nextEntry, th, moves, mobs>>

ReadX(e) ==
  /\ scan.step = "cell" /\ e \in scan.todo
  /\ scan' = [scan EXCEPT !.step = "z", !.reading = e, !.x = entries[e].x]
  /\ UNCHANGED <<byPlayer, byCell, maps, entries, nextEntry, th, moves, mobs>>

Dist(a, b) == Sq(a[1] - b[1]) + Sq(a[2] - b[2])

ReadZ ==
  LET seen == <<scan.x, entries[scan.reading].z>>
      d == Dist(seen, scan.at)
      closer == d <= scan.bestSq
  IN /\ scan.step = "z"
     /\ scan' = [scan EXCEPT !.step = "cell", !.todo = @ \ {scan.reading}, !.reading = 0,
                  !.x = 0,
                  !.best = IF closer THEN scan.reading ELSE @,
                  !.bestSq = IF closer THEN d ELSE @]
     /\ UNCHANGED <<byPlayer, byCell, maps, entries, nextEntry, th, moves, mobs>>

Attribute ==
  /\ scan.step = "scanned"
  /\ scan' = NoScan
  /\ UNCHANGED <<byPlayer, byCell, maps, entries, nextEntry, th, moves, mobs>>
-----------------------------------------------------------------------------
Step(t) == StoreX(t) \/ StoreZ(t) \/ Compare(t) \/ Lock(t) \/ Detach(t) \/ Empty(t)
           \/ Drop(t) \/ Insert(t) \/ Put(t)

Next ==
  \/ \E p \in Players, pos \in Positions :
       Add(p, pos) \/ Update(p, p, pos) \/ (scan.step = "idle" /\ Update("server", p, pos))
  \/ \E p \in Players : Remove(p)
  \/ \E t \in Thread : Step(t)
  \/ \E pos \in Positions : Mob(pos)
  \/ ScanCell \/ ReadZ \/ Attribute
  \/ \E e \in Entry : ReadX(e)

Spec == Init /\ [][Next]_vars
-----------------------------------------------------------------------------
(* Properties *)

\* Types.
TypeOK ==
  /\ byPlayer \in [Players -> Entry \cup {0}]
  /\ byCell \in [Cells -> MapId \cup {0}]
  /\ maps \in [MapId -> [Players -> Entry \cup {0}]]
  /\ nextEntry \in 1 .. MaxEntries + 1
  /\ \A e \in Entry : entries[e].cell \in Cells \cup {None}
                      /\ entries[e].gone \in BOOLEAN
                      /\ entries[e].id \in Players \cup {None}
  /\ \A t \in Thread : th[t].entry \in Entry \cup {0} /\ th[t].map \in MapId \cup {0}
  /\ scan.todo \subseteq Entry /\ scan.best \in Entry \cup {0}

\* "Any excess is a player stranded in a cell their entry no longer names,
\* which nothing will ever remove": an entry that no thread is relocating is
\* in no cell but the one it names.
NoStaleEntry ==
  \A c \in Cells, p \in Players :
    LET e == maps[byCell[c]][p]
    IN byCell[c] # 0 /\ e # 0 /\ ~Locked(e) => entries[e].cell = c /\ ~entries[e].gone

\* remove is final: a mob is never attributed to a player who has left, nor to
\* the entry of a session he has left.
AttributedOnline ==
  scan.step = "scanned" /\ scan.best # 0 => byPlayer[entries[scan.best].id] = scan.best

\* Nine cells are enough: a search that nobody disturbs finds a player at the
\* least distance, if one is within the radius.
NearestFound ==
  LET away(p) == Dist(<<entries[byPlayer[p]].x, entries[byPlayer[p]].z>>, scan.at)
      within == {p \in Players : byPlayer[p] # 0 /\ away(p) <= Sq(Radius)}
  IN scan.step = "scanned" /\ scan.calm =>
       IF within = {} THEN scan.best = 0
       ELSE \E p \in within : scan.best = byPlayer[p] /\ \A q \in within : away(p) <= away(q)

\* "Total entries across all cells, which must equal size": once every thread
\* is done each online player is found in a cell.
EveryPlayerInACell ==
  (\A t \in Thread : th[t] = Idle) =>
    \A p \in Players : byPlayer[p] # 0 =>
      \E c \in Cells : byCell[c] # 0 /\ maps[byCell[c]][p] = byPlayer[p]
=============================================================================
