------------------------- MODULE PlayerIndexProofs -------------------------
(***************************************************************************)
(* The player index for any number of players, positions, joins and moves  *)
(* and any size of cell: nobody is left in a cell his entry does not name, *)
(* and no mob goes to a session that is gone, although a cell's map is     *)
(* created, shared and dropped under no lock.                              *)
(***************************************************************************)
EXTENDS PlayerIndex, TLAPS, FiniteSetTheorems

(* The inductive invariant *)

\* The cells that players are in; the others are only looked at.
Homes == {Cell(q) : q \in Positions}

StepName == {"idle", "x", "z", "compare", "lock"} \cup Holding

EntryRec == [id : Players \cup {None}, x : Int, z : Int, cell : Homes \cup {None}, gone : BOOLEAN]
ThreadRec == [step : StepName, player : Players \cup {None}, entry : Entry \cup {0},
              pos : Positions \cup {None}, map : MapId \cup {0}]
ScanRec == [step : {"idle", "cell", "z", "scanned"}, at : Positions \cup {None}, cell : Int,
            todo : SUBSET Entry, reading : Entry \cup {0}, x : Int, best : Entry \cup {0},
            bestSq : Int, calm : BOOLEAN]

Types ==
  /\ byPlayer \in [Players -> Entry \cup {0}]
  /\ byCell \in [Cells -> MapId \cup {0}]
  /\ maps \in [MapId -> [Players -> Entry \cup {0}]]
  /\ entries \in [Entry -> EntryRec]
  /\ nextEntry \in 1 .. MaxEntries + 1
  /\ th \in [Thread -> ThreadRec]
  /\ scan \in ScanRec

Holds(t, e) == th[t].step \in Holding /\ th[t].entry = e

\* What a thread is at.  Only the server's removal has no place to go to, and an
\* entry in its hands is the only one that is both gone and locked.
Relocating ==
  \A t \in Thread : th[t].step # "idle" =>
    /\ th[t].player \in Players /\ th[t].entry \in 1 .. nextEntry - 1
    /\ entries[th[t].entry].id = th[t].player
    /\ th[t].pos = None => t = "server" /\ th[t].step \in {"lock", "detach", "empty", "drop"}
    /\ th[t].step \in {"empty", "drop"} => th[t].map # 0 /\ entries[th[t].entry].cell # None
    /\ th[t].step = "put" => th[t].map # 0
    /\ th[t].step \in Holding => (entries[th[t].entry].gone <=> th[t].pos = None)

\* An entry's lock has one holder.
Exclusive == \A t, u \in Thread, e \in Entry : Holds(t, e) /\ Holds(u, e) => t = u

\* Entries are not handed out twice, and are filed under their own player.
Known ==
  /\ \A p \in Players : byPlayer[p] # 0 => byPlayer[p] < nextEntry /\ entries[byPlayer[p]].id = p
  /\ \A m \in MapId, p \in Players : maps[m][p] # 0 =>
       maps[m][p] < nextEntry /\ entries[maps[m][p]].id = p

\* The server has taken the player out of byPlayer and waits for his entry's lock.
Leaving(e) == th["server"].step = "lock" /\ th["server"].pos = None /\ th["server"].entry = e

\* An entry is its player's, or gone, or about to be.
Online ==
  \A e \in 1 .. nextEntry - 1 :
    /\ entries[e].id \in Players
    /\ byPlayer[entries[e].id] = e \/ entries[e].gone \/ Leaving(e)

\* No two cells share a map, and a map about to be put into is its cell's or nobody's.
CellMaps ==
  /\ \A c \in Cells : byCell[c] # 0 => c \in Homes
  /\ \A c, d \in Cells : byCell[c] = byCell[d] /\ byCell[c] # 0 => c = d
  /\ \A t \in Thread, c \in Cells : th[t].step = "put" /\ byCell[c] = th[t].map => c = Target(t)

Filed(e, c, p) == byCell[c] # 0 /\ maps[byCell[c]][p] = e

\* An entry in reach of a search is where it says; if it is gone somebody is about
\* to take it out, and whoever holds its lock has yet to take it out of this map.
InPlace ==
  \A e \in Entry, c \in Cells, p \in Players : Filed(e, c, p) =>
    /\ entries[e].cell = c
    /\ entries[e].gone => \E t \in Thread : Holds(t, e)
    /\ \A t \in Thread : Holds(t, e) =>
         th[t].step = "detach" \/ (th[t].step = "empty" /\ th[t].map = byCell[c])

Found == scan.todo \cup ({scan.reading, scan.best} \ {0})

\* The server thread does nothing else while it searches.
Searching ==
  scan.step # "idle" =>
    /\ th["server"] = Idle /\ scan.at \in Positions
    /\ scan.step = "z" => scan.reading # 0
    /\ \A e \in Found : e < nextEntry /\ byPlayer[entries[e].id] = e

IInv == Types /\ Relocating /\ Exclusive /\ Known /\ Online /\ CellMaps /\ InPlace /\ Searching
-----------------------------------------------------------------------------
(* Cells and maps *)

LEMMA Kinds ==
  /\ Homes \subseteq Cells /\ None \notin Homes /\ None \notin Positions /\ None \notin Players
  /\ "server" \notin Players /\ Players \subseteq Thread /\ "server" \in Thread
  /\ \A q \in Positions : Cell(q) \in Homes /\ q[1] \in Int /\ q[2] \in Int
  /\ MaxEntries \in Nat \ {0} /\ 0 \notin Entry /\ 0 \notin MapId
<1>1. \A q \in Positions : q = <<q[1], q[2]>> /\ q[1] \in Int /\ q[2] \in Int
  BY IndexAssumption
<1>2. \A q \in Positions : Cell(q)[1] \in Int /\ Cell(q)[2] \in Int
  BY <1>1, IndexAssumption DEF Cell
<1>3. \A q \in Positions : Cell(q) = <<Cell(q)[1] + 0, Cell(q)[2] + 0>>
  BY <1>2 DEF Cell
<1>4. \A q \in Positions : Cell(q) \in Int \X Int
  BY <1>2 DEF Cell
<1>5. \A q \in Positions : Cell(q) \in Cells
  <2> TAKE q \in Positions
  <2> 0 \in -1 .. 1
    OBVIOUS
  <2> QED
    BY <1>3 DEF Cells
<1> QED
  BY <1>1, <1>4, <1>5, IndexAssumption DEF Homes, Thread, Entry, MapId

\* There is a map to spare for whoever needs one.
LEMMA FreshMap ==
  ASSUME Types, CellMaps, NEW t \in Thread, Target(t) \in Homes, byCell[Target(t)] = 0
  PROVE  Fresh \in MapId /\ Fresh \notin InUse
<1> DEFINE P == Cardinality(Positions)
           C == Cardinality(Players)
           c == Target(t)
           used == {byCell[d] : d \in Homes \ {c}}
           held == {th[u].map : u \in Thread}
<1>1. /\ IsFiniteSet(Positions) /\ P \in Nat /\ IsFiniteSet(Players) /\ C \in Nat
  BY IndexAssumption, FS_CardinalityType
<1>2. IsFiniteSet(Homes) /\ Cardinality(Homes) <= P
  <2> DEFINE f == [q \in Positions |-> Cell(q)]
  <2>1. f \in Surjection(Positions, Homes)
    BY DEF Surjection, Homes
  <2> QED
    BY <2>1, <1>1, FS_Surjection
<1>3. IsFiniteSet(Homes \ {c}) /\ Cardinality(Homes \ {c}) <= P - 1
  <2> HIDE DEF P, c
  <2>1. Cardinality(Homes) \in Nat /\ c \in Homes
    BY <1>2, FS_CardinalityType DEF c
  <2>2. IsFiniteSet(Homes \ {c}) /\ Cardinality(Homes \ {c}) = Cardinality(Homes) - 1
    BY <2>1, <1>2, FS_RemoveElement
  <2> QED
    BY <2>1, <2>2, <1>1, <1>2
<1>4. IsFiniteSet(used) /\ Cardinality(used) <= P - 1
  <2> DEFINE f == [d \in Homes \ {c} |-> byCell[d]]
  <2>1. f \in Surjection(Homes \ {c}, used)
    BY DEF Surjection
  <2> HIDE DEF f, used
  <2>2. IsFiniteSet(used) /\ Cardinality(used) <= Cardinality(Homes \ {c})
    BY <2>1, <1>3, FS_Surjection
  <2> QED
    BY <2>2, <1>1, <1>3, FS_CardinalityType
<1>5. IsFiniteSet(Thread) /\ Cardinality(Thread) <= C + 1
  <2>1. IsFiniteSet(Thread) /\ Cardinality(Thread) = IF "server" \in Players THEN C ELSE C + 1
    BY <1>1, FS_AddElement DEF Thread
  <2> QED
    BY <2>1, <1>1
<1>6. IsFiniteSet(held) /\ Cardinality(held) <= C + 1
  <2> DEFINE f == [u \in Thread |-> th[u].map]
  <2>1. f \in Surjection(Thread, held)
    BY DEF Surjection
  <2> HIDE DEF f, held
  <2>2. IsFiniteSet(held) /\ Cardinality(held) <= Cardinality(Thread)
    BY <2>1, <1>5, FS_Surjection
  <2> QED
    BY <2>2, <1>1, <1>5, FS_CardinalityType
<1>7. IsFiniteSet(used \cup held) /\ Cardinality(used \cup held) <= P + C
  <2> HIDE DEF used, held, P, C
  <2>1. IsFiniteSet(used \cap held)
    BY <1>4, FS_Subset
  <2>2. Cardinality(used) \in Nat /\ Cardinality(held) \in Nat /\ Cardinality(used \cap held) \in Nat
    BY <2>1, <1>4, <1>6, FS_CardinalityType
  <2>3. IsFiniteSet(used \cup held) /\ Cardinality(used \cup held)
          = Cardinality(used) + Cardinality(held) - Cardinality(used \cap held)
    BY <1>4, <1>6, FS_Union
  <2> QED
    BY <2>2, <2>3, <1>1, <1>4, <1>6
<1>8. MapId \cap InUse \subseteq used \cup held
  BY Kinds DEF InUse, CellMaps
<1>9. IsFiniteSet(MapId) /\ Cardinality(MapId) = P + C + 1
  <2> HIDE DEF P, C
  <2>1. MapId = 1 .. P + C + 1 /\ P + C + 1 \in Int /\ P + C + 1 >= 1
    BY <1>1 DEF MapId, P, C
  <2>2. IsFiniteSet(1 .. P + C + 1) /\ Cardinality(1 .. P + C + 1) = P + C + 1 - 1 + 1
    BY <2>1, <1>1, FS_Interval
  <2> QED
    BY <2>1, <2>2, <1>1
<1>10. \E m \in MapId : m \notin InUse
  <2> SUFFICES ASSUME MapId \subseteq used \cup held PROVE FALSE
    BY <1>8
  <2> HIDE DEF used, held
  <2>1. Cardinality(MapId) <= Cardinality(used \cup held)
    BY <1>7, FS_Subset
  <2>2. Cardinality(used \cup held) \in Nat
    BY <1>7, FS_CardinalityType
  <2> QED
    BY <2>1, <2>2, <1>1, <1>7, <1>9
<1> QED
  BY <1>10 DEF Fresh
LEMMA Issued ==
  ASSUME Types
  PROVE  /\ nextEntry \in Int /\ 1 .. nextEntry - 1 \subseteq Entry /\ Entry \subseteq Nat
         /\ \A e \in Entry : e < nextEntry <=> e \in 1 .. nextEntry - 1
  BY Kinds DEF Types, Entry

\* What a thread's move to another step does, and its return.
LEMMA Goes ==
  ASSUME Types, NEW t \in Thread, NEW s \in StepName, Goto(t, s)
  PROVE  /\ th' \in [Thread -> ThreadRec] /\ \A u \in Thread \ {t} : th'[u] = th[u]
         /\ th'[t].step = s /\ th'[t].player = th[t].player /\ th'[t].entry = th[t].entry
         /\ th'[t].pos = th[t].pos /\ th'[t].map = th[t].map
<1>1. th[t] \in ThreadRec /\ th' = [th EXCEPT ![t] = [th[t] EXCEPT !.step = s]]
  BY DEF Types, Goto
<1>2. [th[t] EXCEPT !.step = s] \in ThreadRec
  BY <1>1 DEF ThreadRec
<1>3. th'[t] = [th[t] EXCEPT !.step = s]
  BY <1>1 DEF Types
<1> QED
  BY <1>1, <1>2, <1>3 DEF Types, ThreadRec

LEMMA Returns ==
  ASSUME Types, NEW t \in Thread, Return(t)
  PROVE  /\ th' \in [Thread -> ThreadRec] /\ th'[t] = Idle
         /\ \A u \in Thread \ {t} : th'[u] = th[u]
<1>1. Idle \in ThreadRec
  BY DEF Idle, ThreadRec, StepName
<1> QED
  BY <1>1 DEF Types, Return

\* What changes of an entry and what does not.
LEMMA EntryUpdates ==
  ASSUME Types, NEW e \in Entry, NEW r \in EntryRec, entries' = [entries EXCEPT ![e] = r]
  PROVE  /\ entries' \in [Entry -> EntryRec] /\ entries'[e] = r
         /\ \A d \in Entry \ {e} : entries'[d] = entries[d]
  BY DEF Types

LEMMA Disturbs ==
  ASSUME Types, Disturb
  PROVE  /\ scan' \in ScanRec /\ scan'.step = scan.step /\ scan'.at = scan.at
         /\ scan'.reading = scan.reading /\ Found' = Found
  BY DEF Types, Disturb, ScanRec, Found
-----------------------------------------------------------------------------
(* Calls, and what is done before the lock *)

\* A step that leaves the maps, what an entry is and who is who alone, and takes no
\* lock, keeps everything a lookup relies on.
LEMMA Unlocked ==
  ASSUME IInv, Types', NEW t \in Thread, UNCHANGED <<byPlayer, byCell, maps, nextEntry>>,
         \A e \in Entry : /\ entries'[e].id = entries[e].id /\ entries'[e].cell = entries[e].cell
                          /\ entries'[e].gone = entries[e].gone,
         \A u \in Thread \ {t} : th'[u] = th[u],
         th[t].step \notin Holding, th'[t].step \notin Holding,
         th'[t].step = "idle" \/ (th'[t].player = th[t].player /\ th'[t].entry = th[t].entry
                                  /\ th[t].step # "idle" /\ th'[t].pos = th[t].pos
                                  /\ (th'[t].step = "lock" \/ th[t].pos # None))
           \/ (th'[t].step # "lock" /\ th'[t].pos # None /\ th'[t].player \in Players
               /\ byPlayer[th'[t].player] # 0 /\ th'[t].entry = byPlayer[th'[t].player]),
         \A e \in Entry : Leaving(e) => Leaving(e)',
         scan'.step = scan.step, scan'.at = scan.at, scan'.reading = scan.reading, Found' = Found,
         scan.step # "idle" => t # "server"
  PROVE  IInv'
<1>0. /\ Types /\ nextEntry \in Int /\ 1 .. nextEntry - 1 \subseteq Entry
      /\ \A e \in Entry : e < nextEntry <=> e \in 1 .. nextEntry - 1
  BY Issued DEF IInv
<1>1. \A u \in Thread, e \in Entry : Holds(u, e)' <=> Holds(u, e)
  BY DEF Holds
<1>2. Relocating'
  <2> SUFFICES ASSUME NEW u \in Thread, th'[u].step # "idle"
               PROVE  /\ th'[u].player \in Players /\ th'[u].entry \in 1 .. nextEntry - 1
                      /\ entries'[th'[u].entry].id = th'[u].player
                      /\ th'[u].pos = None => u = "server" /\ th'[u].step \in {"lock", "detach", "empty", "drop"}
                      /\ th'[u].step \in {"empty", "drop"} => th'[u].map # 0 /\ entries'[th'[u].entry].cell # None
                      /\ th'[u].step = "put" => th'[u].map # 0
                      /\ th'[u].step \in Holding => (entries'[th'[u].entry].gone <=> th'[u].pos = None)
    BY DEF Relocating
  <2>0. Relocating
    BY DEF IInv
  <2>1. CASE u # t
    <3>1. th'[u] = th[u] /\ th[u].entry \in Entry
      BY <2>1, <2>0, <1>0 DEF Relocating
    <3> QED
      BY <3>1, <2>0 DEF Relocating
  <2>2. CASE u = t
    <3>1. th'[t].step \notin {"empty", "drop", "put"} /\ th'[t].step # "detach"
      BY DEF Holding
    <3>2. CASE th[t].step # "idle" /\ th'[t].player = th[t].player /\ th'[t].entry = th[t].entry
               /\ th'[t].pos = th[t].pos /\ (th'[t].step = "lock" \/ th[t].pos # None)
      <4>1. th[t].entry \in Entry
        BY <3>2, <2>0, <1>0 DEF Relocating
      <4> QED
        BY <3>1, <3>2, <4>1, <2>0, <2>2 DEF Relocating
    <3>3. CASE th'[t].step # "lock" /\ th'[t].pos # None /\ th'[t].player \in Players
               /\ byPlayer[th'[t].player] # 0 /\ th'[t].entry = byPlayer[th'[t].player]
      <4>1. th'[t].entry \in Entry /\ th'[t].entry < nextEntry /\ entries[th'[t].entry].id = th'[t].player
        BY <3>3, <1>0 DEF IInv, Known, Types
      <4> QED
        BY <3>1, <3>3, <4>1, <1>0, <2>2
    <3> QED
      BY <2>2, <3>2, <3>3
  <2> QED
    BY <2>1, <2>2
<1>3. Exclusive' /\ Known' /\ Online' /\ CellMaps'
  <2>1. Exclusive'
    BY <1>1 DEF Exclusive, IInv
  <2>2. Known'
    BY <1>0 DEF Known, Types, IInv, EntryRec
  <2>3. Online'
    <3>1. Online
      BY DEF IInv
    <3> QED
      BY <3>1, <1>0 DEF Online
  <2>4. CellMaps'
    <3>1. CellMaps
      BY DEF IInv
    <3>2. th'[t].step # "put"
      BY DEF Holding
    <3> QED
      BY <3>1, <3>2 DEF CellMaps, Target
  <2> QED
    BY <2>1, <2>2, <2>3, <2>4
<1>4. InPlace'
  <2>1. InPlace
    BY DEF IInv
  <2>2. \A u \in Thread, e \in Entry : Holds(u, e) => u # t
    BY DEF Holds
  <2> QED
    BY <2>1, <2>2, <1>1 DEF InPlace, Filed
<1>5. Searching'
  <2>1. Searching
    BY DEF IInv
  <2>2. \A e \in Found : e \in Entry
    BY <1>0 DEF Found, Types, ScanRec
  <2> QED
    BY <2>1, <2>2, Kinds DEF Searching
<1> QED
  BY <1>2, <1>3, <1>4, <1>5 DEF IInv

LEMMA UpdateStep ==
  ASSUME IInv, NEW t \in Thread, NEW p \in Players, NEW pos \in Positions, Update(t, p, pos),
         t = "server" => scan.step = "idle"
  PROVE  IInv'
<1>0. Types
  BY DEF IInv
<1>1. th[t] = Idle /\ th'[t] = [step |-> "x", player |-> p, entry |-> byPlayer[p], pos |-> pos, map |-> 0]
      /\ (\A u \in Thread \ {t} : th'[u] = th[u]) /\ byPlayer[p] # 0
      /\ UNCHANGED <<byPlayer, byCell, maps, nextEntry, entries>>
  BY <1>0 DEF Update, Types
<1>2. Types'
  <2>1. [step |-> "x", player |-> p, entry |-> byPlayer[p], pos |-> pos, map |-> 0] \in ThreadRec
    BY <1>0, <1>1 DEF Types, ThreadRec, StepName
  <2> QED
    BY <1>0, <1>1, <2>1, Disturbs DEF Update, Types
<1>3. scan'.step = scan.step /\ scan'.at = scan.at /\ scan'.reading = scan.reading /\ Found' = Found
  BY <1>0, Disturbs DEF Update
<1>4. \A e \in Entry : Leaving(e) => Leaving(e)'
  BY <1>1, Kinds DEF Leaving, Idle
<1>5. th[t].step \notin Holding /\ th'[t].step \notin Holding /\ th'[t].step # "lock"
      /\ th'[t].pos # None /\ th'[t].player = p /\ th'[t].entry = byPlayer[p]
  BY <1>1, Kinds DEF Idle, Holding
<1> QED
  BY <1>1, <1>2, <1>3, <1>4, <1>5, Unlocked

LEMMA StoreStep ==
  ASSUME IInv, NEW t \in Thread, StoreX(t) \/ StoreZ(t)
  PROVE  IInv'
<1> DEFINE e == th[t].entry
<1>0. Types
  BY DEF IInv
<1>1. /\ th[t].step \in {"x", "z"} /\ e \in Entry /\ th[t].pos \in Positions /\ th[t] \in ThreadRec
  BY <1>0, Issued DEF IInv, Relocating, Types, StoreX, StoreZ, ThreadRec
<1>2. /\ th' \in [Thread -> ThreadRec]
      /\ th'[t].step \in {"z", "compare"} /\ th'[t].player = th[t].player /\ th'[t].entry = e
      /\ th'[t].pos = th[t].pos /\ (\A u \in Thread \ {t} : th'[u] = th[u])
      /\ UNCHANGED <<byPlayer, byCell, maps, nextEntry>>
  BY <1>0, Goes DEF StoreX, StoreZ, StepName
<1>3. /\ entries' \in [Entry -> EntryRec]
      /\ \A d \in Entry : entries'[d].id = entries[d].id /\ entries'[d].cell = entries[d].cell
                          /\ entries'[d].gone = entries[d].gone
  <2>1. entries[e] \in EntryRec /\ th[t].pos[1] \in Int /\ th[t].pos[2] \in Int
    BY <1>0, <1>1, Kinds DEF Types
  <2>2. \A n \in Int : [entries[e] EXCEPT !.x = n] \in EntryRec /\ [entries[e] EXCEPT !.z = n] \in EntryRec
    BY <2>1 DEF EntryRec
  <2>3. \E r \in EntryRec : /\ r.id = entries[e].id /\ r.cell = entries[e].cell /\ r.gone = entries[e].gone
                            /\ entries' = [entries EXCEPT ![e] = r]
    <3> USE <2>1, <2>2
    <3>1. CASE StoreX(t)
      <4> WITNESS [entries[e] EXCEPT !.x = th[t].pos[1]] \in EntryRec
      <4> QED
        BY <3>1, <2>1, <1>0, <1>1 DEF StoreX, EntryRec, Types
    <3>2. CASE StoreZ(t)
      <4> WITNESS [entries[e] EXCEPT !.z = th[t].pos[2]] \in EntryRec
      <4> QED
        BY <3>2, <2>1, <1>0, <1>1 DEF StoreZ, EntryRec, Types
    <3> QED
      BY <3>1, <3>2
  <2> QED
    BY <2>3, <1>0, <1>1, EntryUpdates
<1>5. /\ scan' \in ScanRec /\ scan'.step = scan.step /\ scan'.at = scan.at
      /\ scan'.reading = scan.reading /\ Found' = Found
  BY <1>0, Disturbs DEF StoreX, StoreZ
<1>4. Types'
  BY <1>0, <1>2, <1>3, <1>5 DEF Types
<1>6. \A d \in Entry : Leaving(d) => Leaving(d)'
  BY <1>1, <1>2, Kinds DEF Leaving
<1>7. scan.step # "idle" => t # "server"
  BY <1>1 DEF IInv, Searching, Idle
<1>8. th[t].step \notin Holding /\ th'[t].step \notin Holding /\ th[t].pos # None /\ th[t].step # "idle"
  BY <1>1, <1>2, Kinds DEF Holding
<1> QED
  BY <1>1, <1>2, <1>3, <1>4, <1>5, <1>6, <1>7, <1>8, Unlocked

\* A thread that finds nothing to do, before the lock or after, or that decides to lock.
LEMMA CompareStep ==
  ASSUME IInv, NEW t \in Thread, Compare(t)
  PROVE  IInv'
<1>0. Types
  BY DEF IInv
<1>1. /\ th[t].step = "compare" /\ th[t].pos # None /\ th' \in [Thread -> ThreadRec]
      /\ \/ th'[t] = Idle
         \/ th'[t].step = "lock" /\ th'[t].player = th[t].player /\ th'[t].entry = th[t].entry
            /\ th'[t].pos = th[t].pos
      /\ (\A u \in Thread \ {t} : th'[u] = th[u])
      /\ UNCHANGED <<byPlayer, byCell, maps, entries, nextEntry, scan>>
  BY <1>0, Goes, Returns DEF Compare, IInv, Relocating, StepName
<1>2. Types'
  BY <1>0, <1>1 DEF Types
<1>3. Found' = Found /\ (scan.step # "idle" => t # "server")
  BY <1>1 DEF IInv, Searching, Idle, Found
<1>4. \A d \in Entry : Leaving(d) => Leaving(d)'
  BY <1>1, Kinds DEF Leaving
<1>5. /\ th[t].step \notin Holding /\ th'[t].step \notin Holding
      /\ th'[t].step = "idle" \/ (th'[t].player = th[t].player /\ th'[t].entry = th[t].entry
            /\ th[t].step # "idle" /\ th'[t].pos = th[t].pos /\ th'[t].step = "lock")
      /\ scan'.step = scan.step /\ scan'.at = scan.at /\ scan'.reading = scan.reading
      /\ \A e \in Entry : entries'[e].id = entries[e].id /\ entries'[e].cell = entries[e].cell
                          /\ entries'[e].gone = entries[e].gone
  BY <1>1 DEF Holding, Idle
<1> QED
  BY <1>1, <1>2, <1>3, <1>4, <1>5, Unlocked
-----------------------------------------------------------------------------
(* Joining and leaving *)

LEMMA AddStep ==
  ASSUME IInv, NEW p \in Players, NEW pos \in Positions, Add(p, pos)
  PROVE  IInv'
<1> DEFINE n == nextEntry
           h == [step |-> "x", player |-> p, entry |-> n, pos |-> pos, map |-> 0]
<1>0. /\ Types /\ Relocating /\ Exclusive /\ Known /\ Online /\ CellMaps /\ InPlace /\ Searching
      /\ n \in Int /\ 1 .. n - 1 \subseteq Entry /\ Entry \subseteq Nat
      /\ \A e \in Entry : e < n <=> e \in 1 .. n - 1
  BY Issued DEF IInv
<1>1. /\ n \in Entry /\ n' = n + 1 /\ byPlayer[p] = 0 /\ th["server"] = Idle
      /\ scan.step = "idle" /\ UNCHANGED <<byCell, maps, scan>>
  BY DEF Add, ServerIdle
<1>2. /\ byPlayer' \in [Players -> Entry \cup {0}] /\ byPlayer'[p] = n
      /\ \A q \in Players \ {p} : byPlayer'[q] = byPlayer[q]
  BY <1>0, <1>1 DEF Add, Types
<1>3. /\ th' \in [Thread -> ThreadRec] /\ th'["server"] = h
      /\ \A u \in Thread \ {"server"} : th'[u] = th[u]
  <2>1. h \in ThreadRec
    BY <1>1 DEF ThreadRec, StepName
  <2> QED
    BY <2>1, <1>0, Kinds DEF Add, Types
<1>4. /\ entries' \in [Entry -> EntryRec] /\ entries'[n].id = p
      /\ \A e \in Entry : entries'[e].cell = entries[e].cell /\ entries'[e].gone = entries[e].gone
      /\ \A e \in Entry \ {n} : entries'[e] = entries[e]
  <2> DEFINE r == [entries[n] EXCEPT !.id = p]
  <2>1. entries[n] \in EntryRec
    BY <1>0, <1>1 DEF Types
  <2>2. r \in EntryRec /\ r.id = p /\ r.cell = entries[n].cell /\ r.gone = entries[n].gone
    BY <2>1 DEF EntryRec
  <2>3. entries' = [entries EXCEPT ![n] = r]
    BY <1>0, <1>1 DEF Add, Types
  <2> HIDE DEF r
  <2> QED
    BY <2>2, <2>3, <1>0, <1>1, EntryUpdates
<1>13. \A e \in Entry : e < n => e # n /\ e < n' /\ entries'[e] = entries[e]
  <2> TAKE e \in Entry
  <2> HAVE e < n
  <2>1. e \in Int
    BY <1>0
  <2>2. e # n /\ e < n'
    BY <2>1, <1>1, <1>0
  <2> QED
    BY <2>2, <1>4
<1>5. Types'
  BY <1>0, <1>1, <1>2, <1>3, <1>4, Kinds DEF Types, Entry
<1>6. \A u \in Thread : th'[u].step \in Holding => u # "server" /\ th'[u] = th[u]
  BY <1>3 DEF Holding
<1>7. \A u \in Thread, e \in Entry : Holds(u, e)' <=> Holds(u, e)
  BY <1>1, <1>3, Kinds DEF Holds, Idle, Holding
<1>8. Relocating'
  <2> SUFFICES ASSUME NEW u \in Thread, th'[u].step # "idle"
               PROVE  /\ th'[u].player \in Players /\ th'[u].entry \in 1 .. n' - 1
                      /\ entries'[th'[u].entry].id = th'[u].player
                      /\ th'[u].pos = None => u = "server" /\ th'[u].step \in {"lock", "detach", "empty", "drop"}
                      /\ th'[u].step \in {"empty", "drop"} => th'[u].map # 0 /\ entries'[th'[u].entry].cell # None
                      /\ th'[u].step = "put" => th'[u].map # 0
                      /\ th'[u].step \in Holding => (entries'[th'[u].entry].gone <=> th'[u].pos = None)
    BY DEF Relocating
  <2>1. CASE u = "server"
    BY <2>1, <1>1, <1>3, <1>4, Kinds DEF Holding, Entry
  <2>2. CASE u # "server"
    <3>1. th'[u] = th[u] /\ th[u].entry \in 1 .. n - 1 /\ th[u].entry \in Entry \ {n}
      BY <2>2, <1>0, <1>3 DEF Relocating
    <3>2. th[u].entry \in 1 .. n' - 1
      BY <3>1, <1>0, <1>1
    <3> QED
      BY <2>2, <3>1, <3>2, <1>0, <1>4 DEF Relocating
  <2> QED
    BY <2>1, <2>2
<1>9. Exclusive' /\ CellMaps' /\ Searching'
  <2>1. Exclusive'
    BY <1>0, <1>7 DEF Exclusive
  <2>2. \A u \in Thread : th'[u].step = "put" => th[u] = th'[u]
    BY <1>3
  <2>3. CellMaps'
    BY <2>2, <1>0, <1>1 DEF CellMaps, Target
  <2> QED
    BY <2>1, <2>3, <1>1 DEF Searching
<1>10. Known'
  <2>1. \A q \in Players : byPlayer'[q] # 0 => byPlayer'[q] < n' /\ entries'[byPlayer'[q]].id = q
    <3> TAKE q \in Players
    <3> HAVE byPlayer'[q] # 0
    <3>1. CASE q = p
      BY <3>1, <1>0, <1>1, <1>2, <1>4
    <3>2. CASE q # p
      <4>1. byPlayer[q] \in Entry /\ byPlayer[q] < n /\ entries[byPlayer[q]].id = q /\ byPlayer'[q] = byPlayer[q]
        BY <3>2, <1>0, <1>2 DEF Known, Types
      <4> QED
        BY <4>1, <1>13
    <3> QED
      BY <3>1, <3>2
  <2>2. \A m \in MapId, q \in Players : maps[m][q] # 0 =>
          maps[m][q] < n' /\ entries'[maps[m][q]].id = q
    <3> TAKE m \in MapId, q \in Players
    <3> HAVE maps[m][q] # 0
    <3>1. maps[m][q] \in Entry /\ maps[m][q] < n /\ entries[maps[m][q]].id = q
      BY <1>0 DEF Known, Types
    <3> QED
      BY <3>1, <1>13
  <2> QED
    BY <2>1, <2>2, <1>1 DEF Known
<1>11. Online'
  <2> SUFFICES ASSUME NEW e \in 1 .. n' - 1
               PROVE  /\ entries'[e].id \in Players
                      /\ byPlayer'[entries'[e].id] = e \/ entries'[e].gone \/ Leaving(e)'
    BY DEF Online
  <2>1. CASE e = n
    BY <2>1, <1>2, <1>4
  <2>2. CASE e # n
    <3>1. e \in 1 .. n - 1 /\ e \in Entry \ {n} /\ e # 0
      BY <2>2, <1>0, <1>1
    <3>2. ~Leaving(e)
      BY <1>1 DEF Leaving, Idle
    <3>3. entries[e].id \in Players /\ (byPlayer[entries[e].id] = e \/ entries[e].gone)
      BY <3>1, <3>2, <1>0 DEF Online
    <3> QED
      BY <3>1, <3>3, <1>1, <1>2, <1>4
  <2> QED
    BY <2>1, <2>2
<1>12. InPlace'
  <2>1. \A u \in Thread, e \in Entry : Holds(u, e)' => th'[u] = th[u]
    BY <1>6 DEF Holds
  <2> QED
    BY <2>1, <1>0, <1>1, <1>4, <1>7 DEF InPlace, Filed
<1> QED
  BY <1>5, <1>8, <1>9, <1>10, <1>11, <1>12 DEF IInv

LEMMA RemoveStep ==
  ASSUME IInv, NEW p \in Players, Remove(p)
  PROVE  IInv'
<1> DEFINE e == byPlayer[p]
           h == [step |-> "lock", player |-> p, entry |-> e, pos |-> None, map |-> 0]
<1>0. /\ Types /\ Relocating /\ Exclusive /\ Known /\ Online /\ CellMaps /\ InPlace /\ Searching
      /\ nextEntry \in Int /\ 1 .. nextEntry - 1 \subseteq Entry
      /\ \A d \in Entry : d < nextEntry <=> d \in 1 .. nextEntry - 1
  BY Issued DEF IInv
<1>1. /\ e \in Entry /\ e \in 1 .. nextEntry - 1 /\ entries[e].id = p /\ th["server"] = Idle
      /\ scan.step = "idle" /\ UNCHANGED <<byCell, maps, entries, nextEntry, scan>>
  BY <1>0 DEF Remove, ServerIdle, Types, Known
<1>2. /\ byPlayer' \in [Players -> Entry \cup {0}] /\ byPlayer'[p] = 0
      /\ \A q \in Players \ {p} : byPlayer'[q] = byPlayer[q]
  BY <1>0, <1>1 DEF Remove, Types
<1>3. /\ th' \in [Thread -> ThreadRec] /\ th'["server"] = h
      /\ \A u \in Thread \ {"server"} : th'[u] = th[u]
  <2>1. h \in ThreadRec
    BY <1>1 DEF ThreadRec, StepName
  <2> QED
    BY <2>1, <1>0, Kinds DEF Remove, Types
<1>4. Types'
  BY <1>0, <1>1, <1>2, <1>3 DEF Types
<1>5. \A u \in Thread, d \in Entry : Holds(u, d)' <=> Holds(u, d)
  BY <1>1, <1>3, Kinds DEF Holds, Idle, Holding
<1>6. Relocating'
  BY <1>0, <1>1, <1>3 DEF Relocating, Holding
<1>7. Exclusive' /\ CellMaps' /\ Searching'
  <2>1. Exclusive'
    BY <1>0, <1>5 DEF Exclusive
  <2>2. \A u \in Thread : th'[u].step = "put" => th[u] = th'[u]
    BY <1>3
  <2>3. CellMaps'
    BY <2>2, <1>0, <1>1 DEF CellMaps, Target
  <2> QED
    BY <2>1, <2>3, <1>1 DEF Searching
<1>8. Known'
  BY <1>0, <1>1, <1>2 DEF Known
<1>9. Online'
  <2> SUFFICES ASSUME NEW d \in 1 .. nextEntry - 1
               PROVE  /\ entries[d].id \in Players
                      /\ byPlayer'[entries[d].id] = d \/ entries[d].gone \/ Leaving(d)'
    BY <1>1 DEF Online
  <2>1. CASE d = e
    BY <2>1, <1>0, <1>3 DEF Leaving, Online
  <2>2. CASE d # e
    <3>1. ~Leaving(d)
      BY <1>1 DEF Leaving, Idle
    <3> QED
      BY <3>1, <2>2, <1>0, <1>2 DEF Online
  <2> QED
    BY <2>1, <2>2
<1>10. InPlace'
  <2>1. \A u \in Thread : th'[u].step \in Holding => th'[u] = th[u]
    BY <1>3 DEF Holding
  <2> QED
    BY <2>1, <1>0, <1>1, <1>5 DEF InPlace, Filed, Holds
<1> QED
  BY <1>4, <1>6, <1>7, <1>8, <1>9, <1>10 DEF IInv
-----------------------------------------------------------------------------
(* The search *)

\* What a search finds while the server thread does nothing else is online.
LEMMA FiledOnline ==
  ASSUME IInv, th["server"] = Idle, NEW c \in Cells, NEW p \in Players,
         byCell[c] # 0, maps[byCell[c]][p] # 0
  PROVE  /\ maps[byCell[c]][p] \in Entry /\ maps[byCell[c]][p] < nextEntry
         /\ byPlayer[entries[maps[byCell[c]][p]].id] = maps[byCell[c]][p]
<1> DEFINE e == maps[byCell[c]][p]
<1>1. byCell[c] \in MapId /\ e \in Entry /\ e < nextEntry /\ e \in 1 .. nextEntry - 1
  BY Issued DEF IInv, Types, Known
<1>2. Filed(e, c, p)
  BY DEF Filed
<1>3. ~entries[e].gone
  <2> SUFFICES ASSUME entries[e].gone PROVE FALSE
    OBVIOUS
  <2>1. PICK t \in Thread : Holds(t, e)
    BY <1>1, <1>2 DEF IInv, InPlace
  <2>2. th[t].pos = None => t = "server"
    BY <2>1 DEF IInv, Relocating, Holds, Holding
  <2>3. th[t].pos = None
    BY <2>1 DEF IInv, Relocating, Holds, Holding
  <2> QED
    BY <2>1, <2>2, <2>3 DEF Holds, Idle, Holding
<1>4. ~Leaving(e)
  BY DEF Leaving, Idle
<1> QED
  BY <1>1, <1>3, <1>4 DEF IInv, Online

LEMMA SearchKeeps ==
  ASSUME IInv, UNCHANGED <<byPlayer, byCell, maps, entries, nextEntry, th>>,
         scan' \in ScanRec, Searching'
  PROVE  IInv'
<1>1. Types' /\ Relocating' /\ Exclusive' /\ Known'
  BY DEF IInv, Types, Relocating, Exclusive, Holds, Known
<1>2. Online' /\ CellMaps'
  BY DEF IInv, Online, Leaving, CellMaps, Target
<1>3. InPlace'
  BY DEF IInv, InPlace, Filed, Holds
<1> QED
  BY <1>1, <1>2, <1>3 DEF IInv

LEMMA MobStep ==
  ASSUME IInv, NEW pos \in Positions, Mob(pos)
  PROVE  IInv'
<1>1. /\ scan'.step = "cell" /\ scan'.at = pos /\ scan'.todo = {} /\ scan'.reading = 0
      /\ scan'.best = 0
  BY DEF Mob, NoScan
<1>2. scan' \in ScanRec
  <2>1. Sq(Radius) \in Int
    BY IndexAssumption DEF Sq
  <2>2. Calm \in BOOLEAN
    BY DEF Calm
  <2> HIDE DEF Calm
  <2>3. \E b \in BOOLEAN : scan' = [step |-> "cell", at |-> pos, cell |-> 0, todo |-> {},
          reading |-> 0, x |-> 0, best |-> 0, bestSq |-> Sq(Radius), calm |-> b]
    <3> WITNESS Calm \in BOOLEAN
    <3> QED
      BY DEF Mob, NoScan
  <2> QED
    BY <2>1, <2>3 DEF ScanRec
<1>3. Searching'
  BY <1>1 DEF Searching, Found, Mob, ServerIdle
<1> QED
  BY <1>2, <1>3, SearchKeeps DEF Mob

LEMMA ScanCellStep ==
  ASSUME IInv, ScanCell
  PROVE  IInv'
<1> DEFINE c == Neighbour(scan.at, scan.cell)
           m == IF c \in Cells THEN byCell[c] ELSE 0
           found == IF m = 0 THEN {} ELSE {maps[m][p] : p \in Players} \ {0}
<1>0. /\ scan \in ScanRec /\ scan.step = "cell" /\ scan.todo = {} /\ th["server"] = Idle
      /\ scan.at \in Positions /\ \A e \in Found : e < nextEntry /\ byPlayer[entries[e].id] = e
  BY DEF IInv, Types, Searching, ScanCell
<1>1. \A e \in found : e \in Entry /\ e < nextEntry /\ byPlayer[entries[e].id] = e
  BY <1>0, FiledOnline
<1>2. \/ scan' = [scan EXCEPT !.todo = found, !.cell = @ + 1]
      \/ scan' = [scan EXCEPT !.step = "scanned"]
  BY DEF ScanCell
<1> HIDE DEF found
<1>3. scan' \in ScanRec
  <2>1. found \in SUBSET Entry /\ scan.cell + 1 \in Int
    BY <1>0, <1>1 DEF ScanRec
  <2> QED
    BY ZenonT(60), <1>0, <1>2, <2>1 DEF ScanRec
<1>4. /\ scan'.step \in {"cell", "scanned"} /\ scan'.at = scan.at /\ scan'.todo \in {found, {}}
      /\ scan'.reading = scan.reading /\ scan'.best = scan.best
  BY <1>0, <1>2 DEF ScanRec
<1>5. UNCHANGED <<byPlayer, byCell, maps, entries, nextEntry, th>>
  BY DEF ScanCell
<1>6. Searching'
  BY <1>0, <1>1, <1>4, <1>5 DEF Searching, Found
<1> QED
  BY <1>3, <1>5, <1>6, SearchKeeps

LEMMA ReadXStep ==
  ASSUME IInv, NEW e \in Entry, ReadX(e)
  PROVE  IInv'
<1>0. /\ scan \in ScanRec /\ scan.step = "cell" /\ th["server"] = Idle /\ e \in scan.todo
      /\ scan.at \in Positions /\ \A d \in Found : d < nextEntry /\ byPlayer[entries[d].id] = d
  BY DEF IInv, Types, Searching, ReadX
<1>1. entries[e].x \in Int /\ e # 0
  BY Kinds DEF IInv, Types, EntryRec
<1>2. scan' = [scan EXCEPT !.step = "z", !.reading = e, !.x = entries[e].x]
      /\ UNCHANGED <<byPlayer, byCell, maps, entries, nextEntry, th>>
  BY DEF ReadX
<1>3. scan' \in ScanRec /\ scan'.at = scan.at /\ scan'.reading = e /\ scan'.todo = scan.todo
      /\ scan'.best = scan.best
  BY <1>0, <1>1, <1>2 DEF ScanRec
<1>4. Searching'
  BY <1>0, <1>1, <1>2, <1>3 DEF Searching, Found
<1> QED
  BY <1>2, <1>3, <1>4, SearchKeeps

LEMMA Finishes ==
  ASSUME NEW r \in ScanRec, NEW left \in SUBSET Entry, NEW b \in Entry \cup {0}, NEW sq \in Int
  PROVE  [r EXCEPT !.step = "cell", !.todo = left, !.reading = 0, !.x = 0,
                   !.best = b, !.bestSq = sq] \in ScanRec
<1>1. [r EXCEPT !.step = "cell", !.todo = left, !.reading = 0] \in ScanRec
  BY DEF ScanRec
<1>2. \A q \in ScanRec : [q EXCEPT !.x = 0] \in ScanRec
  BY DEF ScanRec
<1>3. \A q \in ScanRec : [q EXCEPT !.best = b] \in ScanRec
  BY DEF ScanRec
<1>4. \A q \in ScanRec : [q EXCEPT !.bestSq = sq] \in ScanRec
  BY DEF ScanRec
<1> QED
  BY <1>1, <1>2, <1>3, <1>4

LEMMA ReadZStep ==
  ASSUME IInv, ReadZ
  PROVE  IInv'
<1> DEFINE e == scan.reading
           d == Dist(<<scan.x, entries[e].z>>, scan.at)
<1>0. /\ scan \in ScanRec /\ scan.step = "z" /\ th["server"] = Idle /\ e # 0
      /\ scan.at \in Positions /\ \A f \in Found : f < nextEntry /\ byPlayer[entries[f].id] = f
  BY DEF IInv, Types, Searching, ReadZ
<1>1. e \in Entry /\ entries[e].z \in Int /\ scan.x \in Int
  BY <1>0 DEF IInv, Types, EntryRec, ScanRec
<1>2. d \in Int
  <2>1. \A a, b \in Int : Sq(a - b) \in Int
    BY DEF Sq
  <2>2. scan.at[1] \in Int /\ scan.at[2] \in Int
    BY <1>0, Kinds
  <2>3. Sq(scan.x - scan.at[1]) \in Int /\ Sq(entries[e].z - scan.at[2]) \in Int
    BY <2>1, <2>2, <1>1
  <2>4. d = Sq(scan.x - scan.at[1]) + Sq(entries[e].z - scan.at[2])
    BY DEF Dist
  <2> QED
    BY <2>3, <2>4
<1>3. \E b \in {e, scan.best}, sq \in Int :
        scan' = [scan EXCEPT !.step = "cell", !.todo = @ \ {e}, !.reading = 0, !.x = 0,
                             !.best = b, !.bestSq = sq]
  <2>1. scan.bestSq \in Int
    BY <1>0 DEF ScanRec
  <2> HIDE DEF d
  <2>2. CASE d <= scan.bestSq
    <3> WITNESS e \in {e, scan.best}, d \in Int
    <3> QED
      BY <2>2, <1>2 DEF ReadZ, d
  <2>3. CASE ~(d <= scan.bestSq)
    <3> WITNESS scan.best \in {e, scan.best}, scan.bestSq \in Int
    <3> QED
      BY <2>3 DEF ReadZ, d
  <2> QED
    BY <2>2, <2>3
<1>4. /\ scan' \in ScanRec /\ scan'.step = "cell" /\ scan'.at = scan.at /\ scan'.reading = 0
      /\ scan'.todo \subseteq scan.todo /\ scan'.best \in {e, scan.best}
  <2> HIDE DEF d
  <2>1. PICK b \in {e, scan.best}, sq \in Int :
          scan' = [scan EXCEPT !.step = "cell", !.todo = @ \ {e}, !.reading = 0, !.x = 0,
                               !.best = b, !.bestSq = sq]
    BY <1>3
  <2>2. b \in Entry \cup {0} /\ scan.todo \ {e} \in SUBSET Entry
    BY <1>0, <1>1 DEF ScanRec
  <2>3. scan' \in ScanRec
    BY <1>0, <2>1, <2>2, Finishes
  <2>4. /\ scan'.step = "cell" /\ scan'.at = scan.at /\ scan'.reading = 0
        /\ scan'.todo = scan.todo \ {e} /\ scan'.best = b
    BY <1>0, <2>1 DEF ScanRec
  <2> QED
    BY <2>3, <2>4
<1>5. UNCHANGED <<byPlayer, byCell, maps, entries, nextEntry, th>>
  BY DEF ReadZ
<1>6. Searching'
  <2>1. Found' \subseteq Found
    BY <1>0, <1>4 DEF Found
  <2> QED
    BY <2>1, <1>0, <1>4, <1>5 DEF Searching
<1> QED
  BY <1>4, <1>5, <1>6, SearchKeeps

LEMMA AttributeStep ==
  ASSUME IInv, Attribute
  PROVE  IInv'
<1>1. scan' \in ScanRec /\ Searching'
  BY DEF Attribute, NoScan, ScanRec, Searching
<1> QED
  BY <1>1, SearchKeeps DEF Attribute
-----------------------------------------------------------------------------
(* Under an entry's lock *)

\* What a holder of a lock is in, and that nobody else holds it.
LEMMA Holder ==
  ASSUME IInv, NEW t \in Thread, th[t].step \in Holding
  PROVE  /\ th[t] \in ThreadRec /\ th[t].entry \in Entry /\ th[t].entry \in 1 .. nextEntry - 1
         /\ th[t].player \in Players /\ entries[th[t].entry].id = th[t].player
         /\ entries[th[t].entry] \in EntryRec
         /\ th[t].pos = None => t = "server" /\ th[t].step \in {"detach", "empty", "drop"}
         /\ th[t].pos # None => th[t].pos \in Positions /\ Target(t) \in Homes /\ Target(t) \in Cells
         /\ entries[th[t].entry].gone <=> th[t].pos = None
         /\ \A u \in Thread : Holds(u, th[t].entry) => u = t
         /\ t = "server" => scan.step = "idle"
<1>0. Types /\ Relocating /\ Exclusive /\ Searching /\ th[t].step # "idle"
  BY DEF IInv, Holding
<1>1. th[t] \in ThreadRec /\ th[t].entry \in 1 .. nextEntry - 1 /\ th[t].entry \in Entry
  BY <1>0, Issued DEF Types, Relocating
<1>2. th[t].pos # None => th[t].pos \in Positions
  BY <1>1 DEF ThreadRec
<1>3. th[t].pos # None => Target(t) \in Homes /\ Target(t) \in Cells
  BY <1>2, Kinds DEF Target
<1>4. Holds(t, th[t].entry)
  BY DEF Holds
<1>5. t = "server" => scan.step = "idle"
  BY <1>0 DEF Searching, Idle
<1>6. entries[th[t].entry] \in EntryRec
  BY <1>0, <1>1 DEF Types
<1>7. /\ th[t].player \in Players /\ entries[th[t].entry].id = th[t].player
      /\ th[t].pos = None => t = "server" /\ th[t].step \in {"detach", "empty", "drop"}
      /\ entries[th[t].entry].gone <=> th[t].pos = None
  BY <1>0 DEF Relocating, Holding
<1>8. \A u \in Thread : Holds(u, th[t].entry) => u = t
  BY <1>0, <1>1, <1>4 DEF Exclusive
<1> QED
  BY <1>1, <1>2, <1>3, <1>5, <1>6, <1>7, <1>8

\* From one step to another under the lock, the entries as they were.
LEMMA UnderLock ==
  ASSUME IInv, Types', NEW t \in Thread, th[t].step \in Holding, th'[t].step \in Holding,
         th'[t].player = th[t].player, th'[t].entry = th[t].entry, th'[t].pos = th[t].pos,
         \A u \in Thread \ {t} : th'[u] = th[u],
         UNCHANGED <<byPlayer, entries, nextEntry, scan>>,
         th'[t].step \in {"insert", "put"} => th[t].pos # None,
         th'[t].step \in {"empty", "drop"} => th'[t].map # 0 /\ entries[th[t].entry].cell # None,
         th'[t].step = "put" => th'[t].map # 0
  PROVE  /\ Relocating' /\ Exclusive' /\ Online' /\ Searching'
         /\ \A u \in Thread, e \in Entry : Holds(u, e)' <=> Holds(u, e)
<1>0. Relocating /\ Exclusive /\ Online /\ Searching
  BY DEF IInv
<1>1. \A u \in Thread, e \in Entry : Holds(u, e)' <=> Holds(u, e)
  BY DEF Holds
<1>2. Relocating'
  <2> SUFFICES ASSUME NEW u \in Thread, th'[u].step # "idle"
               PROVE  /\ th'[u].player \in Players /\ th'[u].entry \in 1 .. nextEntry - 1
                      /\ entries[th'[u].entry].id = th'[u].player
                      /\ th'[u].pos = None => u = "server" /\ th'[u].step \in {"lock", "detach", "empty", "drop"}
                      /\ th'[u].step \in {"empty", "drop"} => th'[u].map # 0 /\ entries[th'[u].entry].cell # None
                      /\ th'[u].step = "put" => th'[u].map # 0
                      /\ th'[u].step \in Holding => (entries[th'[u].entry].gone <=> th'[u].pos = None)
    BY DEF Relocating
  <2>1. CASE u # t
    BY <2>1, <1>0 DEF Relocating
  <2>2. CASE u = t
    BY <2>2, Holder DEF Holding
  <2> QED
    BY <2>1, <2>2
<1>3. Exclusive'
  BY <1>0, <1>1 DEF Exclusive
<1>4. Online'
  <2>1. \A e \in 1 .. nextEntry - 1 : Leaving(e) => Leaving(e)'
    BY Kinds DEF Leaving, Holding
  <2> QED
    BY <2>1, <1>0 DEF Online
<1>5. Searching'
  <2>1. scan.step # "idle" => t # "server"
    BY Holder
  <2> QED
    BY <2>1, <1>0, Kinds DEF Searching, Found
<1> QED
  BY <1>1, <1>2, <1>3, <1>4, <1>5

\* Out of the lock with the cell it went for.
LEMMA Unlock ==
  ASSUME IInv, NEW t \in Thread, th[t].step \in Holding, Finish(t),
         th[t].pos = None => th[t].step \in {"detach", "empty", "drop"},
         byCell' \in [Cells -> MapId \cup {0}], maps' \in [MapId -> [Players -> Entry \cup {0}]],
         UNCHANGED <<byPlayer, nextEntry, scan>>, Known', CellMaps',
         \A e \in Entry, c \in Cells, p \in Players : Filed(e, c, p)' =>
           \/ e = th[t].entry /\ th[t].pos # None /\ c = Target(t)
           \/ e # th[t].entry /\ Filed(e, c, p) /\ byCell'[c] = byCell[c]
  PROVE  IInv'
<1> DEFINE d == th[t].entry
<1>0. /\ Types /\ Relocating /\ Exclusive /\ Online /\ InPlace /\ Searching
      /\ d \in Entry /\ entries[d] \in EntryRec /\ (entries[d].gone <=> th[t].pos = None)
      /\ 1 .. nextEntry - 1 \subseteq Entry /\ (t = "server" => scan.step = "idle")
  BY Holder, Issued DEF IInv
<1>1. th' \in [Thread -> ThreadRec] /\ th'[t] = Idle /\ \A u \in Thread \ {t} : th'[u] = th[u]
  BY <1>0, Returns DEF Finish
<1>2. /\ entries' \in [Entry -> EntryRec] /\ entries'[d].cell = Target(t)
      /\ entries'[d].id = entries[d].id /\ entries'[d].gone = entries[d].gone
      /\ \A e \in Entry \ {d} : entries'[e] = entries[e]
  <2> DEFINE r == [entries[d] EXCEPT !.cell = Target(t)]
  <2>1. Target(t) \in Homes \cup {None}
    BY Holder DEF Target
  <2>2. r \in EntryRec /\ r.cell = Target(t) /\ r.id = entries[d].id /\ r.gone = entries[d].gone
    BY <1>0, <2>1 DEF EntryRec
  <2>3. entries' = [entries EXCEPT ![d] = r]
    BY <1>0 DEF Finish, Types
  <2> HIDE DEF r
  <2> QED
    BY <2>2, <2>3, <1>0, EntryUpdates
<1>3. \A e \in Entry : entries'[e].id = entries[e].id /\ entries'[e].gone = entries[e].gone
  BY <1>2
<1>4. \A u \in Thread, e \in Entry : Holds(u, e)' <=> Holds(u, e) /\ u # t
  BY <1>1 DEF Holds, Idle, Holding
<1>5. \A u \in Thread : Holds(u, d) => u = t
  BY Holder
<1>6. Types'
  BY <1>0, <1>1, <1>2 DEF Types
<1>7. Relocating'
  <2> SUFFICES ASSUME NEW u \in Thread, th'[u].step # "idle"
               PROVE  /\ th'[u].player \in Players /\ th'[u].entry \in 1 .. nextEntry - 1
                      /\ entries'[th'[u].entry].id = th'[u].player
                      /\ th'[u].pos = None => u = "server" /\ th'[u].step \in {"lock", "detach", "empty", "drop"}
                      /\ th'[u].step \in {"empty", "drop"} => th'[u].map # 0 /\ entries'[th'[u].entry].cell # None
                      /\ th'[u].step = "put" => th'[u].map # 0
                      /\ th'[u].step \in Holding => (entries'[th'[u].entry].gone <=> th'[u].pos = None)
    BY DEF Relocating
  <2>1. u # t /\ th'[u] = th[u]
    BY <1>1 DEF Idle
  <2>2. th[u].entry \in Entry
    BY <2>1, <1>0 DEF Relocating
  <2>3. th[u].step \in {"empty", "drop"} => th[u].entry # d
    BY <2>1, <2>2, <1>5 DEF Holds, Holding
  <2> QED
    BY <2>1, <2>2, <2>3, <1>0, <1>2, <1>3 DEF Relocating
<1>8. Exclusive' /\ Online' /\ Searching'
  <2>1. Exclusive'
    BY <1>0, <1>4 DEF Exclusive
  <2>2. \A e \in 1 .. nextEntry - 1 : Leaving(e) => Leaving(e)'
    BY <1>1, Kinds DEF Leaving, Holding
  <2>3. Online'
    BY <2>2, <1>0, <1>3 DEF Online
  <2>4. \A e \in Found : e \in Entry
    BY <1>0 DEF Found, Types, ScanRec
  <2>5. Searching'
    BY <2>4, <1>0, <1>1, <1>3, Kinds DEF Searching, Found
  <2> QED
    BY <2>1, <2>3, <2>5
<1>9. InPlace'
  <2> SUFFICES ASSUME NEW e \in Entry, NEW c \in Cells, NEW p \in Players, Filed(e, c, p)'
               PROVE  /\ entries'[e].cell = c
                      /\ entries'[e].gone => \E u \in Thread : Holds(u, e)'
                      /\ \A u \in Thread : Holds(u, e)' =>
                           th'[u].step = "detach" \/ (th'[u].step = "empty" /\ th'[u].map = byCell'[c])
    BY DEF InPlace
  <2>1. CASE e = d
    BY <2>1, <1>0, <1>2, <1>4, <1>5
  <2>2. CASE e # d
    <3>1. Filed(e, c, p) /\ byCell'[c] = byCell[c]
      BY <2>2
    <3>2. \A u \in Thread : Holds(u, e) => u # t
      BY <2>2 DEF Holds
    <3>3. \A u \in Thread : Holds(u, e)' => th'[u] = th[u] /\ Holds(u, e)
      BY <1>1, <1>4
    <3> QED
      BY <2>2, <3>1, <3>2, <3>3, <1>0, <1>2, <1>4 DEF InPlace
  <2> QED
    BY <2>1, <2>2
<1> QED
  BY <1>6, <1>7, <1>8, <1>9 DEF IInv

\* Taking the lock: nobody else has it, and the entry is where it says.
LEMMA LockStep ==
  ASSUME IInv, NEW t \in Thread, Lock(t)
  PROVE  IInv'
<1> DEFINE d == th[t].entry
<1>0. /\ Types /\ Relocating /\ Exclusive /\ Known /\ Online /\ CellMaps /\ InPlace /\ Searching
      /\ 1 .. nextEntry - 1 \subseteq Entry
  BY Issued DEF IInv
<1>1. /\ th[t].step = "lock" /\ th[t].step \notin Holding /\ d \in Entry /\ entries[d] \in EntryRec
      /\ d \in 1 .. nextEntry - 1 /\ th[t].player \in Players /\ entries[d].id = th[t].player
      /\ (th[t].pos = None => t = "server") /\ (\A u \in Thread : ~Holds(u, d))
      /\ UNCHANGED <<byPlayer, byCell, maps, nextEntry, scan>>
  BY <1>0 DEF Lock, Relocating, Types, Holding, Free, Locked, Holds
<1>2. scan.step # "idle" => t # "server"
  BY <1>0, <1>1 DEF Searching, Idle
<1>3. CASE Return(t)  /\ UNCHANGED entries /\ th[t].pos # None
  <2>1. th' \in [Thread -> ThreadRec] /\ th'[t] = Idle /\ \A u \in Thread \ {t} : th'[u] = th[u]
    BY <1>0, <1>3, Returns
  <2>2. Types'
    BY <2>1, <1>0, <1>1, <1>3 DEF Types
  <2>3. \A e \in Entry : Leaving(e) => Leaving(e)'
    BY <2>1, <1>3, Kinds DEF Leaving
  <2>4. /\ th'[t].step \notin Holding /\ th'[t].step = "idle" /\ Found' = Found
        /\ scan'.step = scan.step /\ scan'.at = scan.at /\ scan'.reading = scan.reading
        /\ \A e \in Entry : entries'[e].id = entries[e].id /\ entries'[e].cell = entries[e].cell
                            /\ entries'[e].gone = entries[e].gone
    BY <2>1, <1>1, <1>3 DEF Idle, Holding, Found
  <2> QED
    BY <2>1, <2>2, <2>3, <2>4, <1>1, <1>2, Unlocked
<1>4. CASE /\ Goto(t, "detach")
           /\ \/ th[t].pos = None /\ entries' = [entries EXCEPT ![d].gone = TRUE]
              \/ th[t].pos # None /\ ~entries[d].gone /\ UNCHANGED entries
  <2>1. /\ th' \in [Thread -> ThreadRec] /\ th'[t].step = "detach" /\ th'[t].player = th[t].player
        /\ th'[t].entry = d /\ th'[t].pos = th[t].pos /\ \A u \in Thread \ {t} : th'[u] = th[u]
    BY <1>0, <1>4, Goes DEF StepName, Holding
  <2>2. /\ entries' \in [Entry -> EntryRec] /\ (entries'[d].gone <=> th[t].pos = None)
        /\ entries'[d].id = entries[d].id /\ entries'[d].cell = entries[d].cell
        /\ \A e \in Entry \ {d} : entries'[e] = entries[e]
    <3>1. CASE th[t].pos = None
      <4> DEFINE r == [entries[d] EXCEPT !.gone = TRUE]
      <4>1. r \in EntryRec /\ r.id = entries[d].id /\ r.cell = entries[d].cell /\ r.gone
        BY <1>1 DEF EntryRec
      <4>2. entries' = [entries EXCEPT ![d] = r]
        BY <3>1, <1>0, <1>1, <1>4 DEF Types
      <4> HIDE DEF r
      <4> QED
        BY <3>1, <4>1, <4>2, <1>0, <1>1, EntryUpdates
    <3>2. CASE th[t].pos # None
      BY <3>2, <1>0, <1>4 DEF Types
    <3> QED
      BY <3>1, <3>2
  <2>3. Types'
    BY <2>1, <2>2, <1>0, <1>1 DEF Types
  <2>4. \A u \in Thread, e \in Entry : Holds(u, e)' <=> Holds(u, e) \/ (u = t /\ e = d)
    BY <2>1, <1>1 DEF Holds, Holding
  <2>5. \A e \in Entry : entries'[e].id = entries[e].id /\ entries'[e].cell = entries[e].cell
    BY <2>2
  <2>6. Relocating'
    <3> SUFFICES ASSUME NEW u \in Thread, th'[u].step # "idle"
                 PROVE  /\ th'[u].player \in Players /\ th'[u].entry \in 1 .. nextEntry - 1
                        /\ entries'[th'[u].entry].id = th'[u].player
                        /\ th'[u].pos = None => u = "server" /\ th'[u].step \in {"lock", "detach", "empty", "drop"}
                        /\ th'[u].step \in {"empty", "drop"} => th'[u].map # 0 /\ entries'[th'[u].entry].cell # None
                        /\ th'[u].step = "put" => th'[u].map # 0
                        /\ th'[u].step \in Holding => (entries'[th'[u].entry].gone <=> th'[u].pos = None)
      BY <1>1 DEF Relocating
    <3>1. CASE u = t
      BY <3>1, <2>1, <2>2, <1>1
    <3>2. CASE u # t
      <4>1. th'[u] = th[u] /\ th[u].entry \in Entry
        BY <3>2, <2>1, <1>0 DEF Relocating
      <4>2. th[u].step \in Holding => th[u].entry # d
        BY <4>1, <1>1 DEF Holds
      <4> QED
        BY <4>1, <4>2, <2>2, <2>5, <1>0 DEF Relocating
    <3> QED
      BY <3>1, <3>2
  <2>7. Exclusive' /\ Known' /\ CellMaps' /\ Searching'
    <3>1. Exclusive'
      BY <2>4, <1>0, <1>1 DEF Exclusive
    <3>2. Known'
      <4>1. \A m \in MapId, p \in Players : maps[m][p] # 0 => maps[m][p] \in Entry
        BY <1>0 DEF Types
      <4>2. \A p \in Players : byPlayer[p] # 0 => byPlayer[p] \in Entry
        BY <1>0 DEF Types
      <4> QED
        BY <4>1, <4>2, <2>5, <1>0, <1>1 DEF Known
    <3>3. \A u \in Thread : th'[u].step = "put" => th'[u] = th[u]
      BY <2>1
    <3>4. CellMaps'
      BY <3>3, <1>0, <1>1 DEF CellMaps, Target
    <3>5. \A e \in Found : e \in Entry
      BY <1>0 DEF Found, Types, ScanRec
    <3>6. Searching'
      BY <3>5, <2>1, <2>5, <1>0, <1>1, <1>2, Kinds DEF Searching, Found
    <3> QED
      BY <3>1, <3>2, <3>4, <3>6
  <2>8. Online'
    <3> SUFFICES ASSUME NEW e \in 1 .. nextEntry - 1
                 PROVE  /\ entries'[e].id \in Players
                        /\ byPlayer[entries'[e].id] = e \/ entries'[e].gone \/ Leaving(e)'
      BY <1>1 DEF Online
    <3>1. Leaving(e) => Leaving(e)' \/ entries'[e].gone
      BY <2>1, <2>2, <1>1, Kinds DEF Leaving
    <3>2. entries[e].gone => entries'[e].gone
      BY <2>2, <1>0, <1>4
    <3> QED
      BY <3>1, <3>2, <2>5, <1>0 DEF Online
  <2>9. InPlace'
    <3> SUFFICES ASSUME NEW e \in Entry, NEW c \in Cells, NEW p \in Players, Filed(e, c, p)'
                 PROVE  /\ entries'[e].cell = c
                        /\ entries'[e].gone => \E u \in Thread : Holds(u, e)'
                        /\ \A u \in Thread : Holds(u, e)' =>
                             th'[u].step = "detach" \/ (th'[u].step = "empty" /\ th'[u].map = byCell'[c])
      BY DEF InPlace
    <3>1. Filed(e, c, p)
      BY <1>1 DEF Filed
    <3>2. CASE e = d
      BY <3>1, <3>2, <2>1, <2>4, <2>5, <1>0, <1>1 DEF InPlace
    <3>3. CASE e # d
      <4>1. \A u \in Thread : Holds(u, e)' => th'[u] = th[u] /\ Holds(u, e)
        BY <3>3, <2>1, <2>4, <1>1 DEF Holds
      <4> QED
        BY <3>1, <3>3, <4>1, <2>2, <2>4, <1>0, <1>1 DEF InPlace
    <3> QED
      BY <3>2, <3>3
  <2> QED
    BY <2>3, <2>6, <2>7, <2>8, <2>9 DEF IInv
<1>5. \/ Return(t) /\ UNCHANGED entries /\ th[t].pos # None
      \/ Goto(t, "detach") /\ \/ th[t].pos = None /\ entries' = [entries EXCEPT ![d].gone = TRUE]
                              \/ th[t].pos # None /\ ~entries[d].gone /\ UNCHANGED entries
  BY DEF Lock, Pointless
<1> QED
  BY <1>3, <1>4, <1>5

\* Whatever has been taken out or dropped, once no cell in reach holds the entry its
\* holder may go on to the next cell, or leave.
LEMMA Detached ==
  ASSUME IInv, NEW t \in Thread, th[t].step \in {"detach", "empty", "drop"}, AfterDetach(t),
         byCell' \in [Cells -> MapId \cup {0}], maps' \in [MapId -> [Players -> Entry \cup {0}]],
         UNCHANGED <<byPlayer, nextEntry, scan>>,
         \A c \in Cells : byCell'[c] # 0 => byCell'[c] = byCell[c],
         \A m \in MapId, p \in Players : maps'[m][p] # 0 => maps'[m][p] = maps[m][p],
         \A e \in Entry, c \in Cells, p \in Players : Filed(e, c, p)' => e # th[t].entry
  PROVE  IInv'
<1> DEFINE d == th[t].entry
<1>0. /\ Types /\ Relocating /\ Known /\ CellMaps /\ InPlace
      /\ d \in Entry /\ th[t].step \in Holding /\ 1 .. nextEntry - 1 \subseteq Entry
  BY Holder, Issued DEF IInv, Holding
<1>1. \A e \in Entry, c \in Cells, p \in Players : Filed(e, c, p)' =>
        e # d /\ Filed(e, c, p) /\ byCell'[c] = byCell[c]
  <2> SUFFICES ASSUME NEW e \in Entry, NEW c \in Cells, NEW p \in Players, Filed(e, c, p)'
               PROVE  Filed(e, c, p) /\ byCell'[c] = byCell[c]
    OBVIOUS
  <2>1. byCell'[c] = byCell[c] /\ byCell[c] \in MapId
    BY <1>0 DEF Filed, Types
  <2>2. maps'[byCell[c]][p] = e /\ e # 0
    BY <2>1, Kinds DEF Filed
  <2> QED
    BY <2>1, <2>2 DEF Filed
<1>2. ASSUME \A e \in Entry : entries'[e].id = entries[e].id,
             \A u \in Thread : th'[u].step = "put" => th'[u] = th[u]
      PROVE  Known' /\ CellMaps'
  <2>1. Known'
    <3>1. \A m \in MapId, p \in Players : maps'[m][p] # 0 =>
            maps'[m][p] \in Entry /\ maps'[m][p] < nextEntry /\ entries[maps'[m][p]].id = p
      BY <1>0 DEF Known, Types
    <3>2. \A p \in Players : byPlayer[p] # 0 => byPlayer[p] \in Entry
      BY <1>0 DEF Types
    <3> QED
      BY <3>1, <3>2, <1>0, <1>2 DEF Known
  <2>2. \A u \in Thread : th[u].step = "put" => th[u].map # 0
    BY <1>0 DEF Relocating
  <2>3. CellMaps'
    BY <2>2, <1>0, <1>2 DEF CellMaps, Target
  <2> QED
    BY <2>1, <2>3
<1>3. CASE th[t].pos = None
  <2>1. Finish(t)
    BY <1>3 DEF AfterDetach
  <2>2. \A e \in Entry : entries'[e].id = entries[e].id
    BY <2>1, <1>0 DEF Finish, Types, EntryRec
  <2>3. \A u \in Thread : th'[u].step = "put" => th'[u] = th[u]
    BY <2>1, <1>0, Returns DEF Finish, Idle
  <2> QED
    BY <2>1, <2>2, <2>3, <1>0, <1>1, <1>2, Unlock
<1>4. CASE th[t].pos # None
  <2>1. Goto(t, "insert") /\ UNCHANGED entries
    BY <1>4 DEF AfterDetach
  <2>2. /\ th' \in [Thread -> ThreadRec] /\ th'[t].step = "insert" /\ th'[t].player = th[t].player
        /\ th'[t].entry = d /\ th'[t].pos = th[t].pos /\ \A u \in Thread \ {t} : th'[u] = th[u]
    BY <2>1, <1>0, Goes DEF StepName, Holding
  <2>3. Types'
    BY <2>1, <2>2, <1>0 DEF Types
  <2>4. /\ Relocating' /\ Exclusive' /\ Online' /\ Searching'
        /\ \A u \in Thread, e \in Entry : Holds(u, e)' <=> Holds(u, e)
    BY <2>1, <2>2, <2>3, <1>0, <1>4, UnderLock DEF Holding
  <2>5. Known' /\ CellMaps'
    BY <2>1, <2>2, <1>2
  <2>6. InPlace'
    <3>1. \A u \in Thread, e \in Entry : Holds(u, e)' /\ e # d => th'[u] = th[u]
      BY <2>2 DEF Holds
    <3> QED
      BY <3>1, <2>1, <2>4, <1>0, <1>1 DEF InPlace
  <2> QED
    BY <2>3, <2>4, <2>5, <2>6 DEF IInv
<1> QED
  BY <1>3, <1>4

LEMMA DetachStep ==
  ASSUME IInv, NEW t \in Thread, Detach(t)
  PROVE  IInv'
<1> DEFINE d == th[t].entry
           c == entries[d].cell
           m == IF c = None THEN 0 ELSE byCell[c]
<1>0. /\ Types /\ Relocating /\ Known /\ CellMaps /\ InPlace
      /\ th[t].step = "detach" /\ th[t].step \in Holding
      /\ d \in Entry /\ entries[d] \in EntryRec /\ th[t] \in ThreadRec
      /\ UNCHANGED <<byPlayer, byCell, maps, nextEntry, scan>>
  BY Holder DEF IInv, Holding, Detach
<1>1. \A k \in Cells, p \in Players : Filed(d, k, p) => c = k /\ c # None /\ byCell[k] = m /\ m # 0
  <2> SUFFICES ASSUME NEW k \in Cells, NEW p \in Players, Filed(d, k, p)
               PROVE  c = k /\ c # None /\ byCell[k] = m /\ m # 0
    OBVIOUS
  <2>1. byCell[k] # 0 /\ k \in Homes
    BY <1>0 DEF Filed, CellMaps
  <2>2. c = k
    BY <1>0 DEF InPlace
  <2> QED
    BY <2>1, <2>2, Kinds
<1>2. CASE m = 0
  <2>1. AfterDetach(t)
    BY <1>2 DEF Detach
  <2>2. \A e \in Entry, k \in Cells, p \in Players : Filed(e, k, p)' => e # d
    BY <1>0, <1>1, <1>2 DEF Filed
  <2>3. byCell' \in [Cells -> MapId \cup {0}] /\ maps' \in [MapId -> [Players -> Entry \cup {0}]]
    BY <1>0 DEF Types
  <2> QED
    BY <2>1, <2>2, <2>3, <1>0, Detached
<1>3. CASE m # 0
  <2>1. /\ th' = [th EXCEPT ![t] = [th[t] EXCEPT !.step = "empty", !.map = m]]
        /\ UNCHANGED entries
    BY <1>3, <1>0 DEF Detach, Types
  <2>2. m \in MapId /\ c # None
    BY <1>0, <1>3, Kinds DEF Types, EntryRec
  <2>3. /\ [th[t] EXCEPT !.step = "empty", !.map = m] \in ThreadRec
        /\ th'[t].step = "empty" /\ th'[t].map = m /\ th'[t].player = th[t].player
        /\ th'[t].entry = d /\ th'[t].pos = th[t].pos
    <3>1. th'[t] = [th[t] EXCEPT !.step = "empty", !.map = m]
      BY <2>1, <1>0 DEF Types
    <3> HIDE DEF m
    <3> QED
      BY <3>1, <2>2, <1>0 DEF ThreadRec, StepName, Holding
  <2>4. th' \in [Thread -> ThreadRec] /\ \A u \in Thread \ {t} : th'[u] = th[u]
    BY <2>1, <2>3, <1>0 DEF Types
  <2>5. Types'
    BY <2>1, <2>4, <1>0 DEF Types
  <2>6. /\ Relocating' /\ Exclusive' /\ Online' /\ Searching'
        /\ \A u \in Thread, e \in Entry : Holds(u, e)' <=> Holds(u, e)
    <3>1. th[t].step \in Holding /\ th'[t].step \in Holding /\ th'[t].step = "empty"
      BY <2>3, <1>0 DEF Holding
    <3>2. th'[t].map # 0 /\ entries[th[t].entry].cell # None
      BY <2>2, <2>3, <1>0, <1>3
    <3>3. UNCHANGED <<byPlayer, entries, nextEntry, scan>>
      BY <2>1, <1>0
    <3> HIDE DEF m
    <3> QED
      BY <3>1, <3>2, <3>3, <2>3, <2>4, <2>5, <1>0, UnderLock
  <2>7. Known' /\ CellMaps'
    BY <2>1, <2>3, <2>4, <1>0 DEF Known, CellMaps, Target
  <2>8. InPlace'
    <3>1. \A u \in Thread, e \in Entry : Holds(u, e)' /\ u # t => th'[u] = th[u] /\ Holds(u, e)
      BY <2>4, <2>6
    <3>2. \A u \in Thread : Holds(u, d) => u = t
      BY <1>0, Holder
    <3>3. \A e \in Entry : Holds(t, e) => e = d
      BY DEF Holds
    <3> SUFFICES ASSUME NEW e \in Entry, NEW k \in Cells, NEW p \in Players, Filed(e, k, p)
                 PROVE  /\ entries[e].cell = k
                        /\ entries[e].gone => \E u \in Thread : Holds(u, e)
                        /\ \A u \in Thread : Holds(u, e)' =>
                             th'[u].step = "detach" \/ (th'[u].step = "empty" /\ th'[u].map = byCell[k])
      BY <2>1, <2>6, <1>0 DEF InPlace, Filed
    <3>4. entries[e].cell = k /\ (entries[e].gone => \E u \in Thread : Holds(u, e))
      BY <1>0 DEF InPlace
    <3>5. ASSUME NEW u \in Thread, Holds(u, e)'
          PROVE  th'[u].step = "detach" \/ (th'[u].step = "empty" /\ th'[u].map = byCell[k])
      <4>1. CASE u = t
        BY <4>1, <3>3, <3>5, <2>3, <2>6, <1>1
      <4>2. CASE u # t
        BY <4>2, <3>1, <3>5, <1>0 DEF InPlace
      <4> QED
        BY <4>1, <4>2
    <3> QED
      BY <3>4, <3>5
  <2> QED
    BY <2>5, <2>6, <2>7, <2>8 DEF IInv
<1> QED
  BY <1>2, <1>3

\* Taken out of the map it was filed in, the entry is in none.
LEMMA EmptyStep ==
  ASSUME IInv, NEW t \in Thread, Empty(t)
  PROVE  IInv'
<1> DEFINE d == th[t].entry
           m == th[t].map
           old == [maps[m] EXCEPT ![th[t].player] = 0]
<1>0. /\ Types /\ Relocating /\ Known /\ CellMaps /\ InPlace
      /\ th[t].step = "empty" /\ th[t].step \in Holding
      /\ d \in Entry /\ th[t] \in ThreadRec /\ entries[d].id = th[t].player
      /\ th[t].player \in Players
      /\ UNCHANGED <<byPlayer, byCell, nextEntry, scan>>
  BY Holder DEF IInv, Holding, Empty
<1>1. m \in MapId /\ entries[d].cell # None
  BY <1>0 DEF Relocating, ThreadRec
<1>2. /\ maps' \in [MapId -> [Players -> Entry \cup {0}]] /\ maps'[m][th[t].player] = 0
      /\ \A n \in MapId, p \in Players : maps'[n][p] # 0 => maps'[n][p] = maps[n][p]
  <2>1. maps[m] \in [Players -> Entry \cup {0}]
    BY <1>0, <1>1 DEF Types
  <2>2. /\ old \in [Players -> Entry \cup {0}] /\ old[th[t].player] = 0
        /\ \A p \in Players : old[p] # 0 => old[p] = maps[m][p]
    BY <2>1, <1>0
  <2>3. maps' = [maps EXCEPT ![m] = old]
    BY DEF Empty
  <2> HIDE DEF old
  <2> QED
    BY <2>2, <2>3, <1>0, <1>1 DEF Types
<1>3. \A e \in Entry, k \in Cells, p \in Players : Filed(e, k, p)' =>
        Filed(e, k, p) /\ e # d
  <2> SUFFICES ASSUME NEW e \in Entry, NEW k \in Cells, NEW p \in Players, Filed(e, k, p)'
               PROVE  Filed(e, k, p) /\ e # d
    OBVIOUS
  <2>1. byCell[k] \in MapId /\ maps'[byCell[k]][p] = e /\ e # 0
    BY <1>0, Kinds DEF Filed, Types
  <2>2. Filed(e, k, p) /\ entries[e].id = p
    BY <2>1, <1>0, <1>2 DEF Filed, Known
  <2>3. CASE e = d
    <3>1. Holds(t, d)
      BY <1>0 DEF Holds
    <3>2. byCell[k] = m /\ p = th[t].player
      BY <2>2, <2>3, <3>1, <1>0 DEF InPlace
    <3> QED
      BY <3>2, <2>1, <1>2
  <2> QED
    BY <2>2, <2>3
<1>4. CASE AfterDetach(t)
  <2>1. byCell' \in [Cells -> MapId \cup {0}]
    BY <1>0 DEF Types
  <2> QED
    BY <2>1, <1>0, <1>2, <1>3, <1>4, Detached
<1>5. CASE Goto(t, "drop") /\ UNCHANGED entries
  <2>1. /\ th' \in [Thread -> ThreadRec] /\ th'[t].step = "drop" /\ th'[t].player = th[t].player
        /\ th'[t].entry = d /\ th'[t].pos = th[t].pos /\ th'[t].map = m
        /\ \A u \in Thread \ {t} : th'[u] = th[u]
    BY <1>0, <1>5, Goes DEF StepName, Holding
  <2>2. Types'
    BY <2>1, <1>0, <1>2, <1>5 DEF Types
  <2>3. /\ Relocating' /\ Exclusive' /\ Online' /\ Searching'
        /\ \A u \in Thread, e \in Entry : Holds(u, e)' <=> Holds(u, e)
    BY <2>1, <2>2, <1>0, <1>1, <1>5, Kinds, UnderLock DEF Holding
  <2>4. Known' /\ CellMaps'
    <3>1. Known'
      BY <1>0, <1>2, <1>5 DEF Known
    <3> QED
      BY <3>1, <2>1, <1>0 DEF CellMaps, Target
  <2>5. InPlace'
    <3>1. \A u \in Thread, e \in Entry : Holds(u, e)' /\ e # d => th'[u] = th[u]
      BY <2>1 DEF Holds
    <3> QED
      BY <3>1, <2>3, <1>0, <1>3, <1>5 DEF InPlace
  <2> QED
    BY <2>2, <2>3, <2>4, <2>5 DEF IInv
<1>6. AfterDetach(t) \/ (Goto(t, "drop") /\ UNCHANGED entries)
  BY DEF Empty
<1> QED
  BY <1>4, <1>5, <1>6

\* Dropping a map, the one emptied or one that now looks like it, leaves nobody astray.
LEMMA DropStep ==
  ASSUME IInv, NEW t \in Thread, Drop(t)
  PROVE  IInv'
<1>0. /\ Types /\ InPlace /\ th[t].step = "drop" /\ th[t].step \in Holding
      /\ UNCHANGED <<byPlayer, maps, nextEntry, scan>> /\ AfterDetach(t)
  BY DEF IInv, Holding, Drop
<1>1. /\ byCell' \in [Cells -> MapId \cup {0}]
      /\ \A c \in Cells : byCell'[c] # 0 => byCell'[c] = byCell[c]
  BY <1>0 DEF Drop, Types
<1>2. Holds(t, th[t].entry)
  BY <1>0 DEF Holds
<1>3. \A e \in Entry, c \in Cells, p \in Players : Filed(e, c, p)' => e # th[t].entry
  <2> SUFFICES ASSUME NEW e \in Entry, NEW c \in Cells, NEW p \in Players, Filed(e, c, p)'
               PROVE  e # th[t].entry
    OBVIOUS
  <2>1. Filed(e, c, p)
    BY <1>0, <1>1 DEF Filed
  <2> QED
    BY <2>1, <1>0, <1>2 DEF InPlace
<1>4. maps' \in [MapId -> [Players -> Entry \cup {0}]]
  BY <1>0 DEF Types
<1> QED
  BY <1>0, <1>1, <1>3, <1>4, Detached

\* A map is made for a cell that has none, and is nobody else's.
LEMMA InsertStep ==
  ASSUME IInv, NEW t \in Thread, Insert(t)
  PROVE  IInv'
<1> DEFINE d == th[t].entry
           c == Target(t)
           m == IF byCell[c] = 0 THEN Fresh ELSE byCell[c]
<1>0. /\ Types /\ Relocating /\ Known /\ CellMaps /\ InPlace
      /\ th[t].step = "insert" /\ th[t].step \in Holding
      /\ d \in Entry /\ th[t] \in ThreadRec /\ th[t].pos # None /\ c \in Homes /\ c \in Cells
      /\ UNCHANGED <<byPlayer, entries, nextEntry, scan>>
  BY Holder DEF IInv, Holding, Insert
<1>1. /\ m \in MapId
      /\ byCell[c] = 0 => /\ \A k \in Cells : byCell[k] # m
                          /\ \A u \in Thread : th[u].map # m
  <2>1. CASE byCell[c] = 0
    BY <2>1, <1>0, FreshMap DEF InUse
  <2>2. CASE byCell[c] # 0
    BY <2>2, <1>0 DEF Types
  <2> QED
    BY <2>1, <2>2
<1>2. /\ byCell' = [byCell EXCEPT ![c] = m]
      /\ maps' = IF byCell[c] = 0 THEN [maps EXCEPT ![m] = EmptyMap] ELSE maps
      /\ th' = [th EXCEPT ![t] = [th[t] EXCEPT !.step = "put", !.map = m]]
      /\ (byCell[c] # 0 => m = byCell[c])
  BY <1>0 DEF Insert, Types
<1> HIDE DEF m
<1>3. /\ byCell' \in [Cells -> MapId \cup {0}] /\ byCell'[c] = m
      /\ \A k \in Cells \ {c} : byCell'[k] = byCell[k]
  BY <1>0, <1>1, <1>2 DEF Types
<1>4. /\ maps' \in [MapId -> [Players -> Entry \cup {0}]]
      /\ \A n \in MapId, p \in Players : maps'[n][p] # 0 => maps'[n][p] = maps[n][p]
      /\ byCell[c] = 0 => \A p \in Players : maps'[m][p] = 0
  BY <1>0, <1>1, <1>2 DEF Types, EmptyMap
<1>5. /\ [th[t] EXCEPT !.step = "put", !.map = m] \in ThreadRec
      /\ th'[t].step = "put" /\ th'[t].map = m /\ th'[t].player = th[t].player
      /\ th'[t].entry = d /\ th'[t].pos = th[t].pos
  <2>1. th'[t] = [th[t] EXCEPT !.step = "put", !.map = m]
    BY <1>0, <1>2 DEF Types
  <2> QED
    BY <2>1, <1>0, <1>1 DEF ThreadRec, StepName, Holding
<1>6. th' \in [Thread -> ThreadRec] /\ \A u \in Thread \ {t} : th'[u] = th[u]
  BY <1>0, <1>2, <1>5 DEF Types
<1>7. Types'
  BY <1>0, <1>3, <1>4, <1>6 DEF Types
<1>8. /\ Relocating' /\ Exclusive' /\ Online' /\ Searching'
      /\ \A u \in Thread, e \in Entry : Holds(u, e)' <=> Holds(u, e)
  BY <1>0, <1>1, <1>5, <1>6, <1>7, Kinds, UnderLock DEF Holding
<1>9. Known'
  BY <1>0, <1>4 DEF Known
<1>10. CellMaps'
  <2>1. \A k \in Cells : byCell'[k] # 0 => k \in Homes
    BY <1>0, <1>3 DEF CellMaps
  <2>2. \A k \in Cells : k # c => byCell[k] # m
    BY <1>0, <1>1, <1>2, Kinds DEF CellMaps
  <2>3. \A k, l \in Cells : byCell'[k] = byCell'[l] /\ byCell'[k] # 0 => k = l
    BY <2>2, <1>0, <1>3 DEF CellMaps
  <2>4. ASSUME NEW u \in Thread, NEW k \in Cells, th'[u].step = "put", byCell'[k] = th'[u].map
        PROVE  k = Target(u)'
    <3>1. CASE u = t
      BY <3>1, <2>2, <2>4, <1>3, <1>5 DEF Target
    <3>2. CASE u # t
      <4>1. th'[u] = th[u] /\ Target(u)' = Target(u)
        BY <3>2, <1>6 DEF Target
      <4>2. k = c => byCell[k] = m
        BY <4>1, <2>4, <1>1, <1>2, <1>3
      <4> QED
        BY <4>1, <4>2, <2>4, <1>0, <1>3 DEF CellMaps
    <3> QED
      BY <3>1, <3>2
  <2> QED
    BY <2>1, <2>3, <2>4 DEF CellMaps
<1>11. InPlace'
  <2>1. \A e \in Entry, k \in Cells, p \in Players : Filed(e, k, p)' =>
          Filed(e, k, p) /\ byCell'[k] = byCell[k]
    <3> SUFFICES ASSUME NEW e \in Entry, NEW k \in Cells, NEW p \in Players, Filed(e, k, p)'
                 PROVE  Filed(e, k, p) /\ byCell'[k] = byCell[k]
      OBVIOUS
    <3>1. byCell'[k] \in MapId /\ maps'[byCell'[k]][p] = e /\ e # 0
      BY <1>3, Kinds DEF Filed
    <3>2. byCell'[k] = byCell[k]
      BY <3>1, <1>2, <1>3, <1>4
    <3> QED
      BY <3>1, <3>2, <1>4, Kinds DEF Filed
  <2>2. \A u \in Thread, e \in Entry : Holds(u, e) /\ e # d => th'[u] = th[u]
    BY <1>6 DEF Holds
  <2>3. Holds(t, d)
    BY <1>0 DEF Holds
  <2>4. \A k \in Cells, p \in Players : ~Filed(d, k, p)
    BY <2>3, <1>0 DEF InPlace
  <2> QED
    BY <2>1, <2>2, <2>4, <1>0, <1>8 DEF InPlace
<1> QED
  BY <1>7, <1>8, <1>9, <1>10, <1>11 DEF IInv

\* Put into the map of its new cell, or into one no longer in reach.
LEMMA PutStep ==
  ASSUME IInv, NEW t \in Thread, Put(t)
  PROVE  IInv'
<1> DEFINE d == th[t].entry
           m == th[t].map
           q == th[t].player
<1>0. /\ Types /\ Relocating /\ Known /\ CellMaps /\ InPlace
      /\ th[t].step = "put" /\ th[t].step \in Holding
      /\ d \in Entry /\ d \in 1 .. nextEntry - 1 /\ d < nextEntry
      /\ th[t] \in ThreadRec /\ th[t].pos # None
      /\ q \in Players /\ entries[d].id = q
      /\ UNCHANGED <<byPlayer, byCell, nextEntry, scan>> /\ Finish(t)
  BY Holder, Issued DEF IInv, Holding, Put
<1>1. m \in MapId
  BY <1>0 DEF Relocating, ThreadRec
<1>2. /\ maps' \in [MapId -> [Players -> Entry \cup {0}]]
      /\ maps'[m][q] = d
      /\ \A n \in MapId, p \in Players : n # m \/ p # q => maps'[n][p] = maps[n][p]
  <2> DEFINE r == [maps[m] EXCEPT ![q] = d]
  <2>1. maps[m] \in [Players -> Entry \cup {0}]
    BY <1>0, <1>1 DEF Types
  <2>2. /\ r \in [Players -> Entry \cup {0}] /\ r[q] = d /\ \A p \in Players : p # q => r[p] = maps[m][p]
    BY <2>1, <1>0
  <2>3. maps' = [maps EXCEPT ![m] = r]
    BY <1>0, <1>1 DEF Put, Types
  <2> HIDE DEF r
  <2> QED
    BY <2>2, <2>3, <1>0, <1>1 DEF Types
<1>3. \A e \in Entry : entries'[e].id = entries[e].id
  BY <1>0 DEF Finish, Types, EntryRec
<1>4. th'[t] = Idle /\ \A u \in Thread \ {t} : th'[u] = th[u]
  BY <1>0, Returns DEF Finish
<1>5. Known'
  <2>1. \A n \in MapId, p \in Players : maps'[n][p] # 0 =>
          maps'[n][p] \in Entry /\ maps'[n][p] < nextEntry /\ entries[maps'[n][p]].id = p
    BY <1>0, <1>2 DEF Known, Types
  <2>2. \A p \in Players : byPlayer[p] # 0 => byPlayer[p] \in Entry
    BY <1>0 DEF Types
  <2> QED
    BY <2>1, <2>2, <1>0, <1>3 DEF Known
<1>6. CellMaps'
  <2>1. \A u \in Thread : th'[u].step = "put" => th'[u] = th[u]
    BY <1>4 DEF Idle
  <2> QED
    BY <2>1, <1>0 DEF CellMaps, Target
<1>7. ASSUME NEW e \in Entry, NEW c \in Cells, NEW p \in Players, Filed(e, c, p)'
      PROVE  \/ e = d /\ c = Target(t)
             \/ e # d /\ Filed(e, c, p) /\ byCell'[c] = byCell[c]
  <2>1. byCell[c] \in MapId /\ maps'[byCell[c]][p] = e
    BY <1>0, <1>7 DEF Filed, Types
  <2>2. CASE byCell[c] = m /\ p = q
    BY <2>1, <2>2, <1>0, <1>2 DEF CellMaps
  <2>3. CASE ~(byCell[c] = m /\ p = q)
    <3>1. Filed(e, c, p)
      BY <2>1, <2>3, <1>0, <1>2, <1>7 DEF Filed
    <3>2. Holds(t, d)
      BY <1>0 DEF Holds
    <3>3. e # d
      BY <3>1, <3>2, <1>0 DEF InPlace
    <3> QED
      BY <3>1, <3>3, <1>0
  <2> QED
    BY <2>2, <2>3
<1>8. byCell' \in [Cells -> MapId \cup {0}]
  BY <1>0 DEF Types
<1> QED
  BY <1>0, <1>2, <1>5, <1>6, <1>7, <1>8, Unlock
-----------------------------------------------------------------------------
(* Nine cells are enough *)

LEMMA Quotient ==
  ASSUME NEW a \in Int, NEW c \in Nat \ {0}
  PROVE  a \div c \in Int /\ c * (a \div c) <= a /\ a < c * (a \div c) + c
OBVIOUS

\* Less than a cell apart along an axis is at most one cell apart.
LEMMA NextCell ==
  ASSUME NEW a \in Int, NEW b \in Int, NEW c \in Nat \ {0}, NEW r \in 0 .. c,
         a - b <= r, b - a <= r
  PROVE  a \div c - b \div c \in {-1, 0, 1}
<1> DEFINE q == a \div c
           s == b \div c
<1>1. /\ q \in Int /\ c * q <= a /\ a < c * q + c
      /\ s \in Int /\ c * s <= b /\ b < c * s + c
  BY Quotient
<1> HIDE DEF q, s
<1>2. c * (q - s) < c * 2 /\ c * (s - q) < c * 2
  <2>1. c * (q - s) = c * q - c * s /\ c * (s - q) = c * s - c * q
    BY <1>1
  <2>2. c * q - c * s < a - b + c /\ c * s - c * q < b - a + c
    BY <1>1
  <2> QED
    BY <2>1, <2>2, <1>1
<1>3. q - s < 2 /\ s - q < 2
  <2>1. ASSUME NEW n \in Int, c * n < c * 2 PROVE n < 2
    BY <2>1
  <2> QED
    BY <2>1, <1>1, <1>2
<1> QED
  BY <1>1, <1>3 DEF q, s

\* Within a radius is within it along each axis.
LEMMA Within ==
  ASSUME NEW a \in Int, NEW b \in Int, NEW r \in Nat, a * a + b * b <= r * r
  PROVE  a <= r /\ -a <= r
<1>1. b * b >= 0
  OBVIOUS
<1>2. a * a <= r * r
  BY <1>1
<1>3. ASSUME NEW n \in Nat, n * n <= r * r PROVE n <= r
  BY <1>3
<1>4. CASE a >= 0
  BY <1>2, <1>3, <1>4
<1>5. CASE a < 0
  <2>1. -a \in Nat /\ (-a) * (-a) = a * a
    BY <1>5
  <2> QED
    BY <2>1, <1>2, <1>3, <1>5
<1> QED
  BY <1>4, <1>5

\* The loops of nearest visit the cell of everyone within the radius.
LEMMA Visited ==
  ASSUME NEW at \in Positions, NEW x \in Int, NEW z \in Int, Dist(<<x, z>>, at) <= Sq(Radius)
  PROVE  \E k \in 0 .. 8 : Neighbour(at, k) = Cell(<<x, z>>)
<1>1. at[1] \in Int /\ at[2] \in Int
  BY Kinds
<1>2. /\ CellSize \in Nat \ {0} /\ Radius \in 0 .. CellSize /\ Radius \in Nat
  BY IndexAssumption
<1> DEFINE dx == x - at[1]
           dz == z - at[2]
<1>3. dx \in Int /\ dz \in Int /\ dx * dx + dz * dz <= Radius * Radius /\ dz * dz + dx * dx <= Radius * Radius
  BY <1>1, <1>2 DEF Dist, Sq
<1>4. dx <= Radius /\ -dx <= Radius /\ dz <= Radius /\ -dz <= Radius
  <2> HIDE DEF dx, dz
  <2> QED
    BY <1>2, <1>3, Within
<1>5. /\ x \div CellSize - at[1] \div CellSize \in {-1, 0, 1}
      /\ z \div CellSize - at[2] \div CellSize \in {-1, 0, 1}
  <2>1. x - at[1] <= Radius /\ at[1] - x <= Radius /\ z - at[2] <= Radius /\ at[2] - z <= Radius
    BY <1>1, <1>2, <1>4
  <2> QED
    BY <2>1, <1>1, <1>2, NextCell
<1>6. \A ox, oz \in {-1, 0, 1} : \E k \in 0 .. 8 : (k \div 3) - 1 = ox /\ (k % 3) - 1 = oz
  <2>1. \A k \in 0 .. 8 : /\ k \div 3 = (IF k < 3 THEN 0 ELSE IF k < 6 THEN 1 ELSE 2)
                          /\ k % 3 = (IF k < 3 THEN k ELSE IF k < 6 THEN k - 3 ELSE k - 6)
    OBVIOUS
  <2> TAKE ox, oz \in {-1, 0, 1}
  <2> WITNESS (ox + 1) * 3 + oz + 1 \in 0 .. 8
  <2> QED
    BY <2>1
<1> DEFINE qx == x \div CellSize
           qz == z \div CellSize
           hx == at[1] \div CellSize
           hz == at[2] \div CellSize
<1>7. qx \in Int /\ qz \in Int /\ hx \in Int /\ hz \in Int
  BY <1>1, <1>2, Quotient
<1>8. PICK k \in 0 .. 8 : (k \div 3) - 1 = qx - hx /\ (k % 3) - 1 = qz - hz
  BY <1>5, <1>6
<1>9. k \div 3 \in Int /\ k % 3 \in Int
  OBVIOUS
<1>10. Neighbour(at, k) = <<hx + (k \div 3) - 1, hz + (k % 3) - 1>> /\ Cell(<<x, z>>) = <<qx, qz>>
  BY DEF Neighbour, Cell
<1>11. hx + (k \div 3) - 1 = qx /\ hz + (k % 3) - 1 = qz
  <2> HIDE DEF qx, qz, hx, hz
  <2> QED
    BY <1>7, <1>8, <1>9
<1> QED
  BY <1>10, <1>11

Away(p) == Dist(<<entries[byPlayer[p]].x, entries[byPlayer[p]].z>>, scan.at)

\* Players whose cell the search has been to, and whom it has looked at.
Seen(p) ==
  /\ byPlayer[p] # 0 /\ byPlayer[p] \notin scan.todo
  /\ \E k \in 0 .. scan.cell - 1 : Neighbour(scan.at, k) = entries[byPlayer[p]].cell

\* What an undisturbed search has so far is the best of those it has seen.
Nearest ==
  scan.step # "idle" /\ scan.calm =>
    /\ Calm /\ scan.cell \in 0 .. 9
    /\ scan.step = "z" => scan.reading \in scan.todo /\ scan.x = entries[scan.reading].x
    /\ scan.step = "scanned" => scan.cell = 9 /\ scan.todo = {}
    /\ IF scan.best = 0
         THEN scan.bestSq = Sq(Radius) /\ \A p \in Players : Seen(p) => Away(p) > Sq(Radius)
         ELSE /\ scan.bestSq <= Sq(Radius)
              /\ \E p \in Players : byPlayer[p] = scan.best /\ Away(p) = scan.bestSq
              /\ \A p \in Players : Seen(p) => scan.bestSq <= Away(p)

LEMMA AwayType ==
  ASSUME Types, NEW p \in Players, byPlayer[p] # 0, scan.at \in Positions
  PROVE  /\ Away(p) \in Int /\ byPlayer[p] \in Entry
         /\ entries[byPlayer[p]].x \in Int /\ entries[byPlayer[p]].z \in Int
<1> DEFINE x == entries[byPlayer[p]].x
           z == entries[byPlayer[p]].z
<1>1. byPlayer[p] \in Entry /\ entries[byPlayer[p]] \in EntryRec
  BY DEF Types
<1>2. x \in Int /\ z \in Int /\ scan.at[1] \in Int /\ scan.at[2] \in Int
  BY <1>1, Kinds DEF EntryRec
<1>3. \A a, b \in Int : Sq(a - b) \in Int
  BY DEF Sq
<1>4. Away(p) = Sq(x - scan.at[1]) + Sq(z - scan.at[2])
  BY DEF Away, Dist
<1>5. Sq(x - scan.at[1]) \in Int /\ Sq(z - scan.at[2]) \in Int
  BY <1>2, <1>3
<1> QED
  BY <1>1, <1>2, <1>4, <1>5

\* A calm search goes on while nothing else does.
LEMMA NothingElse ==
  ASSUME IInv, Nearest, UNCHANGED scan,
         scan.step # "idle" /\ scan.calm => UNCHANGED <<byPlayer, byCell, maps, entries, th>>
  PROVE  Nearest'
<1> SUFFICES ASSUME scan.step # "idle", scan.calm PROVE Nearest'
  BY DEF Nearest
<1>1. UNCHANGED <<byPlayer, byCell, maps, entries, th>>
  OBVIOUS
<1>2. Calm <=> Calm'
  BY <1>1 DEF Calm, InOwnCell
<1>3. \A p \in Players : (Seen(p) <=> Seen(p)') /\ Away(p)' = Away(p)
  BY <1>1 DEF Seen, Away
<1> HIDE DEF Calm, Seen, Away
<1> QED
  BY <1>1, <1>2, <1>3 DEF Nearest

LEMMA MobNearest ==
  ASSUME IInv, NEW pos \in Positions, Mob(pos)
  PROVE  Nearest'
<1>1. /\ scan'.step = "cell" /\ scan'.cell = 0 /\ scan'.best = 0 /\ scan'.bestSq = Sq(Radius)
      /\ (scan'.calm <=> Calm)
  BY DEF Mob, NoScan
<1>2. Calm <=> Calm'
  BY DEF Mob, Calm, InOwnCell
<1>3. \A p \in Players : ~Seen(p)'
  BY <1>1 DEF Seen
<1> HIDE DEF Calm, Seen
<1> QED
  BY <1>1, <1>2, <1>3 DEF Nearest

\* Who is in the next cell is found in its map, and still to be looked at.
LEMMA ScanCellNearest ==
  ASSUME IInv, Nearest, ScanCell
  PROVE  Nearest'
<1> DEFINE c == Neighbour(scan.at, scan.cell)
           m == IF c \in Cells THEN byCell[c] ELSE 0
           found == IF m = 0 THEN {} ELSE {maps[m][p] : p \in Players} \ {0}
<1>0. /\ Types /\ scan \in ScanRec /\ scan.step = "cell" /\ scan.todo = {}
      /\ UNCHANGED <<byPlayer, byCell, maps, entries, nextEntry, th>>
  BY DEF IInv, Types, ScanCell
<1>1. CASE ~scan.calm
  <2>1. ~scan'.calm
    BY <1>0, <1>1 DEF ScanCell, ScanRec
  <2> QED
    BY <2>1 DEF Nearest
<1>2. CASE scan.calm
  <2>1. /\ Calm /\ scan.cell \in 0 .. 9
        /\ IF scan.best = 0
             THEN scan.bestSq = Sq(Radius) /\ \A p \in Players : Seen(p) => Away(p) > Sq(Radius)
             ELSE /\ scan.bestSq <= Sq(Radius)
                  /\ \E p \in Players : byPlayer[p] = scan.best /\ Away(p) = scan.bestSq
                  /\ \A p \in Players : Seen(p) => scan.bestSq <= Away(p)
    BY <1>0, <1>2 DEF Nearest
  <2>2. /\ scan'.at = scan.at /\ scan'.best = scan.best /\ scan'.bestSq = scan.bestSq
        /\ \/ scan'.step = "cell" /\ scan'.cell = scan.cell + 1 /\ scan.cell < 9 /\ scan'.todo = found
           \/ scan'.step = "scanned" /\ scan'.cell = 9 /\ scan.cell = 9 /\ scan'.todo = {}
    <3> HIDE DEF found
    <3>1. \/ scan' = [scan EXCEPT !.todo = found, !.cell = @ + 1] /\ scan.cell < 9
          \/ scan' = [scan EXCEPT !.step = "scanned"] /\ scan.cell = 9
      BY <2>1 DEF ScanCell, found
    <3> QED
      BY <3>1, <1>0 DEF ScanRec
  <2>3. ASSUME NEW p \in Players, Seen(p)' PROVE Seen(p)
    <3>1. byPlayer[p] # 0 /\ scan.todo = {}
      BY <2>3, <1>0 DEF Seen
    <3>2. PICK k \in 0 .. scan'.cell - 1 : Neighbour(scan.at, k) = entries[byPlayer[p]].cell
      BY <2>2, <2>3, <1>0 DEF Seen
    <3>3. CASE k # scan.cell \/ scan'.step = "scanned"
      <4>1. k \in 0 .. scan.cell - 1
        BY <3>3, <2>1, <2>2
      <4> QED
        BY <3>1, <3>2, <4>1 DEF Seen
    <3>4. CASE k = scan.cell /\ scan'.step = "cell"
      <4>1. /\ InOwnCell(p) /\ byPlayer[p] \in Entry /\ entries[byPlayer[p]] \in EntryRec
        BY <2>1, <3>1, <1>0 DEF Calm, Types
      <4>2. /\ entries[byPlayer[p]].cell = c /\ byCell[c] # 0 /\ maps[byCell[c]][p] = byPlayer[p]
            /\ c = Cell(<<entries[byPlayer[p]].x, entries[byPlayer[p]].z>>)
        BY <4>1, <3>2, <3>4 DEF InOwnCell
      <4>3. c \in Cells
        <5>1. c \in Int \X Int
          <6>1. entries[byPlayer[p]].x \in Int /\ entries[byPlayer[p]].z \in Int
            BY <4>1 DEF EntryRec
          <6> HIDE DEF c
          <6> QED
            BY <4>2, <6>1, IndexAssumption, Quotient DEF Cell
        <5>2. c # None
          BY <5>1, IndexAssumption
        <5> QED
          BY <5>2, <4>1, <4>2, Kinds DEF EntryRec
      <4>4. byPlayer[p] \in found
        BY <4>2, <4>3, <3>1
      <4> QED
        BY <4>4, <2>2, <2>3, <3>4, <1>0 DEF Seen
    <3> QED
      BY <2>2, <3>3, <3>4
  <2>4. Calm'
    BY <2>1, <1>0 DEF Calm, InOwnCell
  <2>5. \A p \in Players : Away(p)' = Away(p)
    BY <2>2, <1>0 DEF Away
  <2> HIDE DEF Calm, Seen, Away, found
  <2>6. scan'.cell \in 0 .. 9
    BY <2>1, <2>2
  <2>7. \A p \in Players : Seen(p)' => Seen(p)
    BY <2>3
  <2> QED
    BY <2>1, <2>2, <2>4, <2>5, <2>6, <2>7, <1>0 DEF Nearest
<1> QED
  BY <1>1, <1>2

LEMMA ReadXNearest ==
  ASSUME IInv, Nearest, NEW e \in Entry, ReadX(e)
  PROVE  Nearest'
<1>0. /\ scan \in ScanRec /\ scan.step = "cell" /\ e \in scan.todo
      /\ scan' = [scan EXCEPT !.step = "z", !.reading = e, !.x = entries[e].x]
      /\ UNCHANGED <<byPlayer, byCell, maps, entries, nextEntry, th>>
  BY DEF IInv, Types, ReadX
<1>1. /\ scan'.step = "z" /\ scan'.reading = e /\ scan'.x = entries[e].x /\ scan'.at = scan.at
      /\ scan'.cell = scan.cell /\ scan'.todo = scan.todo /\ scan'.best = scan.best
      /\ scan'.bestSq = scan.bestSq
  BY <1>0 DEF ScanRec
<1>2. scan'.calm <=> scan.calm
  BY <1>0 DEF ScanRec
<1>3. Calm <=> Calm'
  BY <1>0 DEF Calm, InOwnCell
<1>4. \A p \in Players : (Seen(p) <=> Seen(p)') /\ Away(p)' = Away(p)
  BY <1>0, <1>1 DEF Seen, Away
<1> HIDE DEF Calm, Seen, Away
<1> QED
  BY <1>0, <1>1, <1>2, <1>3, <1>4 DEF Nearest

\* The one that has been looked at is the best so far, or no better.
LEMMA ReadZNearest ==
  ASSUME IInv, Nearest, ReadZ
  PROVE  Nearest'
<1> DEFINE e == scan.reading
           d == Dist(<<scan.x, entries[e].z>>, scan.at)
<1>0. /\ Types /\ scan \in ScanRec /\ scan.step = "z" /\ scan.at \in Positions
      /\ UNCHANGED <<byPlayer, byCell, maps, entries, nextEntry, th>>
  BY DEF IInv, Types, Searching, ReadZ
<1>1. CASE ~scan.calm
  <2>1. ~scan'.calm
    BY <1>0, <1>1 DEF ReadZ, ScanRec
  <2> QED
    BY <2>1 DEF Nearest
<1>2. CASE scan.calm
  <2>1. /\ Calm /\ scan.cell \in 0 .. 9 /\ e \in scan.todo /\ scan.x = entries[e].x
        /\ IF scan.best = 0
             THEN scan.bestSq = Sq(Radius) /\ \A p \in Players : Seen(p) => Away(p) > Sq(Radius)
             ELSE /\ scan.bestSq <= Sq(Radius)
                  /\ \E p \in Players : byPlayer[p] = scan.best /\ Away(p) = scan.bestSq
                  /\ \A p \in Players : Seen(p) => scan.bestSq <= Away(p)
    BY <1>0, <1>2 DEF Nearest
  <2>2. /\ scan'.step = "cell" /\ scan'.at = scan.at /\ scan'.cell = scan.cell
        /\ scan'.todo = scan.todo \ {e}
        /\ scan'.best = IF d <= scan.bestSq THEN e ELSE scan.best
        /\ scan'.bestSq = IF d <= scan.bestSq THEN d ELSE scan.bestSq
    <3> HIDE DEF d, e
    <3>1. scan' = [scan EXCEPT !.step = "cell", !.todo = @ \ {e}, !.reading = 0, !.x = 0,
                     !.best = IF d <= scan.bestSq THEN e ELSE scan.best,
                     !.bestSq = IF d <= scan.bestSq THEN d ELSE scan.bestSq]
      BY DEF ReadZ, d, e
    <3> QED
      BY <3>1, <1>0 DEF ScanRec
  <2>3. PICK q \in Players : byPlayer[q] = e /\ e # 0 /\ e \in Entry
    <3>1. e \in Entry /\ e # 0 /\ e \in Found
      BY <2>1, <1>0, Kinds DEF Found, ScanRec
    <3>2. e < nextEntry /\ byPlayer[entries[e].id] = e
      BY <3>1, <1>0 DEF IInv, Searching
    <3>3. entries[e].id \in Players
      BY <3>1, <3>2, Issued DEF IInv, Online
    <3> QED
      BY <3>1, <3>2, <3>3
  <2>4. d = Away(q)
    BY <2>1, <2>3 DEF Away
  <2>5. \A p \in Players : Seen(p)' => Seen(p) \/ byPlayer[p] = e
    BY <2>2, <1>0 DEF Seen
  <2>6. Calm'
    BY <2>1, <1>0 DEF Calm, InOwnCell
  <2>7. \A p \in Players : Away(p)' = Away(p)
    BY <2>2, <1>0 DEF Away
  <2>8. \A p \in Players : byPlayer[p] = e => Away(p) = d
    BY <2>3, <2>4 DEF Away
  <2>9. \A p \in Players : Seen(p)' => Away(p) \in Int
    BY <1>0, AwayType DEF Seen
  <2>10. d \in Int /\ scan.bestSq \in Int /\ Sq(Radius) \in Int
    BY <2>3, <2>4, <1>0, AwayType, IndexAssumption DEF ScanRec, Sq
  <2> HIDE DEF Calm, Seen, Away, d, e
  <2>11. CASE d <= scan.bestSq
    <3>1. scan'.best # 0 /\ scan'.bestSq = d /\ scan'.best = e
      BY <2>2, <2>3, <2>11
    <3>2. d <= Sq(Radius)
      BY <2>1, <2>10, <2>11
    <3>3. \A p \in Players : Seen(p)' => d <= Away(p)
      BY <2>1, <2>5, <2>8, <2>9, <2>10, <2>11
    <3> QED
      BY <3>1, <3>2, <3>3, <2>1, <2>2, <2>3, <2>4, <2>6, <2>7, <1>0 DEF Nearest
  <2>12. CASE ~(d <= scan.bestSq)
    <3>1. scan'.best = scan.best /\ scan'.bestSq = scan.bestSq
      BY <2>2, <2>12
    <3>2. CASE scan.best = 0
      <4>1. \A p \in Players : Seen(p)' => Away(p) > Sq(Radius)
        BY <3>2, <2>1, <2>5, <2>8, <2>9, <2>10, <2>12
      <4> QED
        BY <3>1, <3>2, <4>1, <2>1, <2>2, <2>6, <2>7, <1>0 DEF Nearest
    <3>3. CASE scan.best # 0
      <4>1. \A p \in Players : Seen(p)' => scan.bestSq <= Away(p)
        BY <3>3, <2>1, <2>5, <2>8, <2>9, <2>10, <2>12
      <4> QED
        BY <3>1, <3>3, <4>1, <2>1, <2>2, <2>6, <2>7, <1>0 DEF Nearest
    <3> QED
      BY <3>2, <3>3
  <2> QED
    BY <2>11, <2>12
<1> QED
  BY <1>1, <1>2

LEMMA NearestStep == IInv /\ Nearest /\ [Next]_vars => Nearest'
<1> SUFFICES ASSUME IInv, Nearest, [Next]_vars PROVE Nearest'
  OBVIOUS
<1>0. Types
  BY DEF IInv
<1>1. ASSUME Disturb PROVE Nearest'
  <2>1. ~scan'.calm
    BY <1>0, <1>1 DEF Disturb, Types, ScanRec
  <2> QED
    BY <2>1 DEF Nearest
<1>2. ASSUME NEW t \in Thread, NEW p \in Players, NEW pos \in Positions, Update(t, p, pos) PROVE Nearest'
  BY <1>1, <1>2 DEF Update
<1>3. ASSUME NEW p \in Players, Remove(p) \/ (\E pos \in Positions : Add(p, pos)) PROVE Nearest'
  <2>1. UNCHANGED scan /\ scan.step = "idle"
    BY <1>3 DEF Remove, Add, ServerIdle
  <2> QED
    BY <2>1, NothingElse
<1>4. ASSUME NEW t \in Thread, Step(t) PROVE Nearest'
  <2>1. CASE StoreX(t) \/ StoreZ(t)
    BY <2>1, <1>1 DEF StoreX, StoreZ
  <2>2. CASE ~(StoreX(t) \/ StoreZ(t))
    <3>1. UNCHANGED scan /\ th[t].step # "idle"
      BY <2>2, <1>4 DEF Step, Compare, Lock, Detach, Empty, Drop, Insert, Put
    <3>2. ~Calm
      BY <3>1 DEF Calm, Idle
    <3>3. ~(scan.step # "idle" /\ scan.calm)
      BY <3>2 DEF Nearest
    <3> QED
      BY <3>1, <3>3, NothingElse
  <2> QED
    BY <2>1, <2>2
<1>5. ASSUME Attribute PROVE Nearest'
  BY <1>5 DEF Attribute, NoScan, Nearest
<1>6. CASE UNCHANGED vars
  BY <1>6, NothingElse DEF vars
<1> QED
  BY <1>2, <1>3, <1>4, <1>5, <1>6, MobNearest, ScanCellNearest, ReadXNearest, ReadZNearest, Kinds
     DEF Next
-----------------------------------------------------------------------------
(* Theorems *)

LEMMA InitOK == Init => IInv
<1> SUFFICES ASSUME Init PROVE IInv
  OBVIOUS
<1>0. Idle.step = "idle" /\ Idle \in ThreadRec /\ "idle" \notin Holding
  BY DEF Idle, ThreadRec, StepName, Holding
<1>1. Types
  <2>1. [id |-> None, x |-> 0, z |-> 0, cell |-> None, gone |-> FALSE] \in EntryRec
    BY DEF EntryRec
  <2>2. NoScan \in ScanRec
    BY DEF NoScan, ScanRec
  <2>3. 1 \in 1 .. MaxEntries + 1
    BY IndexAssumption
  <2> QED
    BY <2>1, <2>2, <2>3, <1>0 DEF Init, Types, EmptyMap
<1>2. Relocating /\ Exclusive /\ Online /\ Searching
  BY <1>0 DEF Init, Relocating, Exclusive, Holds, Online, Searching, NoScan
<1>3. Known /\ CellMaps /\ InPlace
  BY <1>0, Kinds DEF Init, Known, CellMaps, InPlace, Filed, EmptyMap
<1> QED
  BY <1>1, <1>2, <1>3 DEF IInv

LEMMA StepOK == IInv /\ [Next]_vars => IInv'
<1> SUFFICES ASSUME IInv, [Next]_vars PROVE IInv'
  OBVIOUS
<1>1. ASSUME NEW p \in Players, NEW pos \in Positions, Add(p, pos) PROVE IInv'
  BY <1>1, AddStep
<1>2. ASSUME NEW p \in Players, NEW pos \in Positions, Update(p, p, pos) PROVE IInv'
  BY <1>2, Kinds, UpdateStep
<1>3. ASSUME NEW p \in Players, NEW pos \in Positions, scan.step = "idle", Update("server", p, pos)
      PROVE IInv'
  BY <1>3, Kinds, UpdateStep
<1>4. ASSUME NEW p \in Players, Remove(p) PROVE IInv'
  BY <1>4, RemoveStep
<1>5. ASSUME NEW t \in Thread, Step(t) PROVE IInv'
  BY <1>5, StoreStep, CompareStep, LockStep, DetachStep, EmptyStep, DropStep, InsertStep, PutStep
     DEF Step
<1>6. ASSUME NEW pos \in Positions, Mob(pos) PROVE IInv'
  BY <1>6, MobStep
<1>7. ASSUME ScanCell PROVE IInv'
  BY <1>7, ScanCellStep
<1>8. ASSUME NEW e \in Entry, ReadX(e) PROVE IInv'
  BY <1>8, ReadXStep
<1>9. ASSUME ReadZ PROVE IInv'
  BY <1>9, ReadZStep
<1>10. ASSUME Attribute PROVE IInv'
  BY <1>10, AttributeStep
<1>11. CASE UNCHANGED vars
  <2>1. UNCHANGED <<byPlayer, byCell, maps, entries, nextEntry, th>> /\ UNCHANGED scan
    BY <1>11 DEF vars
  <2>2. scan' \in ScanRec /\ Searching'
    BY <2>1 DEF IInv, Types, Searching, Found
  <2> QED
    BY <2>1, <2>2, SearchKeeps
<1> QED
  BY <1>1, <1>2, <1>3, <1>4, <1>5, <1>6, <1>7, <1>8, <1>9, <1>10, <1>11 DEF Next

\* The invariant all that follows is read off.
THEOREM IndexInvariant == Spec => []IInv
  BY InitOK, StepOK, PTL DEF Spec

\* Types, and that an entry, a map and a thread's operation stay what they are.
THEOREM IndexTypes == Spec => []TypeOK
<1>1. IInv => TypeOK
  <2> SUFFICES ASSUME IInv PROVE TypeOK
    OBVIOUS
  <2>1. Types
    BY DEF IInv
  <2>2. \A e \in Entry : entries[e] \in EntryRec
    BY <2>1 DEF Types
  <2>3. \A t \in Thread : th[t] \in ThreadRec
    BY <2>1 DEF Types
  <2> QED
    BY <2>1, <2>2, <2>3, Kinds DEF TypeOK, Types, EntryRec, ThreadRec, ScanRec
<1> QED
  BY <1>1, IndexInvariant, PTL

\* Nobody is stranded in a cell his entry does not name, however many threads share
\* the cells' maps: what stats() would count as an excess (PlayerIndex.java 198-204).
THEOREM IndexNotStale == Spec => []NoStaleEntry
<1>1. IInv => NoStaleEntry
  <2> SUFFICES ASSUME IInv, NEW c \in Cells, NEW p \in Players,
                      byCell[c] # 0, maps[byCell[c]][p] # 0, ~Locked(maps[byCell[c]][p])
               PROVE  LET e == maps[byCell[c]][p] IN entries[e].cell = c /\ ~entries[e].gone
    BY DEF NoStaleEntry
  <2>1. byCell[c] \in MapId /\ maps[byCell[c]][p] \in Entry
    BY DEF IInv, Types
  <2>2. \A t \in Thread : ~Holds(t, maps[byCell[c]][p])
    BY DEF Locked, Holds
  <2> QED
    BY <2>1, <2>2 DEF IInv, InPlace, Filed
<1> QED
  BY <1>1, IndexInvariant, PTL

\* remove is final (PlayerIndex.java 151-168): a mob never goes to a session that
\* is over, although its Netty thread may still be moving it when it ends.
THEOREM IndexAttributesOnline == Spec => []AttributedOnline
<1>1. IInv => AttributedOnline
  BY DEF IInv, Searching, Found, AttributedOnline
<1> QED
  BY <1>1, IndexInvariant, PTL

\* The nine cells and the radius of 48 in cells of 64 are one case: an undisturbed
\* search finds the nearest player for any radius no greater than a cell.
THEOREM IndexFindsNearest == Spec => []NearestFound
<1>1. Init => IInv /\ Nearest
  BY InitOK DEF Init, NoScan, Nearest
<1>2. IInv /\ Nearest /\ [Next]_vars => IInv' /\ Nearest'
  BY StepOK, NearestStep
<1>3. IInv /\ Nearest => NearestFound
  <2> SUFFICES ASSUME IInv, Nearest, scan.step = "scanned", scan.calm
               PROVE  LET within == {p \in Players : byPlayer[p] # 0 /\ Away(p) <= Sq(Radius)}
                      IN IF within = {} THEN scan.best = 0
                         ELSE \E p \in within : scan.best = byPlayer[p]
                                /\ \A q \in within : Away(p) <= Away(q)
    BY DEF NearestFound, Away
  <2>0. /\ Types /\ scan.at \in Positions /\ Calm /\ scan.cell = 9 /\ scan.todo = {}
        /\ scan.bestSq \in Int /\ Sq(Radius) \in Int
        /\ IF scan.best = 0
             THEN scan.bestSq = Sq(Radius) /\ \A p \in Players : Seen(p) => Away(p) > Sq(Radius)
             ELSE /\ scan.bestSq <= Sq(Radius)
                  /\ \E p \in Players : byPlayer[p] = scan.best /\ Away(p) = scan.bestSq
                  /\ \A p \in Players : Seen(p) => scan.bestSq <= Away(p)
    BY IndexAssumption DEF IInv, Types, ScanRec, Searching, Nearest, Sq
  <2>1. ASSUME NEW p \in Players, byPlayer[p] # 0, Away(p) <= Sq(Radius) PROVE Seen(p)
    <3>1. /\ entries[byPlayer[p]].x \in Int /\ entries[byPlayer[p]].z \in Int
      BY <2>0, <2>1, AwayType
    <3>2. PICK k \in 0 .. 8 :
            Neighbour(scan.at, k) = Cell(<<entries[byPlayer[p]].x, entries[byPlayer[p]].z>>)
      BY <2>0, <2>1, <3>1, Visited DEF Away
    <3>3. entries[byPlayer[p]].cell = Cell(<<entries[byPlayer[p]].x, entries[byPlayer[p]].z>>)
      BY <2>0, <2>1 DEF Calm, InOwnCell
    <3>4. k \in 0 .. scan.cell - 1
      BY <2>0
    <3> QED
      BY <2>0, <2>1, <3>2, <3>3, <3>4 DEF Seen
  <2>2. \A p \in Players : byPlayer[p] # 0 => Away(p) \in Int
    BY <2>0, AwayType
  <2> DEFINE within == {p \in Players : byPlayer[p] # 0 /\ Away(p) <= Sq(Radius)}
  <2> HIDE DEF Away, Seen, Calm
  <2>3. CASE scan.best = 0
    <3>1. within = {}
      BY <2>0, <2>1, <2>2, <2>3
    <3> QED
      BY <2>3, <3>1
  <2>4. CASE scan.best # 0
    <3>1. PICK p \in Players : byPlayer[p] = scan.best /\ Away(p) = scan.bestSq
      BY <2>0, <2>4
    <3>2. p \in within /\ \A q \in within : Away(p) <= Away(q)
      BY <2>0, <2>1, <2>4, <3>1
    <3> QED
      BY <3>1, <3>2
  <2> QED
    BY <2>3, <2>4
<1> QED
  BY <1>1, <1>2, <1>3, PTL DEF Spec
=============================================================================
