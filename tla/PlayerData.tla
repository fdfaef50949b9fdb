----------------------------- MODULE PlayerData -----------------------------
(***************************************************************************)
(* Player data files for the bench accounts, internal/playerdata.  A file  *)
(* is whose it claims to be, where its player stands, what he carries and  *)
(* whether he is alive.  NBT encoding is left out but for what Write does  *)
(* to the directory: the file is replaced whole or not at all.             *)
(***************************************************************************)
EXTENDS TraceFile, FiniteSetsExt

\* Bukkit's slots 0-35, 36-39 (armor) and 40 (offhand) as player data has them.
NbtSlot(s) ==
    CASE s \in 0..35  -> s
      [] s \in 36..39 -> 100 + (s - 36)
      [] s = 40       -> -106
      [] OTHER        -> None

InventoryNBT(inv) ==
    {[slot |-> NbtSlot(it.slot), id |-> it.id, count |-> IF it.count < 1 THEN 1 ELSE it.count] :
        it \in {x \in inv : NbtSlot(x.slot) # None}}

KnownDimension(d) == d \in 0..2

\* playerNBT: a new file.
PlayerNBT(o, inv, bot) ==
    [uuid |-> bot, pos |-> o.pos, dim |-> IF KnownDimension(o.dim) THEN o.dim ELSE 0,
     gear |-> IF inv = None THEN {} ELSE InventoryNBT(inv), alive |-> TRUE]

\* Mutant: the identity in the real player's file is kept.
ImportedNBTKeepsIdentity(src, o, bot) == [src EXCEPT !.pos = o.pos, !.alive = TRUE]

\* importedNBT: a real player's file, with the fields that must be the bot's own.
ImportedNBT(src, o, bot) ==
    [uuid |-> bot, pos |-> o.pos, dim |-> IF KnownDimension(o.dim) THEN o.dim ELSE src.dim,
     gear |-> src.gear, alive |-> TRUE]

\* hashPlayer: the id a capture stores for a player.
HashPlayer(uuid, salt) == <<uuid, salt>>

\* loadImportDir: each file with its player's hash, from the operator's map
\* when that names the player.
LoadImportDir(files, salt, playerMap) ==
    [j \in DOMAIN files |->
       [file |-> files[j],
        hash |-> IF files[j].uuid \in DOMAIN playerMap THEN playerMap[files[j].uuid]
                 ELSE HashPlayer(files[j].uuid, salt)]]

\* Mutant: a file already given is given again.
AssignImportsAgain(hashes, srcs) ==
    [i \in DOMAIN hashes |->
       LET own == {j \in DOMAIN srcs : srcs[j].hash = hashes[i]}
       IN  IF own = {} THEN None ELSE Max(own)]

\* assignImports: a trace gets its own player's file unless an earlier trace
\* took it; the other traces get what is left, in order.
AssignImports(hashes, srcs) ==
    LET byHash(h) == {j \in DOMAIN srcs : srcs[j].hash = h}
        own == [i \in DOMAIN hashes |->
                  IF /\ hashes[i] # None /\ byHash(hashes[i]) # {}
                     /\ \A k \in 1..(i - 1) : hashes[k] # hashes[i]
                  THEN Max(byHash(hashes[i])) ELSE None]
        left == {j \in DOMAIN srcs : \A i \in DOMAIN own : own[i] # j}
        nth(i) == Cardinality({k \in 1..i : own[k] = None})
    IN  [i \in DOMAIN hashes |->
           CASE own[i] # None -> own[i]
             [] own[i] = None /\ nth(i) <= Cardinality(left) -> Nth(left, nth(i))
             [] OTHER -> None]

\* What Run writes for account i (counted from 0), None when it is skipped.
FileFor(i, traces, srcs, assigned, fallback) ==
    LET n   == (i % Len(traces)) + 1
        o   == IF traces[n].origin # None THEN traces[n].origin ELSE fallback
        src == IF assigned = <<>> THEN None ELSE assigned[n]
    IN  CASE o = None -> None
          [] o # None /\ src # None -> ImportedNBT(srcs[src].file, o, i)
          [] OTHER -> PlayerNBT(o, traces[n].inventory, i)

=============================================================================
