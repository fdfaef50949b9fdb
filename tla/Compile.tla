------------------------------- MODULE Compile -------------------------------
(***************************************************************************)
(* The trace compiler, internal/compile, as operators on one bucket and    *)
(* one session; TracePipeline takes the steps.  A raw event is             *)
(*   [t, player, seq, kind, at, dim]                                       *)
(* with the position or the item it carries in "at" (None for none).       *)
(***************************************************************************)
EXTENDS RawLog, TraceFile, FiniteSetsExt

CONSTANTS
    MinDuration, MaxDuration,    \* the session filters, in the unit of t
    DropChat,                    \* leave commands out
    Buckets,                     \* number of scratch files
    BucketOf(_)                  \* the hash of a session key, modulo Buckets

ASSUME CompileAssumption ==
    /\ MinDuration \in Nat /\ MaxDuration \in Nat
    /\ DropChat \in BOOLEAN
    /\ Buckets \in Nat \ {0}

\* Mutant: all visits of a player are one session.
SessionKeyOfPlayer(e) == <<e.player, 0>>

SessionKey(e) == <<e.player, e.seq>>

\* sort.SliceStable by the numbers in key.
StableSort(s, key) ==
    LET rank(i) == Cardinality({j \in DOMAIN s :
                       key[j] < key[i] \/ (key[j] = key[i] /\ j <= i)})
    IN  [n \in DOMAIN s |-> s[CHOOSE i \in DOMAIN s : rank(i) = n]]

\* Pass 1: every event goes to the bucket of its session.
Spill(events) ==
    [b \in 1..Buckets |-> Entries(events, {i \in DOMAIN events : BucketOf(SessionKey(events[i])) = b})]

\* loadBucket and the ordering of a bucket: sessions by the time of the event
\* that came first in the files, each with its events still as they came.
SessionsIn(bucket) ==
    LET key(i) == SessionKey(bucket[i])
        firsts == Entries(bucket, {i \in DOMAIN bucket : \A j \in 1..(i - 1) : key(j) # key(i)})
        order  == StableSort(firsts, [i \in DOMAIN firsts |-> firsts[i].t])
    IN  [n \in DOMAIN order |->
           Entries(bucket, {i \in DOMAIN bucket : key(i) = SessionKey(order[n])})]

InTimeOrder(evs) == StableSort(evs, [i \in DOMAIN evs |-> evs[i].t])

\* The events a trace keeps of a session in time order.
Kept(evs) ==
    Entries(evs, {i \in DOMAIN evs : /\ evs[i].t - evs[1].t <= MaxDuration
                                     /\ ~ (DropChat /\ evs[i].kind = "cmd")})

\* Too short, or nothing left of it.
Dropped(evs) == evs[Len(evs)].t - evs[1].t < MinDuration \/ Kept(evs) = <<>>

FirstOf(evs, which) == IF which = {} THEN None ELSE evs[Min(which)]

\* A player who touched a block is put on top of it.
OnTop(block) == block + 1

\* resolveOrigin: the start marker's position, else the first re-anchor, else
\* the top of the first block touched, else nothing.
ResolveOrigin(evs) ==
    LET first(kinds) == FirstOf(evs, {i \in DOMAIN evs : evs[i].kind \in kinds /\ evs[i].at # None})
        start  == first({"session_start"})
        anchor == first({"reanchor"})
        block  == first({"dig", "place"})
        from(e, how) == [pos |-> e.at, dim |-> e.dim, how |-> how, exact |-> TRUE]
    IN  CASE start # None  -> from(start, "start")
          [] start = None /\ anchor # None -> from(anchor, "anchor")
          [] start = None /\ anchor = None /\ block # None ->
               [from(block, "block") EXCEPT !.pos = OnTop(@)]
          [] OTHER -> None

ResolveInventory(evs) ==
    LET snap == FirstOf(evs, {i \in DOMAIN evs : evs[i].kind = "inventory"})
    IN  IF snap = None THEN None ELSE snap.at

\* classify: shares of 2%, 5% and 90% of the events kept.
Classify(events) ==
    LET n(kinds) == Cardinality({i \in DOMAIN events : events[i].kind \in kinds})
        tags == {tag \in {"combat", "build", "traverse", "commands"} :
                   CASE tag = "combat"   -> n({"attack", "interact"}) * 50 >= Len(events)
                     [] tag = "build"    -> n({"dig", "place"}) * 20 >= Len(events)
                     [] tag = "traverse" -> n({"move"}) * 10 >= Len(events) * 9
                     [] tag = "commands" -> n({"cmd"}) > 0}
    IN  IF tags = {} THEN {"mixed"} ELSE tags

\* The trace of a session, and its line in the manifest.
CompileTrace(evs) ==
    LET kept == Kept(evs)
    IN  [schema    |-> SchemaVersion,
         duration  |-> kept[Len(kept)].t - evs[1].t,
         origin    |-> ResolveOrigin(evs),
         inventory |-> ResolveInventory(evs),
         events    |-> [i \in DOMAIN kept |->
                          [off |-> kept[i].t - evs[1].t, kind |-> kept[i].kind,
                           data |-> kept[i].at]]]

ManifestEntry(n, evs) ==
    LET t == CompileTrace(evs)
    IN  [file |-> n, player |-> evs[1].player, events |-> Len(t.events),
         tags |-> Classify(t.events)]

=============================================================================
