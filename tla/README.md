# Verification of mcbenchmark

TLA+ models, TLC runs and TLAPS proofs kept beside the mcbenchmark sources. The
program records what real players do on a Minecraft server and replays it as
load: a Java plugin captures packets and server events into files, Go programs
compile the files into per-session traces, and a Go replayer turns the traces
into virtual players.

Run anything with `tlc -config X.cfg MCModule` or `tlapm Module.tla`.

## 1. Inventory

    Netty threads --+                                 (one per shard)
                    +--> EventRing x2 --> WriterTask --> raw-*.bin
    server thread --+     per session        ^
         |                                   | hand-off of retired sessions
         +--> CaptureManager (sessions) -----+
         +--> PlayerIndex <-- Netty threads

    raw-*.bin --> trace-compiler --> traces --> trace-amplify --> mc-replay
                                       \--> bench-playerdata      (Runner,
                                                                 sessions)

| Component | State | Operations | Hard part | Correct when |
|---|---|---|---|---|
| `EventRing` | slots, side arrays, read and write index with private copies, bound producer | claim, payload, header, publish; drain | two threads without locks, reuse of slots | FIFO, nothing lost, torn or shadowed; a refusal only when full |
| `CaptureManager`, `PlayerSession` | live sessions, per-shard sessions and departures, drop counters | join, quit, record | a session moves between maps while threads use it | everything published before the quit is written; drops counted once |
| `WriterTask`, `BenchCapturePlugin` | frame, open file, schedule | flush, rotate, prune, final flush | overlap of flushes, I/O failure, retention against open files | each event in at most one frame; shutdown leaves nothing behind |
| `PlayerIndex` | player to entry, cell to map of entries | add, update, remove, nearest | two threads relocate an entry, all threads share cell maps | no departed player in a cell; the nearest one is found |
| listeners | movement baseline, dimension | one handler per event | baseline reset against a packet in flight | a delta never spans a teleport |
| `rawlog`, `mcwire` | none | read frames, varints | truncated tails, widths | every whole frame is read, corruption is reported |
| `compile`, `tracefile` | buckets on disk, output directory, manifest | bucket, group, sort, filter, resolve origin and inventory | events of two rings out of order, over frames and files; a failure midway, a second attempt | one ordered trace per visit; a manifest of a finished compile lists whole files |
| `amplify` | generator | copy with delay, jitter, shift, varied amounts | order after jitter | a copy is a schedule with its source's events |
| `playerdata`, `mcbench` | account files and the server's backups of them | match imports, place, wait, remove | two programs decide who replays what; the server rewrites the files | a bot stands where its trace begins with the right gear; removed means removed |
| `scenario` | none | defaults, checks | counts that make an empty run | what is accepted launches somebody |
| `replay` session | connection state, position, window, counters, ledgers | reader and dispatcher goroutines | shared fields read before a send and written after it | the server learns the position, play stops with the state, digs counted once |
| `replay` runner | counters, samples, results, stop channel | ramp, stop, drain, sample, report | hanging logins, counters that change while they are read | the run ends and its report adds up |

Everything hard to test in this code is listed, at its line, in
`PROJECT.json` under `hazards`, with the properties that cover it.

## 2. Modules

### EventRing, BoundedEventQueue
`EventRing` models `EventRing.java` one memory access group at a time. The
producer takes the steps `Offer` (reads `producer`), `Bind` (stores it), `Claim`,
`WritePayload`, `WriteHeader`, `Publish`; the drain takes `BeginDrain` (reads both
indices), `ReadHeader`, `TakePayload` for each slot, and `EndDrain` (the store of
`readIdx`). A slot's bytes are abstracted to the event they were written for, in
three parts that are written separately: header, inline payload, side array. So a
torn or shadowed event shows as an entry whose parts differ. Indices are unbounded
(64-bit, one per event, in the code). Accesses are interleaved as if memory were
sequentially consistent; `NoSlotRace` is the reason that is faithful, because plain
accesses to one slot are then always ordered by a volatile index.

`BoundedEventQueue` is what a ring promises: `Put`, `Refuse` only at capacity,
`TakeBatch`. `ImplementsQueue` is the refinement: the queue is read back from the
ring's memory (`Held`).

### CapturePipeline
Sessions from join to the last drain: `CaptureManager`'s maps and counters, the
server thread (`Join`, `JoinShard`, `JoinStart`, `ServerEvent`, `Quit`, `Retire`,
`QuitShard`, `QuitHandOff`, `Disable`, `FinalFlush`), a Netty thread for each
connection (`Receive`, `FindSession`, `PublishPacket`: the session is looked up
twice, as the code does), and flushes by the pool and by `onDisable`
(`FlushBegin`, `VisitActive`, `Release`, `EndActive`, `PollDeparted`, `EndFlush`), the
first shard's with the stats line at its end now and then: `tally` is `totalDropped` under
way, which reads the drops of the departed (`EndFlushWithStats`) and then those of one live
session at a time (`VisitLive`), while the server thread retires sessions (`RemoveThenCount`)
and others drop events, and logs the sum (`LogStats`). `onDisable`'s summary takes the same
total once more, when only Netty threads are left; it is not modelled.
A ring is here a bounded set of events, justified by `EventRing`; what a drain has
read stays in the ring until `Release`; a drain that reads nothing has nothing to
release. Iterating the concurrent map visits every
session that was in it throughout, and may visit others. Writing a frame succeeds
or throws. `late` is a history variable: events published after their session left
the map or after the packet listener was unregistered.

### Retention
The files under `WriterTask`: `Begin` is `flushOnce` up to its choice of rotating,
`Open` and `Register` the two halves of `rotate` (the file exists, then
`CaptureManager.openFiles` knows it), `List`, `Size`, `Prune`, `Pruned` the loops of
`pruneOldFiles` one file at a time, and `Write` the frame. Each shard goes
through them in a thread of its own; a file is its name (second and shard), its size
and the time of its last write. `OpenFails` is a full disk or a directory that is gone:
the old file is closed and still registered. Deleting fails for a file that is gone, and
a shard whose file was deleted writes on without one.

### PlayerIndex
Every access of shared state is a step of the thread that makes it: the stores of x
and z, the unlocked comparison, the entry's lock with its `gone` test, `byCell.get`,
`remove` and `isEmpty`, the conditional `byCell.remove` (which compares maps by
contents, as `ConcurrentHashMap` does), `computeIfAbsent`, `put`. Cell maps have
identities, so a map dropped while somebody is entering it is visible. `nearest`
scans nine cells and reads x and z in separate steps. Positions are pairs; `Cell`
is the floor division the arithmetic shift computes. Height is left out.

### DigLedger
A session's digs and placements: `dispatch` for the four block events (`DigStart`,
`DigAbort`, `Synthesise`, `DigFinish`, `PlaceBlock`), `noteDig` and `notePlace` in the
steps their locks separate (`NoteDig` looks the block up, `AddPending` notes it,
`CountDig` counts it), the reader's `ReadChunk`, `ReadSection`, `ReadUpdate` and
`Confirm` (the ledger first, the pending sets after), and the loop over the trace.
`reading` is an update between those two steps; `ledger`, `digPending`, `digStarted`
and `minSectionY` are the code's fields. Blocks are air or stone, a dimension is its
number of sections and its true lowest one. The server is external and modelled from
what the client expects of it: ordered packets, a finish only for the position last
started, silent refusals and corrections, updates only for columns in view, chunks
that arrive late or are unreadable, a lost connection. `breaks`, `late` and `misled` are
history variables: blocks that broke, digs found gone before they were noted, and blocks
whose being gone the client got from another dimension or from the wrong height.

A trace is any sequence of digs and builds; the run takes those a capture of a client's
packets can hold (`Captured`), which begin and end anywhere. A block may break at its start,
and then the client sends no finish: `ServerReceives` breaks it or begins to dig. Such a start
stays in `digStarted` for good. `LeftOver` is the trace that suffers from it: it starts a
dig, leaves it for others, and has a finish at that block that is without a start, because the
capture was cut there. `FinishIsPaired` is about every other finish of any trace (section 5).

### RawLog, TraceFile, Compile, Amplify, PlayerData
The batch tools as operators, one per function: `Stream` and `StreamDir` over files that
are whole, cut in a frame or end in zeros; `Write` and `ReadTrace` with the blocks a
schema has and offsets as differences; `Spill` (pass 1), `SessionsIn` (a bucket grouped
and ordered), `Kept`, `Dropped`, `ResolveOrigin`, `CompileTrace`; `AmplifyTrace` for
whatever numbers the generator yields; `AssignImports`, `PlayerNBT`, `ImportedNBT`,
`FileFor`. Strings, ids, positions and items are numbers or names; one coordinate stands
for three; a block's position becomes one on top of it (`OnTop`). Bytes, compression,
hashes and NBT appear by what they do: a file is whole or not, a hash is the pair it was
made from, a player data file is replaced at once (nbt.Write renames).

### TracePipeline
The tools in the order an operator runs them, over one disk. The capture directory is
what a server left (`raw`). The compiler reads it (`Pass1`), then writes a trace at a
time (`CompileSession`), may stop at any of them with the file torn (`TraceWriteFails`),
and writes the manifest last (`Save`, `SaveFails`); it may be run again into the same
directory, which may hold an older set to begin with. The directory is taken to the bench
(`Ship`), amplified, and used by `mcbench run`: `BeginRun` (the server does not answer;
traces and imports are read), `PlaceNext` for each account, `PlaceFails`, `BeginReplay`
when the server is up. The server is external: it reads an account's file, or the backup
beside it, or spawns the bot at world spawn (`LogIn`), and saves the player when he logs
off, keeping the file before as the backup (`Saved`); it may start while accounts are
placed. `bench-playerdata --remove` is `RemoveAll`. Every captured event carries the visit
it belongs to, which only the properties read; `gone` is a history variable.

### ReplaySession, Runner
`ReplaySession` is a session's goroutine and its reader. The goroutine dials, logs in,
waits for `playReady`, `readerDone`, stop or 30 seconds (`Await`, `GiveUp`), plays passes
of ticks (`Pass`, `BeginTick`, `Dispatch`, `EndTick`, `Check`), lingers (`Hold`), closes
the connection, joins the reader and records (`Leave`, `Join`, `Record`). The reader
answers the configuration phase, position packets and a return to configuration. A
position packet is computed under `viewMu` and sent after it, by either goroutine, in two
steps (`Dispatch` and `SendPosition`, `IdleMovement` and `SendResync`, `SyncPosition` and
`ConfirmPosition`); a position is modelled by whether it is still the view's. What
`dispatch` sends that no shared state depends on is "act", what it skips is "marker".
`Runner` is mc-replay: `Load` (scenario.Load and replay.New), the ramp, the deadline, stop,
the 15 seconds' drain, the report, and the sampler, which reads `Active` before it takes
the lock. Time is left out: an armed timer may fire at any moment, so every order of
deadline, tick, timeout and answer is met, and how long a thing takes is not stated.
Three parts of a session are history: `behind`, the idle ticks since the server last knew the
position; `left`, whether the reader has left play since the loop began ("hidden" when it had
done so just before, and `Enter` overwrote its state); `off`, the ticks begun since it left,
where 2 stands for more. `WriteReport` takes the counters in one step; the code reads them one
by one, and what is said of the report is about runs whose sessions have all ended, when none
of them changes any more. The report fails to be written or, when only `metrics.prom` does, is
written all the same.

## 3. Runs

| Run | Module, cfg | Result |
|---|---|---|
| `event_ring` | MCEventRing, EventRing.cfg | types, single producer, no slot race, in-order delivery, no stale side array, accounting hold; the ring implements the queue, liveness included |
| `ring_two_first` | MCEventRing, EventRingTwoFirst.cfg | violated: two first threads are both bound |
| `capture` | MCCapturePipeline, Capture.cfg | retiring a session loses nothing; the stats line's total, taken while a session quits, counts no drop twice; each event is in one frame at most; the final flush is complete; every recorded session_end gets to the writer |
| `capture_late_packet` | MCCapturePipeline, CaptureLatePacket.cfg | violated: a departed ring may be written after its one drain |
| `retention` | Retention, Retention.cfg | once nobody prunes, closed files fit the budget, whatever other shards close and delete meanwhile |
| `player_index` | MCPlayerIndex, PlayerIndex.cfg | nobody is left in a cell his entry does not name; mobs are never attributed to a session that is gone; nine cells are enough for the nearest player |
| `index_stranded` | MCPlayerIndex, IndexStranded.cfg | violated: a player in a dropped map, in no cell |
| `dig_ledger` | MCDigLedger, DigLedger.cfg | every finish follows its start, whatever the trace, unless a start left alone hides that it has none; successes never exceed blocks that broke, unverifiable digs, late notes and what a portal misled; nothing confirmed twice; the ledger follows the world where its origin is right |
| `dig_unverifiable` | MCDigLedger, DigUnverifiable.cfg | violated: an unverifiable dig becomes a success |
| `dig_height` | MCDigLedger, DigHeight.cfg | violated: after a portal, columns are read at the wrong height |
| `trace_pipeline` | MCTracePipeline, TracePipeline.cfg | each visit on disk becomes one trace with its events in order; a finished compile's manifest lists whole files; a copy is a schedule; bots stand where their traces begin, with their own or their players' gear; removed accounts come back to world spawn |
| `replay_run` | MCRunner, Runner.cfg | the report adds up under all interleavings, counts and events; the peak was reached; results are read when the reader has ended; one tick at most once the reader has left play, unless the start of play hid it; the server's position is corrected within a resync period; a stopped session gets away; the run ends |

Bounds. A ring of 2 slots with 5 offers wraps more than twice and meets every
fill level at every point of a drain; the proofs cover all sizes. Two sessions of
one player give departure, hand-off and rejoin; one event besides the
markers is a packet in flight or a server event; a main ring of two slots is full
once start, event and end are in it; no frame fails once an event is in a file or lost
(`MaxFailed`), which leaves every flush its turn to be the one. Two shards and both flushers per
shard give every overlap of a flush. Two shards and two files of an earlier run, which
alone exceed the budget, give every overlap of two prunings; six flushes rotate each
shard's file by size and by age and leave one for a rotation that fails. In the index one entry more than players
gives a rejoin, and one relocation besides those of joining is an update in flight, on
the player's thread or the server's, under every join and quit. A cell of 4 and a
radius of 3 keep the ratio 64 to 48; the row of positions lies on both sides of 0,
with distances at, below and beyond the radius.
Two blocks, every trace of two events that a capture can hold, the three-event ones that
begin in the middle of a dig and come back to its block, to finish it, to abandon it, or to
break it at once and go on to the other, two passes: a block is dug again before the first
dig's answer is read. Two packets to the server and one to the client besides the one being read put
every answer before, between and after the dispatcher's steps; one change by others
and a second view of the column make knowledge stale. With a trace of one event, dug in both
passes, the player may also come back into view in the nether, or begin there: `misled` is
then needed for the bound, and columns are read at the right and at the wrong height.
The captures are every short visit by one player (each kind of event that the
compiler treats apart, at a time before, at and after the cut), with a second visit by
another, by the same player, or after a restart with a new salt, flushed in two frames
that are whole, in two files, cut or followed by zeros. Two scratch files put the two
sessions of a start into different buckets; two compiles give a failure followed by a
second attempt, over an empty directory or an older set. Three accounts on one, two
or three traces make accounts share traces and traces miss accounts; two runs give the
server's own files and backups of the first to the second.
A run has one session with two events and three packets of the server that move or
reconfigure it, or two sessions with one packet each, along the ramp or at once; two idle ticks
between full positions instead of 20 leave room for one that does not correct and one
that must; ticks after the reader has left are counted to two. One pass is enough, since nothing a pass leaves is looked at by the next but
the idle count. Refused scenarios are among the initial states.
Deadlock checking is off where the system really stops: no more joins or events
once the bounds are reached, no more events once the trace is over, no more runs, the
report written.

Fairness. Only the writer and the server thread owe anything: the flush is
rescheduled with a fixed delay for as long as the plugin is enabled (`WF` on the
drain and on the pool's flush of each shard), and the server thread finishes the handler it
is in, `onDisable` with its flushes included (`ServerThread`).
No player, packet or producer has to act. In `replay_run` the runner's goroutine and the
sampler go on (`WF`), and the sampler's select between its ticker and the closed stop
channel does not choose the ticker for ever (`SF`; Go chooses at random). Nothing is asked
of the sessions or the server, so `RunEnds` holds with every session stuck in its login;
`StopNeverStrands` says what sessions can do without being asked, if their writes return:
the codec sets no deadline (codec.go 105-138), so a write to a server that reads no more
waits once the buffers are full, and `stop` does not close that connection.

## 4. Proofs

`EventRingProofs` proves for every number of slots, threads and events:
`RingTypes`, `RingHasOneProducer`, `RingIsRaceFree`, `RingDeliversInOrder` and
`RingForgetsSideArrays`, all from `RingInvariant`. They assume `RingAssumption` (at
least one slot) and `SoleFirstThread`: one thread only can make the first claim on a
ring. The code says so of each ring and does not enforce it (`ring_two_first`).

No property is inductive alone. The invariant `IInv` adds who is past
`claimProducer` (`Ownership`), the order of the four indices (`Indices`: the cached
read index may lag, so a claim is only too cautious), what the drain has read
(`Drain`), the exchange so far (`Output`: encoded and batch are prefixes of what was
accepted) and the contents of the slots (`Memory`: each slot of the window holds
its event in all its parts, and no other slot but the one being filled has a side
array). The arithmetic of `%` rests on `DistinctSlots`: sequence numbers less than a
full ring apart use different slots.

It also proves `RingImplementsQueue`, the safety part of `ImplementsQueue`
(initial states and steps; its fairness is TLC's), and `RingAccounts`, which needs a
finite set of threads. Both rest on `RingInvariant`: `HeldWaits` shows that what is read
back from the slots and the drain's hands is the sequence of events published and not
released, so only a publish, a refusal and a release move the queue; a refusal finds
`Slots` events because the cached index was read again before it.

`RunnerProofs` proves for any finite number of sessions, any traces, scenarios and
budget of server packets: `RunTypes`, `RunReport`, `RunPeak`, `RunJoins`, `RunTicks` and
`RunFollows`, all from `RunInvariant`. They assume `SessionAssumption` (a finite set of
session numbers, a resync period of at least one tick) and `ScenarioAssumption` (sessions
are numbered from 0, enough of them for what a scenario may ask; traces are sequences of
events). The server is not restricted: it moves, reconfigures and drops a session at will.

The invariant has a part per session and parts that tie sessions to what is shared.
`SessionOK` says where each goroutine may be when a position is held back, when the
reader has ended and when the state is no longer play. `Notices` bounds `off`: from the
moment the reader leaves, the state is not `play_ready`, which only `Enter` stores, and a tick
begun then ends in the check that leaves the loop. A reader that left before `Enter` is the
exception; when it is back it sets the state itself, and the count begins anew. `Follows` bounds `behind` by the
idle count since the last full position, and by 0 while a stale position is about to be
sent; `behind < ResyncTicks` alone is not preserved, since an idle packet adds one.
`RunEvents` proves `EventsAddUp`: `EventsCounted` says that the events the run has counted are
the sum of what the sessions sent, so the step that sends one adds one to both sides.
`Counted` makes the counters sizes of sets: each session is before, entering, playing,
gone or failed (`Phase`), a step moves one session from one set to another (`AmongStep`),
and `SessionCounts` shows that the counters change by exactly that. `Recorded` ties the
results to the sessions that are done, `RunOK` the launches to the sessions that are no
longer new, `Sampled` the samples to the count of those that connected (which never falls, while
`active` does), `Reported` the report to the last state.

`RunStrandsNobody` proves `StopNeverStrands`: by `SessionOK` whoever waits for its reader
has closed the connection, so the reader can end. The property says so with the guards of
the steps (`CanRun`, `ReaderCanEnd`), since the prover has no ENABLED. In its place
`StoppedSessionCanEnd` gives the step: `Homeward` is what a stopped session does next on the
shortest way out, with the value of every variable after it, and the theorem shows that
from every state of the invariant past the login this is a step of the model and leaves
fewer of `StepsLeft`, at most nine. A session that does not end has thus made other choices
(its select took the ticker for ever) or waits in a write.

`CaptureProofs` proves for any number of players, sessions, shards and events, and rings
of any size: `CaptureTypes`, `CaptureWritesOnce`, `CaptureRetires` and `CaptureFinishes`,
all from `CaptureInvariant`. They assume `PipelineAssumption` only (at least one shard and
one slot; the session ids are numbers and none of them is the value for no session).

The properties lean on each other, so the invariant carries them together. `Registered`
says where a session is: in the players' map, in the writers' map, queued or on its way
between them, and that one that was retired is never live again. `Fresh` says that the
events still to be published are in no ring, frame or file, without which an event could
be written twice by being published twice. `Framed` and `Held` describe a flusher between
reading a ring and releasing it: its frame and the rings overlap only in the one ring it
holds, its counterpart on the shard is idle, a ring held while its session is registered
can still be come to again, and one held for the last time receives late events only.
`Finishing` follows the final flush of a shard: what it has seen holds late events only,
and it sees all that is registered before it turns to the queue. At its end the queue is empty and nobody holds a
ring, so `RetiringLosesNothing` gives the sessions it has not seen; that is why
`FinalFlushTakesAll` cannot be proved without it. `CaptureCountsDropsOnce` adds
`NoDropCountedTwice`: a departing session is taken out of the live ones before its drops
are added to the departed total, so while it is in neither the stats line is low, never high.
The total takes many steps, and `Tallies` says what it covers so far: drops of some sessions
that were departed when it was begun, none of which is still to be visited, and of those it
has visited. New departures change neither; read the other way round, a session that is
visited and then departs would be in it twice, which is the mutant of the run.

`PlayerIndexProofs` proves for any finite number of players and positions, any joins and
moves, and any radius no greater than a cell: `IndexTypes`, `IndexNotStale`,
`IndexAttributesOnline` and `IndexFindsNearest`. They assume `IndexAssumption` only, which
also says that no player is the server thread.

The cells' maps have no lock, so `NoStaleEntry` rests on the locks of the entries: in the
invariant, `InPlace` says that an entry in reach of a search is in the cell it names, and
that whoever holds its lock has yet to take it out of that very map. `CellMaps` keeps that
true while others enter, empty and drop the map: no two cells share one, and a map about
to be put into is its cell's or in nobody's reach; `FreshMap` counts the maps in use, so
that there is always one for a cell that has none. Dropping a map by its contents only
takes entries out of reach, which is why this property holds where `EveryPlayerInACell`
does not. `Online` ties entries to players: one that is not its player's is gone, or the
server is about to lock it, and `Relocating` that only the server's removal holds an entry
that is gone; so an idle server thread finds only players online (`FiledOnline`), and its
search keeps them so. `IndexFindsNearest` adds `Nearest`, what an undisturbed search has
so far is the best of those it has looked at, and `Visited`: a player within the radius
is at most one cell away along each axis, hence in one of the nine.

`DigLedgerProofs` proves for any finite set of positions, any dimensions of whatever
heights, any traces and any number of passes: `LedgerTypes`,
`DigsConfirmedOnce`, `DigsArePaired`, `LedgerIsRight` and `NoSuccessIsFalse`. They assume
`LedgerAssumption` and nothing else. The run goes through a portal with traces of one event
only (`Portals`), for with all of them two dimensions are too many states.

`Counted` is nearly `ConfirmedOnce`: what is confirmed or pending has been counted as sent,
but for the dig the dispatcher is about to count. For `FinishIsPaired` the invariant
follows a dig along the way. `Known` says what `digStarted` can hold: the last dig of this
pass at that block if it is a start, or else the last one there in the pass before, so a
finish that gets no start from the dispatcher had one there; if other digs came between, the
trace is one that `LeftOver` describes. `Pairs` says that the server, once it has taken
what is under way, will be digging where that start was, builds in between or not
(`DiggingAfter`, over a prefix of the queue, and preserved when its head is taken).
`Follows` does the same the other way: the last message under way that covers a block says
how it is, or none covers it and the ledger knows (`Told`); a refusal repeats the truth, and
coming into view sends it whole. Columns of dimensions left before may still be under way,
and be read at a wrong height; that does no harm while the column in view is behind them,
for it covers every block, and it is the last one (`LastFrom`). When it is itself read at a
wrong height the origin is wrong until another column comes. So the ledger can be wrong in
one way only, the finding of `dig_height`: an origin that is not the one of the dimension.

`NoSuccessIsFalse` proves `NoFalseSuccess`. The bound is not inductive: a success counted
later needs its block to have broken before. `Honest` therefore adds to the successes what
is still owed one, and bounds the sum: `Owed` holds each pending dig of a block
the client already believes gone, and each message under way that turns a believed block
into air, with `Noting` for the dig about to be noted. Reading a message never adds to it
(`OwedRead`, `OwedDrop`), nor does telling the truth (`OwedAppend`); another world adds what
is air in it and was not before (`OwedWorld`: one block that breaks, or a change of
dimension), a misread column what it changed (`OwedBelief`).

`RetentionProofs` proves for any number of shards, any budget and any clock: `SpecTypeOK`
and `SpecBudgetKept`, from `IInv`. The difficulty is that each shard measures and prunes
on a listing of its own while the others rotate and delete. `Covered` says that of those still
measuring or pruning one has everything that counts: it listed the directory last, so
every closed file that has something in it is in its listing, and what it still counts is no less than those
files hold. Whoever stops pruning either keeps another such shard or leaves the directory within its budget. `Registered`
ties a file to the shard that writes it.

`TracePipelineProofs` proves for any captures, fleets, imports and numbers of bots, from
`PipelineAssumption` (captures are frames of events with a time, slots of an import are
apart, an older set in the directory is one the amplifier can read):
- `SpecTypeOK`, and from `Settled` also `RemovedStartAnew` and `BotsStandAtTheirTrace`. `Planned` says what
  the one-shot's plan is while it writes; `Placed` says that a file of a bot is the one
  `FileFor` gives him, or is of an account nobody drives any more; `Removed` follows
  removed accounts. Backups matter to both: a write moves the former file to
  `.dat_old`, and a login takes that one when there is no other.
- `ListedAreWhole`, from `Captive` (every event in memory, in the buckets and in the
  visits still to be written is one of the captures) and `Listed` (the manifest being
  built, or the one on disk unless it is still the older set's, is of files written whole).
  A failed compile leaves the older manifest over new files, which is why the property,
  and `Listed`, leave that one out.
- `GearIsOwned`, from `Carrying`. `Assigned` shows that `assignImports` gives a file to
  one trace at most. It assumes `ImportsApart`: the files are named by distinct players,
  as the server names them.
- `CopiesKeepTheSchedule`, from `AreTimed`: what is read back of a written trace is
  what was written (`RoundTrip`), draws stay within what is asked for (`Drawn`), and sorting
  a copy's events by their jittered time is a permutation (`Ranks`, `Varied`), so
  each event of the copy has one of the source. It assumes `DrawsAreNumbers`: the
  generator yields naturals.
- `OneTraceEach` (`OneTracePerVisit`), the compiler's promise. `CaptureListed` is about
  pass 1: a scratch file holds the whole of each visit it holds anything of, in the order
  of the files (`SameVisit`, `BucketListed`), its sessions are its visits (`SessionOrder`,
  `SessionsListed`), and no visit is in two (`FlattenListed`). `Traced` is the invariant of pass 2: after d sessions there is
  one line and one file for each of them that was not left out, whatever earlier attempts
  left in the directory. `DroppedIs` and `TraceOfVisit` compare what was written with the events of
  the visit, through a sort, a cut and the differences in the file. It rests on
  `RecordedAssumption`: a visit has a player and number of its own, and the events of each
  of its two rings come in the order of their times, since the ring's one producer reads a
  monotonic clock for each event it records (CaptureManager.java 271, 333, 384, 474). The first fails
  without anonymisation, when a restarted server counts anew (section 5).
Some of these assume that `None` is no file, no trace, no origin and no number, which a
model value gives for free.

`SumLemmas` holds what the sums need. The library's induction takes an operator and
cannot be used, so `SetInduction` takes the set of good cases instead: if the empty set is
good and adding one element keeps a set good, then every finite set is, since a set that is not
has one of least size. A sum over a finite set is then shown to be the number
of units it counts, and what holds of cardinalities gives the rest.

Only model-checked: of the capture `SessionEndReachesWriter` and the liveness in
`ImplementsQueue`, and of the runner `RunEnds`, since the prover handles no fairness.
Every other property of a passing run is a theorem.

## 5. Findings

The five violated runs show where the code departs from what it says of itself;
`PROJECT.json` quotes the lines. Two are windows at a player's quit or rejoin (both
producers bound; the packet after the last drain, which also loses a drop when the
ring is full), one is in the player index: the player stranded in a dropped map.
Two concern the digs: an unverifiable dig that counts as a success, and a block ledger
read at the wrong height after a change of dimension.

A third about digs is in the exception of `FinishIsPaired`, `LeftOver`. A capture begins in
the middle of a dig at a block, so its trace begins with a lone finish; later the player
comes back there, breaks what is there now at once, and goes on elsewhere. Nothing takes that
start out of `digStarted` (dispatch.go 132-145), so in the second pass of the trace the lone
finish gets no synthetic start, though dispatch.go 125-127 promises one, and the server drops
it. Without the exception TLC finds this in 13 states. The finish then counts as a dig sent,
and as confirmed only if its block goes all the same (`NoFalseSuccess` holds with such traces).

The model also shows what the code allows without promising otherwise: `late` is needed in `NoFalseSuccess`, since a
block dug twice within a round trip can be confirmed twice; a finish is sent before the
ledger is asked, so a real break may be counted into_air (and a dig into air is sent,
which metrics.go 56 denies); a placement refused because the block is taken is
confirmed by the correction.

Reading and modelling the Go side gave more that no run states, because the code says
nothing of it that the run would refute, or because the line alone shows it:
- Four concern the capture directory, and are behaviours of `Retention`. A shard lists the
  directory before another's new file is registered as open; the other prunes the older
  files first, the shard cannot delete them, does not take them off its total, and deletes
  the file the other is writing, though WriterTask 222-224 says open files are never
  candidates. Even without that, two shards that prune at once delete more than needed,
  for the same total; config.yml 48-49 says files go "until the total fits". A file that
  is full within the second it was opened in is emptied by the rotation that follows, for
  the name is made of the second; it takes a flush interval below that. And the stats line
  reports the first shard's prunings only (`maybeLogStats` returns before it for the
  others), where config.yml 52-53 says lost data is never silent.
- A dig that is pending when its player changes dimension is confirmed by air at the same
  position of the dimension entered, though nothing broke: `digPending` and the ledger know
  positions only, and neither is cleared. With two dimensions TLC finds it in 12 steps (a
  dig noted in one, its finish refused in the other with the air that is there) when
  `misled` is left out of `NoFalseSuccess`; with it the bound is proved.
- `compile.go:394` marks an origin inferred from a block as exact, and tracefile.go 59-62
  says such an origin is not.
- A capture file that ends in zeros is an error, not a truncated file, and the whole
  directory fails to compile (rawlog.go 210, 288).
- Between a second compile that fails midway and the next, the older manifest lists new
  or torn traces; `ListedFilesAreWhole` is about manifests a compile wrote.
- FORMAT.md calls session_seq a counter per player; it is one counter of the server that
  begins again with each start. Without anonymisation two starts' sessions of one player
  can have one key and are then compiled into one trace. The captures of the run restart
  with a new salt.
- An account whose trace has no origin is said to spawn at world spawn (playerdata.go
  205); it spawns where the file of an earlier run says.
- With more bots than traces several bots get the same imported file.
- `Enter` overwrites the state the reader may have set: a session reconfigured between
  `playReady` and that store (session.go 221, protocol_flow.go 220-223) plays on in the
  configuration phase, for any number of ticks, until the reader is back in play and sets the
  state itself, or has ended. `off` counts these ticks; `OneTickAtMost` excepts them, and TLC
  refutes it without the exception (15 states).
- Login has no timeout and does not look at stop, and no write has a deadline. `StateDraining` and
  `StateDisconnected` are never set, so a session that ended well reports `play_ready`.
- `PlayFor` is capped at the deadline before jitter is added (runner.go 187-193), and a
  burst of launches does not look at the deadline.

## 6. What is left

What is left is windows in `ReplaySession`, and the entity tracker.

## 7. Not modelled

Configuration, logging, compression and byte layouts (NBT, packet fields, frame headers,
varints, the payload of each event), the statistics the tools print, the generator behind
the amplifier, the splitting of a command into words; windows and the entity tracker of a
session, whose values come from the server and go back to it; the host's scripts, test
servers and fixtures. Time is nowhere measured, but for the seconds that name capture files.
