---------------------------- MODULE TracePipeline ----------------------------
(***************************************************************************)
(* From capture files to the bot that replays them.  The compiler turns    *)
(* the files a server left into traces, in a directory that may hold an    *)
(* older set, and may fail and be run again; trace-amplify multiplies      *)
(* them; mcbench places the bots' player data and lets them log in;        *)
(* bench-playerdata removes it again.                                      *)
(*                                                                         *)
(* An event of a capture knows the visit it was recorded in ("visit"),     *)
(* which no code reads: the properties compare with it.                    *)
(***************************************************************************)
EXTENDS Amplify, PlayerData

CONSTANTS
    Captures,                    \* what a server may have left: sequences of files
    OldDir,                      \* an older compiled set
    Imports,                     \* player data files of the import directory
    PlayerMaps,                  \* exports of the capture's ids, uuid to id
    Draws,                       \* what the generator may yield, for a fleet
    Wandered,                    \* where a bot is when it logs off
    Counts,                      \* how many bots a run may have
    MaxCompiles, MaxRuns         \* bounds

IsSeq(s) == Len(s) \in Nat /\ s = [i \in 1..Len(s) |-> s[i]]

\* A directory of traces, whatever is in the files.
IsDir(d) ==
    /\ d = [files |-> d.files, manifest |-> d.manifest]
    /\ IsSeq(d.files) /\ (d.manifest # None => IsSeq(d.manifest))

\* Bukkit's slots are 0 to 40, and every event has its session's player.
InSlots(inv) == inv # None => \A it \in inv : it.slot \in 0..40
HasData(kind, data) == (kind = "dig" => data \in Int) /\ (kind = "cmd" => data \in Nat)
Captured(e)  == /\ e # None /\ e.t \in Nat /\ e.player # None
                /\ HasData(e.kind, e.at) /\ (e.kind = "inventory" => InSlots(e.at))

\* A manifest names files of its directory; a trace carries real slots, and its
\* events come after its beginning.
Names(dir)   == dir.manifest # None => \A n \in DOMAIN dir.manifest : dir.manifest[n].file \in DOMAIN dir.files
Carries(dir) == \A n \in DOMAIN dir.files : Readable(dir.files[n]) => InSlots(ReadTrace(dir.files[n]).inventory)

Timed(t)     == /\ t.duration \in Int /\ IsSeq(t.events)
                /\ \A k \in DOMAIN t.events : /\ t.events[k].off \in Nat
                                               /\ HasData(t.events[k].kind, t.events[k].data)

ASSUME PipelineAssumption ==
    /\ Counts # {} /\ IsFiniteSet(Counts) /\ Counts \subseteq Nat \ {0}
    /\ {MaxCompiles, MaxRuns} \subseteq Nat
    /\ IsSeq(Imports)
    /\ IsDir(OldDir) /\ Names(OldDir) /\ Carries(OldDir)
    /\ \A n \in DOMAIN OldDir.files : Readable(OldDir.files[n]) => Timed(ReadTrace(OldDir.files[n]))
    /\ OldDir.manifest # None => Len(OldDir.manifest) <= Len(OldDir.files)
    /\ \A draws \in Draws : Len(draws) \in Nat /\ DOMAIN draws = 1..Len(draws)
    /\ \A c \in Captures :
          /\ IsSeq(c)
          /\ \A i \in DOMAIN c :
                /\ IsSeq(c[i].frames)
                /\ \A j \in DOMAIN c[i].frames :
                      /\ IsSeq(c[i].frames[j])
                      /\ \A k \in DOMAIN c[i].frames[j] : Captured(c[i].frames[j][k])

\* A visit has its own player and number.  The plugin keeps two rings a visit, for
\* the player's packets and for the server's events, and writes each in the order
\* of its events.
PacketKinds == {"dig", "move"}
SameRing(d, e) == (d.kind \in PacketKinds) = (e.kind \in PacketKinds)

ASSUME RecordedAssumption ==
    \A c \in Captures :
      LET es == StreamDir(c).events IN
      \A i \in DOMAIN es :
         /\ BucketOf(<<es[i].player, es[i].seq>>) \in 1..Buckets
         /\ \A j \in DOMAIN es :
               /\ es[i].visit = es[j].visit <=>
                    es[i].player = es[j].player /\ es[i].seq = es[j].seq
               /\ i < j /\ es[i].visit = es[j].visit /\ SameRing(es[i], es[j]) => es[i].t <= es[j].t

VARIABLES
    raw,                         \* the capture directory
    pc,                          \* which tool is running, and how far
    todo, lines, out, compiles,  \* sessions left, manifest lines, output, attempts
    fleet, bench, runs, job,     \* amplified set, server up, runs, the run's plan
    dat, old, at,                \* player data, backups, bots in the world
    gone                         \* history: accounts removed and not written since

compileVars == <<raw, todo, lines, out, compiles>>
benchVars   == <<fleet, bench, runs, job, dat, old, at, gone>>
worldVars   == <<dat, old, at, gone>>
vars == <<raw, pc, todo, lines, out, compiles, fleet, bench, runs, job, dat, old, at, gone>>

Accounts == 0..(Max(Counts) - 1)
NoJob    == [traces |-> <<>>, hashes |-> <<>>, count |-> 0, next |-> 0, used |-> {},
             srcs |-> <<>>, assigned |-> <<>>]

Init ==
    /\ raw \in Captures
    /\ pc = "start" /\ todo = <<>> /\ lines = <<>> /\ out \in {EmptyDir, OldDir}
    /\ compiles = 0
    /\ fleet = EmptyDir /\ bench = FALSE /\ runs = 0 /\ job = NoJob
    /\ dat = [a \in Accounts |-> None] /\ old = dat /\ at = dat
    /\ gone = {}

-----------------------------------------------------------------------------
(* The compiler, compile.Run.                                               *)

\* Pass 1, and the order in which pass 2 will meet the sessions.
Pass1 ==
    /\ pc \in {"start", "failed"}
    /\ compiles < MaxCompiles /\ compiles' = compiles + 1
    /\ LET in == StreamDir(raw) IN
       /\ pc' = IF in.ok THEN "pass2" ELSE "failed"
       /\ todo' = IF in.ok
                  THEN FlattenSeq([b \in 1..Buckets |-> SessionsIn(Spill(in.events)[b])])
                  ELSE <<>>
    /\ lines' = <<>>
    /\ UNCHANGED <<raw, out>> /\ UNCHANGED benchVars

PutFile(dir, n, f) ==
    [dir EXCEPT !.files = IF n <= Len(@) THEN [@ EXCEPT ![n] = f] ELSE Append(@, f)]

\* One session of pass 2: left out, or written as the next trace and listed.
CompileSession ==
    /\ pc = "pass2" /\ todo # <<>>
    /\ todo' = Tail(todo)
    /\ LET evs == InTimeOrder(Head(todo))
           n   == Len(lines) + 1
       IN  IF Dropped(evs)
           THEN UNCHANGED <<lines, out>>
           ELSE /\ out' = PutFile(out, n, Write(CompileTrace(evs)))
                /\ lines' = Append(lines, ManifestEntry(n, evs))
    /\ UNCHANGED <<raw, pc, compiles>> /\ UNCHANGED benchVars

\* Mutant: the error of a write is not looked at.
TraceWriteFailsUnseen ==
    /\ pc = "pass2" /\ todo # <<>> /\ ~ Dropped(InTimeOrder(Head(todo)))
    /\ out' = PutFile(out, Len(lines) + 1, None)
    /\ lines' = Append(lines, ManifestEntry(Len(lines) + 1, InTimeOrder(Head(todo))))
    /\ todo' = Tail(todo)
    /\ UNCHANGED <<raw, pc, compiles>> /\ UNCHANGED benchVars

\* The disk is full, or the compiler is killed, in the middle of a trace.
TraceWriteFails ==
    /\ pc = "pass2" /\ todo # <<>> /\ ~ Dropped(InTimeOrder(Head(todo)))
    /\ out' = PutFile(out, Len(lines) + 1, None)
    /\ pc' = "failed"
    /\ UNCHANGED <<raw, todo, lines, compiles>> /\ UNCHANGED benchVars

\* The manifest is written last, and not at all when it would list nothing.
Save ==
    /\ pc = "pass2" /\ todo = <<>>
    /\ IF lines = <<>> THEN pc' = "failed" /\ UNCHANGED out
                       ELSE pc' = "compiled" /\ out' = [out EXCEPT !.manifest = lines]
    /\ UNCHANGED <<raw, todo, lines, compiles>> /\ UNCHANGED benchVars

SaveFails ==
    /\ pc = "pass2" /\ todo = <<>> /\ lines # <<>>
    /\ pc' = "failed" /\ out' = [out EXCEPT !.manifest = None]
    /\ UNCHANGED <<raw, todo, lines, compiles>> /\ UNCHANGED benchVars

CompileRun == Pass1 \/ CompileSession \/ TraceWriteFails \/ Save \/ SaveFails

\* The directory is taken to the bench; what was captured is forgotten here, since
\* nothing of it is read there.
Ship ==
    /\ pc \in {"compiled", "failed"} /\ Loadable(out)
    /\ pc' = "bench"
    /\ raw' = <<>> /\ todo' = <<>> /\ lines' = <<>> /\ compiles' = 0
    /\ UNCHANGED out /\ UNCHANGED benchVars

-----------------------------------------------------------------------------
(* The bench: trace-amplify, mcbench run, bench-playerdata --remove.        *)

AllReadable(dir) ==
    /\ Loadable(dir)
    /\ \A n \in DOMAIN dir.manifest : Readable(dir.files[dir.manifest[n].file])

AmplifyRun(draws) ==
    /\ pc = "bench" /\ fleet = EmptyDir /\ AllReadable(out)
    /\ fleet' = AmplifiedDir(out, draws)
    /\ UNCHANGED <<pc, bench, runs, job>> /\ UNCHANGED worldVars
    /\ UNCHANGED compileVars

\* What playerdata.Run has read before it writes: the traces, their players'
\* hashes, and which imported file goes with which trace.
LoadTraces(dir) == [n \in DOMAIN dir.manifest |-> TraceAt(dir, n)]
Hashes(dir)     == [n \in DOMAIN dir.manifest |-> dir.manifest[n].player]
Plan(dir, count, importing, playerMap) ==
    LET srcs == IF importing THEN LoadImportDir(Imports, 0, playerMap) ELSE <<>>
    IN  [traces |-> LoadTraces(dir), hashes |-> Hashes(dir), count |-> count, next |-> 0,
         used |-> {}, srcs |-> srcs,
         assigned |-> IF importing THEN AssignImports(Hashes(dir), srcs) ELSE <<>>]

\* mcbench run up to the placing: nothing is written when the server answers.
BeginRun(dir, count, importing, playerMap) ==
    /\ pc = "bench" /\ runs < MaxRuns /\ runs' = runs + 1
    /\ AllReadable(dir) /\ ~ bench
    /\ pc' = "place"
    /\ job' = Plan(dir, count, importing, playerMap)
    /\ UNCHANGED <<fleet, bench>> /\ UNCHANGED worldVars
    /\ UNCHANGED compileVars

\* playerdata.Run, one account; without a position it is left as it is.
PlaceNext ==
    /\ pc = "place" /\ job.next < job.count
    /\ LET f == FileFor(job.next, job.traces, job.srcs, job.assigned, None)
       IN  /\ dat'  = IF f = None THEN dat ELSE [dat EXCEPT ![job.next] = f]
           /\ gone' = IF f = None THEN gone ELSE gone \ {job.next}
    /\ job' = [job EXCEPT !.next = @ + 1]
    /\ UNCHANGED <<pc, fleet, bench, runs, old, at>> /\ UNCHANGED compileVars

\* An unreadable import or a full disk; files are replaced whole.
PlaceFails ==
    /\ pc = "place" /\ job.next < job.count
    /\ pc' = "bench" /\ job' = NoJob
    /\ UNCHANGED <<fleet, bench, runs>> /\ UNCHANGED worldVars
    /\ UNCHANGED compileVars

\* All placed and the server is up: the runner's sessions begin.
BeginReplay ==
    /\ pc = "place" /\ job.next = job.count /\ bench
    /\ pc' = "replay"
    /\ UNCHANGED <<fleet, bench, runs, job>> /\ UNCHANGED worldVars
    /\ UNCHANGED compileVars

\* Mutant: the accounts beyond the last trace all replay that one.
TraceOfClamped(a) == job.traces[IF a < Len(job.traces) THEN a + 1 ELSE Len(job.traces)]

\* buildSession: bot a replays this trace.
TraceOf(a) == job.traces[(a % Len(job.traces)) + 1]

\* The server reads the file, or its backup, or puts the bot at world spawn.
WorldSpawn == [uuid |-> None, pos |-> None, dim |-> 0, gear |-> {}, alive |-> TRUE]
Stored(a) == IF dat[a] # None THEN dat[a] ELSE IF old[a] # None THEN old[a] ELSE WorldSpawn

LogIn(a) ==
    /\ pc = "replay" /\ bench /\ a < job.count /\ a \notin job.used
    /\ at' = [at EXCEPT ![a] = Stored(a)]
    /\ job' = [job EXCEPT !.used = @ \cup {a}]
    /\ UNCHANGED <<pc, fleet, bench, runs, dat, old, gone>> /\ UNCHANGED compileVars

\* Logging off saves the player; the file before becomes the backup.
Saved(who) ==
    /\ old' = [a \in Accounts |-> IF a \in who /\ dat[a] # None THEN dat[a] ELSE old[a]]
    /\ dat' = [a \in Accounts |-> IF a \in who
                                  THEN [at[a] EXCEPT !.uuid = a, !.pos = Wandered] ELSE dat[a]]
    /\ at'  = [a \in Accounts |-> IF a \in who THEN None ELSE at[a]]
    /\ gone' = gone \ who

Online == {a \in Accounts : at[a] # None}

EndRun ==
    /\ pc = "replay" /\ job.used = 0..(job.count - 1)
    /\ pc' = "bench" /\ job' = NoJob
    /\ Saved(Online)
    /\ UNCHANGED <<fleet, bench, runs>> /\ UNCHANGED compileVars

StartBench ==
    /\ pc \in {"bench", "place"} /\ ~ bench
    /\ bench' = TRUE
    /\ UNCHANGED <<pc, fleet, runs, job>> /\ UNCHANGED worldVars
    /\ UNCHANGED compileVars

StopBench ==
    /\ pc = "bench" /\ bench
    /\ bench' = FALSE
    /\ UNCHANGED <<pc, fleet, runs, job>> /\ UNCHANGED worldVars
    /\ UNCHANGED compileVars

\* Mutant: the backups are left.
RemoveAllButBackups(count) ==
    /\ pc = "bench" /\ ~ bench
    /\ dat' = [a \in Accounts |-> IF a < count THEN None ELSE dat[a]]
    /\ gone' = gone \cup {a \in Accounts : a < count}
    /\ UNCHANGED <<pc, fleet, bench, runs, job, old, at>> /\ UNCHANGED compileVars

\* removeAll, with the server stopped as its usage asks.
RemoveAll(count) ==
    /\ pc = "bench" /\ ~ bench
    /\ dat' = [a \in Accounts |-> IF a < count THEN None ELSE dat[a]]
    /\ old' = [a \in Accounts |-> IF a < count THEN None ELSE old[a]]
    /\ gone' = gone \cup {a \in Accounts : a < count}
    /\ UNCHANGED <<pc, fleet, bench, runs, job, at>> /\ UNCHANGED compileVars

Bench ==
    \/ \E draws \in Draws : AmplifyRun(draws)
    \/ \E dir \in {out, fleet}, n \in Counts, i \in BOOLEAN, m \in PlayerMaps :
          BeginRun(dir, n, i, m)
    \/ \E a \in Accounts : LogIn(a)
    \/ \E n \in Counts : RemoveAll(n)
    \/ PlaceNext \/ PlaceFails \/ BeginReplay \/ EndRun \/ StartBench \/ StopBench

Next == CompileRun \/ Ship \/ Bench

Spec == Init /\ [][Next]_vars

-----------------------------------------------------------------------------
(* Properties.                                                              *)

\* Types: where each tool is, and what the account files hold.
TypeOK ==
    /\ pc \in {"start", "pass2", "failed", "compiled", "bench", "place", "replay"}
    /\ compiles \in 0..MaxCompiles /\ runs \in 0..MaxRuns /\ bench \in BOOLEAN
    /\ out.manifest # None => Len(out.manifest) <= Len(out.files)
    /\ job.next \in 0..job.count /\ job.used \subseteq Accounts /\ gone \subseteq Accounts
    /\ \A a \in Accounts : \A f \in {dat[a], old[a]} : f = None \/ (f.uuid = a /\ f.alive)

\* What the files hold of a visit, in the order of the files; when it began, and
\* what is replayed of it.
VisitIn(evs, v) == Entries(evs, {i \in DOMAIN evs : evs[i].visit = v})
VisitsIn(evs) == {evs[i].visit : i \in DOMAIN evs}
Began(es) == Min({es[i].t : i \in DOMAIN es})
InCut(es) == {i \in DOMAIN es : /\ es[i].t - Began(es) <= MaxDuration
                                /\ DropChat => es[i].kind # "cmd"}
IsLong(es) == /\ \E i \in DOMAIN es : es[i].t - Began(es) >= MinDuration
              /\ InCut(es) # {}

\* The events an origin can come from, and the place each gives.
Places == {"session_start", "reanchor", "dig", "place"}
PlaceOf(e) == IF e.kind \in {"dig", "place"} THEN OnTop(e.at) ELSE e.at

\* t replays the visit with the events es: each of them up to the cut, once and
\* at its time since the visit began, in order of time and, for events of one
\* ring, in the order they were recorded; its origin is a place of that visit,
\* and is missing only when the files have none.
IsTraceOf(t, es) ==
    /\ \E p \in Bijection(DOMAIN t.events, InCut(es)) :
          /\ \A k \in DOMAIN t.events :
                t.events[k] = [off |-> es[p[k]].t - Began(es), kind |-> es[p[k]].kind,
                               data |-> es[p[k]].at]
          /\ \A k, l \in DOMAIN t.events :
                k < l /\ SameRing(es[p[k]], es[p[l]]) => p[k] < p[l]
    /\ \A k, l \in DOMAIN t.events : k < l => t.events[k].off <= t.events[l].off
    /\ IF t.origin # None
       THEN \E i \in DOMAIN es : /\ es[i].kind \in Places /\ es[i].at # None
                                 /\ t.origin.pos = PlaceOf(es[i]) /\ t.origin.dim = es[i].dim
       ELSE \A i \in DOMAIN es : es[i].kind \in Places => es[i].at = None

\* A compiled set has one trace for every visit that is long enough on disk, and
\* no other, whatever files and frames its events were in (compile.go 139-150,
\* 207-271): nothing is mixed with another visit, lost, doubled or put in
\* another order.  Its line names the visit's player.
OneTracePerVisit ==
    pc = "compiled" =>
      LET evs == StreamDir(raw).events
      IN  \E of \in Bijection(DOMAIN out.manifest, {v \in VisitsIn(evs) : IsLong(VisitIn(evs, v))}) :
            \A n \in DOMAIN out.manifest :
              LET es == VisitIn(evs, of[n]) IN
              /\ Readable(out.files[out.manifest[n].file])
              /\ IsTraceOf(TraceAt(out, n), es)
              /\ \A i \in DOMAIN es : es[i].player = out.manifest[n].player

\* The manifest that a finished compile wrote lists only files that are there and
\* hold as many events as it says, however often and wherever a compile failed
\* before it (compile.go 261-290).  An older set's, still in place, is left out.
ListedFilesAreWhole ==
    Loadable(out) /\ out.manifest # OldDir.manifest =>
      \A n \in DOMAIN out.manifest :
         LET line == out.manifest[n] IN
         /\ Readable(out.files[line.file])
         /\ Len(TraceAt(out, n).events) = line.events
         /\ line.player # None

\* A copy has its source's events, each within the jitter of its delayed time,
\* in order of time; its blocks are all shifted by one distance; amounts in
\* commands stay positive; it lasts as long as the source and to its last event
\* (amplify.go 66-106).
CopyOf(t, s) ==
    LET blocks(x) == {i \in DOMAIN x.events : x.events[i].kind = "dig"}
        dataOf(x) == {x.events[i].data : i \in blocks(x)}
    IN  /\ Len(t.events) = Len(s.events)
        /\ \E d \in 0..StartJitter :
             /\ t.duration >= s.duration + d
             /\ \E p \in {f \in [DOMAIN t.events -> DOMAIN s.events] : IsInjective(f)} :
                  \A k \in DOMAIN t.events :
                     LET off == s.events[p[k]].off + d IN
                     /\ t.events[k].kind = s.events[p[k]].kind
                     /\ t.events[k].off <= off + EventJitter
                     /\ t.events[k].off + EventJitter >= off
                     /\ t.events[k].kind = "cmd" /\ s.events[p[k]].data >= 1 => t.events[k].data >= 1
        /\ \A k \in 1..(Len(t.events) - 1) : t.events[k].off <= t.events[k + 1].off
        /\ t.events # <<>> => t.events[Len(t.events)].off <= t.duration
        /\ \E dx \in (0 - SpaceSpread)..SpaceSpread : dataOf(t) = {b + dx : b \in dataOf(s)}

EveryCopy ==
    \A n \in DOMAIN fleet.manifest :
       CopyOf(TraceAt(fleet, n), TraceAt(out, ((n - 1) % Len(out.manifest)) + 1))
AmplifiedSchedule == [][fleet' # fleet => EveryCopy']_vars

\* A bot in the world is the account it logged in as, alive, and stands where
\* the trace it is about to replay begins, in that dimension if it is one the
\* server knows (playerdata.go 98-109, runner.go 180-183): the placement and
\* the runner agree on who replays what.
SpawnsWhereItsTraceBegins ==
    \A a \in Online : TraceOf(a).origin # None =>
       LET o == TraceOf(a).origin IN
       /\ at[a].pos = o.pos /\ at[a].uuid = a /\ at[a].alive
       /\ KnownDimension(o.dim) => at[a].dim = o.dim

\* Without an import directory a bot has what the captured player carried, armor
\* and offhand included, in the slots the server reads them from
\* (playerdata.go 350-397).
BukkitSlot(s) == CASE s \in 0..35 -> s [] s \in 100..103 -> s - 64 [] s = -106 -> 40 [] OTHER -> None
InventoryArrives ==
    \A a \in Online : job.assigned = <<>> /\ TraceOf(a).origin # None =>
       {<<BukkitSlot(it.slot), it.id>> : it \in at[a].gear}
         = (IF TraceOf(a).inventory = None THEN {}
            ELSE {<<it.slot, it.id>> : it \in TraceOf(a).inventory})

\* With one a file goes to one trace at most, and a trace whose player has a file
\* gets that one unless another trace of the same player has it (import.go
\* 114-165); the bot of the trace logs in with that gear.  Without one it has its
\* player's own inventory.
GearGoesToItsOwner ==
    LET a == job.assigned  f == job.srcs IN
    /\ \A n, m \in DOMAIN a : n # m /\ a[n] # None => a[n] # a[m]
    /\ \A n \in DOMAIN a, j \in DOMAIN f :
          f[j].hash = job.hashes[n] =>
             \E m \in DOMAIN a : a[m] = j /\ job.hashes[m] = job.hashes[n]
    /\ \A b \in Online : b + 1 \in DOMAIN a /\ a[b + 1] # None /\ TraceOf(b).origin # None
          => at[b].gear = f[a[b + 1]].file.gear
    /\ InventoryArrives

\* An account whose data was removed, and not written since, comes back to world
\* spawn and to nothing of what it had: no backup revives it
\* (playerdata.go 414-432).
RemovedMeansWorldSpawn == \A a \in Online \cap gone : at[a] = WorldSpawn

=============================================================================
