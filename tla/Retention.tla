----------------------------- MODULE Retention -----------------------------
(***************************************************************************)
(* The capture directory.  Every writer shard fills a file of its own,     *)
(* starts another when that one is too old or too large, and then deletes  *)
(* the oldest files of the directory until the rest fits a budget.  The    *)
(* shards run in threads of their own: they share the directory and        *)
(* CaptureManager.openFiles, and no lock covers a look at either and what  *)
(* is done about it.                                                       *)
(*                                                                         *)
(* What goes into a frame is CapturePipeline's; here a frame has a size.   *)
(* On the file systems this runs on, deleting fails only for a file that   *)
(* is not there, and one that is deleted while open can still be written.  *)
(***************************************************************************)
EXTENDS Integers, FiniteSets, FiniteSetsExt

CONSTANTS
    Shards,         \* writer shards, from 0
    OldFiles,       \* sizes of files earlier runs may have left
    RotateAfter,    \* seconds a file may be old, 0 for any
    RotateMax,      \* bytes it may hold, 0 for any
    MaxTotal,       \* the budget, 0 for none
    MaxTime, MaxFlushes, MaxFailures, \* bounds
    None

ASSUME RetentionAssumption ==
    /\ IsFiniteSet(Shards) /\ Shards \subseteq Nat /\ 0 \in Shards
    /\ IsFiniteSet(OldFiles) /\ OldFiles \subseteq Nat
    /\ RotateAfter \in Nat /\ RotateMax \in Nat /\ MaxTotal \in Nat
    /\ MaxTime \in Nat /\ MaxFlushes \in Nat /\ MaxFailures \in Nat

VARIABLES
    now,            \* the clock, in seconds
    dir,            \* files in the directory: size and time of the last write
    openFiles,      \* CaptureManager.openFiles
    writer,         \* each shard's CaptureLogWriter, and when it was opened
    step,           \* where each shard is in flushOnce
    seen,           \* closed files its listing found, oldest first, by time
    unsized, total, \* those it has not measured, and the sum of the others
    flushes, failures

scan == <<seen, unsized, total>>
vars == <<now, dir, openFiles, writer, step, scan, flushes, failures>>

\* raw-<second>-s<shard>.bin.  Those of earlier runs are of seconds before.
Name(t, s) == [sec |-> t, shard |-> s]
NoWriter == [path |-> None, isOpen |-> FALSE, bytes |-> 0, openedAt |-> 0, next |-> "idle"]

Init ==
    /\ now = 0
    /\ \E old \in SUBSET OldFiles :
         dir = [f \in {Name(-n, 0) : n \in old} |-> [size |-> -f.sec, at |-> f.sec]]
    /\ openFiles = {}
    /\ writer = [s \in Shards |-> NoWriter]
    /\ step = [s \in Shards |-> "idle"]
    /\ seen = [s \in Shards |-> <<>>]
    /\ unsized = [s \in Shards |-> {}] /\ total = [s \in Shards |-> 0]
    /\ flushes = 0 /\ failures = 0

Bytes(files) == SumFunctionOnSet([f \in files |-> dir[f].size], files)
Go(s, to) == step' = [step EXCEPT ![s] = to]

-----------------------------------------------------------------------------
(* flushOnce and rotate *)

Aged(s) == RotateAfter > 0 /\ now - writer[s].openedAt >= RotateAfter
ShouldRotate(s) == Aged(s) \/ (RotateMax > 0 /\ writer[s].bytes >= RotateMax)

\* A flush with something to write, or one without that finds its file old.
Begin(s) ==
    /\ step[s] = "idle" /\ flushes < MaxFlushes /\ flushes' = flushes + 1
    /\ \/ /\ ~writer[s].isOpen \/ ShouldRotate(s)
          /\ Go(s, "open") /\ writer' = [writer EXCEPT ![s].next = "write"]
       \/ /\ writer[s].isOpen /\ ~ShouldRotate(s)
          /\ Go(s, "write") /\ UNCHANGED writer
       \/ /\ writer[s].isOpen /\ Aged(s)
          /\ Go(s, "open") /\ writer' = [writer EXCEPT ![s].next = "idle"]
    /\ UNCHANGED <<now, dir, openFiles, scan, failures>>

\* CaptureLogWriter.open closes one file and creates the other or empties it.
Open(s) ==
    /\ step[s] = "open"
    /\ LET path == Name(now, s) IN
       /\ dir' = [f \in DOMAIN dir \cup {path} |->
                    IF f = path THEN [size |-> 0, at |-> now] ELSE dir[f]]
       /\ writer' = [writer EXCEPT ![s] =
                       [@ EXCEPT !.path = path, !.isOpen = TRUE, !.bytes = 0]]
       /\ Go(s, "opened")
    /\ UNCHANGED <<now, openFiles, scan, flushes, failures>>

\* It fails with the old file closed: what was drained is lost, and the
\* next flush tries again.
OpenFails(s) ==
    /\ step[s] = "open" /\ failures < MaxFailures /\ failures' = failures + 1
    /\ writer' = [writer EXCEPT ![s].isOpen = FALSE] /\ Go(s, "idle")
    /\ UNCHANGED <<now, dir, openFiles, scan, flushes>>

\* Mutant: the shard's last file stays registered.
RegisterKeepsPrevious(s) ==
    /\ step[s] = "opened"
    /\ openFiles' = openFiles \cup {writer[s].path}
    /\ writer' = [writer EXCEPT ![s].openedAt = now]
    /\ Go(s, IF MaxTotal > 0 THEN "list" ELSE writer[s].next)
    /\ UNCHANGED <<now, dir, scan, flushes, failures>>

\* fileOpened, which also takes the shard's last file out, and the age.
Register(s) ==
    /\ step[s] = "opened"
    /\ openFiles' = {f \in openFiles : f.shard # s} \cup {writer[s].path}
    /\ writer' = [writer EXCEPT ![s].openedAt = now]
    /\ Go(s, IF MaxTotal > 0 THEN "list" ELSE writer[s].next)
    /\ UNCHANGED <<now, dir, scan, flushes, failures>>

Write(s) ==
    /\ step[s] = "write"
    /\ LET path == writer[s].path IN
       dir' = IF path \in DOMAIN dir
              THEN [dir EXCEPT ![path] = [size |-> @.size + 1, at |-> now]]
              ELSE dir                     \* into a file that has no name
    /\ writer' = [writer EXCEPT ![s].bytes = @ + 1]
    /\ Go(s, "idle")
    /\ UNCHANGED <<now, openFiles, scan, flushes, failures>>

-----------------------------------------------------------------------------
(* pruneOldFiles *)

\* Mutant: a shard looks at its own files only.
ListOwnFiles(s) ==
    /\ step[s] = "list"
    /\ LET caps == {f \in DOMAIN dir \ openFiles : f.shard = s} IN
       /\ seen' = [seen EXCEPT ![s] = [f \in caps |-> dir[f].at]]
       /\ unsized' = [unsized EXCEPT ![s] = caps]
    /\ total' = [total EXCEPT ![s] = 0]
    /\ Go(s, "size")
    /\ UNCHANGED <<now, dir, openFiles, writer, flushes, failures>>

List(s) ==
    /\ step[s] = "list"
    /\ seen' = [seen EXCEPT ![s] = [f \in DOMAIN dir \ openFiles |-> dir[f].at]]
    /\ unsized' = [unsized EXCEPT ![s] = DOMAIN dir \ openFiles]
    /\ total' = [total EXCEPT ![s] = 0]
    /\ Go(s, "size")
    /\ UNCHANGED <<now, dir, openFiles, writer, flushes, failures>>

SizeOf(f) == IF f \in DOMAIN dir THEN dir[f].size ELSE 0

\* One call of sizeOf.
Size(s) ==
    /\ step[s] = "size"
    /\ IF unsized[s] = {}
       THEN Go(s, "prune") /\ UNCHANGED scan
       ELSE /\ \E f \in unsized[s] :
                 /\ unsized' = [unsized EXCEPT ![s] = @ \ {f}]
                 /\ total' = [total EXCEPT ![s] = @ + SizeOf(f)]
            /\ UNCHANGED <<seen, step>>
    /\ UNCHANGED <<now, dir, openFiles, writer, flushes, failures>>

Oldest(s) == {f \in DOMAIN seen[s] : \A g \in DOMAIN seen[s] : seen[s][f] <= seen[s][g]}

\* One turn of the loop: a file that is gone already is passed over.
Prune(s) ==
    /\ step[s] = "prune" /\ total[s] > MaxTotal
    /\ \E f \in Oldest(s) :
         /\ seen' = [seen EXCEPT ![s] = Restrict(@, DOMAIN @ \ {f})]
         /\ dir' = Restrict(dir, DOMAIN dir \ {f})
         /\ total' = [total EXCEPT ![s] = @ - SizeOf(f)]
    /\ UNCHANGED <<now, openFiles, writer, step, unsized, flushes, failures>>

Pruned(s) ==
    /\ step[s] = "prune"
    /\ total[s] <= MaxTotal \/ seen[s] = <<>>
    /\ Go(s, writer[s].next)
    /\ seen' = [seen EXCEPT ![s] = <<>>] /\ total' = [total EXCEPT ![s] = 0]
    /\ UNCHANGED <<now, dir, openFiles, writer, unsized, flushes, failures>>

Tick ==
    /\ now < MaxTime /\ now' = now + 1
    /\ UNCHANGED <<dir, openFiles, writer, step, scan, flushes, failures>>

Shard(s) ==
    \/ Begin(s) \/ Open(s) \/ OpenFails(s) \/ Register(s) \/ Write(s)
    \/ List(s) \/ Size(s) \/ Prune(s) \/ Pruned(s)

Next == Tick \/ \E s \in Shards : Shard(s)
Spec == Init /\ [][Next]_vars

-----------------------------------------------------------------------------
(* Properties *)

TypeOK ==
    /\ now \in 0 .. MaxTime
    /\ \A f \in DOMAIN dir : dir[f] \in [size : Nat, at : Int]
    /\ \A f \in openFiles : f.shard \in Shards /\ f.sec \in 0 .. MaxTime
    /\ \A f, g \in openFiles : f.shard = g.shard => f = g
    /\ \A s \in Shards : writer[s].path \in {None} \cup {Name(t, s) : t \in 0 .. MaxTime}
    /\ step \in [Shards -> {"idle", "open", "opened", "list", "size", "prune", "write"}]
    /\ \A s \in Shards : unsized[s] \subseteq DOMAIN seen[s] /\ total[s] \in Int

\* Whatever the other shards close and delete meanwhile: once nobody is about
\* to prune, the files that are no longer written to fit the budget
\* (WriterTask 213-220).
BudgetKept ==
    MaxTotal > 0 /\ openFiles # {} /\ (\A s \in Shards : step[s] \notin {"list", "size", "prune"})
        => Bytes(DOMAIN dir \ openFiles) <= MaxTotal
=============================================================================
