--------------------------- MODULE RetentionProofs ---------------------------
(***************************************************************************)
(* Proofs about Retention, for any number of shards, any budget and any    *)
(* clock.  The budget is kept although no shard knows what the others      *)
(* close and delete while it measures and prunes: of the shards still at   *)
(* it, the one that listed the directory last has seen every file that     *)
(* counts.                                                                 *)
(***************************************************************************)
EXTENDS Retention, SumLemmas

(* The inductive invariant *)

Closed == DOMAIN dir \ openFiles

DirTyped ==
    /\ IsFiniteSet(DOMAIN dir) /\ dir = [f \in DOMAIN dir |-> dir[f]]
    /\ \A f \in DOMAIN dir : dir[f] \in [size : Nat, at : Int]

OpenTyped ==
    /\ \A f \in openFiles : f.shard \in Shards /\ f.sec \in 0 .. MaxTime
    /\ \A f, g \in openFiles : f.shard = g.shard => f = g

Paths(s) == {None} \cup {Name(t, s) : t \in 0 .. MaxTime}
Writer(s) == [path : Paths(s), isOpen : BOOLEAN, bytes : Nat, openedAt : 0 .. MaxTime,
              next : {"idle", "write"}]
WriterTyped == writer = [s \in Shards |-> writer[s]] /\ \A s \in Shards : writer[s] \in Writer(s)

StepTyped ==
    /\ now \in 0 .. MaxTime
    /\ step \in [Shards -> {"idle", "open", "opened", "list", "size", "prune", "write"}]

ScanTyped ==
    /\ seen = [s \in Shards |-> seen[s]]
    /\ unsized = [s \in Shards |-> unsized[s]]
    /\ total = [s \in Shards |-> total[s]]
    /\ \A s \in Shards : unsized[s] \subseteq DOMAIN seen[s] /\ total[s] \in Int
    /\ \A s \in Shards : step[s] = "prune" => unsized[s] = {}

\* The file a shard writes is registered, but for the moment it is opened in.
Registered ==
    \A s \in Shards :
      /\ step[s] \notin {"idle", "open"} => writer[s].isOpen
      /\ writer[s].isOpen => writer[s].path \in {Name(t, s) : t \in 0 .. MaxTime}
      /\ writer[s].isOpen /\ step[s] # "opened" => writer[s].path \in openFiles

\* The listing of s holds every closed file that has something in it and none
\* that is open, and those it has measured are no more than their sum.
Covers(s) ==
    /\ step[s] \in {"size", "prune"}
    /\ DOMAIN seen[s] \cap openFiles = {}
    /\ \A f \in Closed : dir[f].size > 0 => f \in DOMAIN seen[s]
    /\ Bytes(Closed \ unsized[s]) <= total[s]

Covered ==
    MaxTotal > 0 /\ openFiles # {} /\ (\A s \in Shards : step[s] # "list") =>
      Bytes(Closed) <= MaxTotal \/ \E s \in Shards : Covers(s)

Types == DirTyped /\ OpenTyped /\ WriterTyped /\ StepTyped /\ ScanTyped
IInv == Types /\ Registered /\ Covered

----------------------------------------------------------------------------
(* Sizes                                                                    *)

\* Of other files, or of the same ones that are no larger, the bytes are no more.
LEMMA BytesNoMore ==
  ASSUME NEW F, IsFiniteSet(F), \A f \in F : dir[f].size \in Nat,
         NEW E, IsFiniteSet(E),
         \A f \in E : /\ dir'[f].size \in Nat
                      /\ dir'[f].size = 0 \/ (f \in F /\ dir'[f].size <= dir[f].size)
  PROVE  /\ SumFunctionOnSet([f \in E |-> dir'[f].size], E) <= Bytes(F)
         /\ SumFunctionOnSet([f \in E |-> dir'[f].size], E) \in Nat
<1>. DEFINE was == [f \in F |-> dir[f].size]
            is == [f \in E |-> dir'[f].size]
<1>1. /\ \A f \in F : was[f] \in Nat
      /\ \A f \in E : is[f] \in Nat /\ (is[f] = 0 \/ (f \in F /\ is[f] <= was[f]))
  OBVIOUS
<1>2. SumFunctionOnSet(is, E) <= SumFunctionOnSet(was, F) /\ SumFunctionOnSet(is, E) \in Nat
  <2>. HIDE DEF was, is
  <2>. QED BY <1>1, SumMonotone, SumNat
<1>. QED BY <1>2 DEF Bytes

\* One file taken apart.
LEMMA BytesWithout ==
  ASSUME NEW F, IsFiniteSet(F), \A f \in F : dir[f].size \in Nat, NEW x \in F
  PROVE  Bytes(F) = Bytes(F \ {x}) + dir[x].size /\ Bytes(F \ {x}) \in Nat
<1>. DEFINE all == [f \in F |-> dir[f].size]
            rest == [f \in F \ {x} |-> dir[f].size]
<1>1. /\ \A f \in F : all[f] \in Nat
      /\ \A f \in F \ {x} : rest[f] \in Nat /\ all[f] = rest[f]
      /\ all[x] = dir[x].size
  OBVIOUS
<1>2. /\ SumFunctionOnSet(all, F) = SumFunctionOnSet(all, F \ {x}) + all[x]
      /\ SumFunctionOnSet(all, F \ {x}) \in Nat
  <2>. HIDE DEF all
  <2>. QED BY <1>1, SumRemove
<1>3. SumFunctionOnSet(all, F \ {x}) = SumFunctionOnSet(rest, F \ {x})
  <2>1. IsFiniteSet(F \ {x})
    BY FS_Subset
  <2>. HIDE DEF all, rest
  <2>. QED BY <1>1, <2>1, SumSame
<1>. QED BY <1>1, <1>2, <1>3 DEF Bytes

\* Bytes are a natural number, and those of files with nothing in them are 0.
LEMMA BytesNat ==
  ASSUME NEW F, IsFiniteSet(F), \A f \in F : dir[f].size \in Nat
  PROVE  Bytes(F) \in Nat /\ ((\A f \in F : dir[f].size = 0) => Bytes(F) = 0)
<1>. DEFINE all == [f \in F |-> dir[f].size]
<1>1. \A f \in F : all[f] \in Nat /\ (dir[f].size = 0 => all[f] = 0)
  OBVIOUS
<1>2. /\ SumFunctionOnSet(all, F) \in Nat
      /\ (\A f \in F : all[f] = 0) => SumFunctionOnSet(all, F) = 0
  <2>. HIDE DEF all
  <2>. QED BY <1>1, SumNat, SumZero
<1>. QED BY <1>2 DEF Bytes

\* The directory is finite and what is in it has a size.
LEMMA Sized ==
  ASSUME DirTyped
  PROVE  /\ IsFiniteSet(DOMAIN dir) /\ \A f \in DOMAIN dir : dir[f].size \in Nat
         /\ \A F \in SUBSET DOMAIN dir : IsFiniteSet(F)
BY FS_Subset DEF DirTyped

\* The same said of the next state.
LEMMA SizedNext ==
  ASSUME DirTyped'
  PROVE  /\ IsFiniteSet(DOMAIN dir') /\ \A f \in DOMAIN dir' : dir'[f].size \in Nat
         /\ \A F \in SUBSET DOMAIN dir' : IsFiniteSet(F)
BY FS_Subset DEF DirTyped

----------------------------------------------------------------------------
(* Types                                                                    *)

\* They include what is checked.
LEMMA TypesTypeOK ==
  ASSUME Types
  PROVE  TypeOK
BY DEF Types, TypeOK, DirTyped, OpenTyped, WriterTyped, StepTyped, ScanTyped, Writer, Paths

\* The state starts with the types it is to keep.
LEMMA InitTypes ==
  ASSUME Init
  PROVE  Types
<1>1. PICK old \in SUBSET OldFiles :
        dir = [f \in {Name(-n, 0) : n \in old} |-> [size |-> -f.sec, at |-> f.sec]]
  BY DEF Init
<1>2. IsFiniteSet({Name(-n, 0) : n \in old})
  <2>1. IsFiniteSet(old)
    BY RetentionAssumption, FS_Subset
  <2>. DEFINE names == {Name(-n, 0) : n \in old}
              name == [n \in old |-> Name(-n, 0)]
  <2>2. name \in Surjection(old, names)
    BY DEF Surjection
  <2>. HIDE DEF names, name
  <2>3. IsFiniteSet(names)
    BY <2>1, <2>2, FS_Surjection
  <2>. QED BY <2>3 DEF names
<1>3. DirTyped
  <2>1. \A n \in old : n \in Nat /\ Name(-n, 0).sec = -n
    BY RetentionAssumption DEF Name
  <2>2. \A f \in DOMAIN dir : dir[f] \in [size : Nat, at : Int]
    BY <1>1, <2>1
  <2>. QED BY <1>1, <1>2, <2>2 DEF DirTyped
<1>4. OpenTyped
  BY DEF Init, OpenTyped
<1>5. WriterTyped
  BY RetentionAssumption DEF Init, WriterTyped, NoWriter, Writer, Paths
<1>6. StepTyped
  BY RetentionAssumption DEF Init, StepTyped
<1>7. ScanTyped
  BY DEF Init, ScanTyped
<1>. QED BY <1>3, <1>4, <1>5, <1>6, <1>7 DEF Types

\* What leaves a variable alone leaves its type alone.
LEMMA TypesUnchanged ==
  ASSUME Types
  PROVE  /\ UNCHANGED dir => DirTyped'
         /\ UNCHANGED openFiles => OpenTyped'
         /\ UNCHANGED writer => WriterTyped'
         /\ UNCHANGED <<now, step>> => StepTyped'
         /\ UNCHANGED <<scan, step>> => ScanTyped'
<1>1. UNCHANGED dir => DirTyped'
  BY DEF Types, DirTyped
<1>2. UNCHANGED openFiles => OpenTyped'
  BY DEF Types, OpenTyped
<1>3. UNCHANGED writer => WriterTyped'
  BY DEF Types, WriterTyped
<1>4. UNCHANGED <<now, step>> => StepTyped'
  BY DEF Types, StepTyped
<1>5. UNCHANGED <<scan, step>> => ScanTyped'
  BY DEF Types, ScanTyped, scan
<1>. QED BY <1>1, <1>2, <1>3, <1>4, <1>5

\* A shard that goes on to where it measures nothing.
LEMMA GoTypes ==
  ASSUME Types, NEW s \in Shards, UNCHANGED <<now, scan>>,
         NEW to \in {"idle", "open", "opened", "list", "write"}, Go(s, to)
  PROVE  StepTyped' /\ ScanTyped'
<1>1. StepTyped'
  BY DEF Types, StepTyped, Go
<1>2. \A r \in Shards : step'[r] = "prune" => step[r] = "prune"
  BY DEF Types, StepTyped, Go
<1>3. ScanTyped'
  BY <1>2 DEF Types, ScanTyped, scan
<1>. QED BY <1>1, <1>3

\* A shard's new listing, and what it has measured of it.
LEMMA ScanTypes ==
  ASSUME Types, NEW s \in Shards, NEW listing, NEW left \in SUBSET DOMAIN listing, NEW sum \in Int,
         seen' = [seen EXCEPT ![s] = listing], unsized' = [unsized EXCEPT ![s] = left],
         total' = [total EXCEPT ![s] = sum],
         \A r \in Shards \ {s} : step'[r] = step[r],
         step'[s] = "prune" => left = {}
  PROVE  ScanTyped'
<1>1. /\ seen' = [r \in Shards |-> seen'[r]] /\ unsized' = [r \in Shards |-> unsized'[r]]
      /\ total' = [r \in Shards |-> total'[r]]
  BY DEF Types, ScanTyped
<1>2. /\ seen'[s] = listing /\ unsized'[s] = left /\ total'[s] = sum
      /\ \A r \in Shards \ {s} :
           /\ seen'[r] = seen[r] /\ unsized'[r] = unsized[r] /\ total'[r] = total[r]
  BY DEF Types, ScanTyped
<1>. QED BY <1>1, <1>2 DEF Types, ScanTyped

\* A shard's step keeps the types.
LEMMA ShardTypes ==
  ASSUME Types, Registered, NEW s \in Shards, Shard(s)
  PROVE  Types'
<1>0. /\ writer[s] \in Writer(s) /\ now \in 0 .. MaxTime
      /\ writer = [r \in Shards |-> writer[r]] /\ \A r \in Shards : writer[r] \in Writer(r)
  BY DEF Types, WriterTyped, StepTyped
<1>w. ASSUME NEW w \in Writer(s), writer' = [writer EXCEPT ![s] = w]
      PROVE  WriterTyped'
  BY <1>0, <1>w DEF WriterTyped
<1>1. CASE Begin(s)
  <2>1. WriterTyped'
    <3>1. UNCHANGED writer
          \/ \E n \in {"idle", "write"} : writer' = [writer EXCEPT ![s] = [@ EXCEPT !.next = n]]
      BY <1>1 DEF Begin
    <3>2. \A n \in {"idle", "write"} : [writer[s] EXCEPT !.next = n] \in Writer(s)
      BY <1>0 DEF Writer
    <3>. QED BY <1>w, <3>1, <3>2, TypesUnchanged
  <2>2. StepTyped' /\ ScanTyped'
    BY <1>1, GoTypes DEF Begin
  <2>3. DirTyped' /\ OpenTyped'
    BY <1>1, TypesUnchanged DEF Begin
  <2>. QED BY <2>1, <2>2, <2>3 DEF Types
<1>2. CASE Open(s)
  <2>1. DirTyped'
    <3>. DEFINE path == Name(now, s)
    <3>1. dir' = [f \in DOMAIN dir \cup {path} |->
                    IF f = path THEN [size |-> 0, at |-> now] ELSE dir[f]]
      BY <1>2 DEF Open
    <3>. HIDE DEF path
    <3>2. IsFiniteSet(DOMAIN dir \cup {path})
      BY FS_AddElement DEF Types, DirTyped
    <3>3. [size |-> 0, at |-> now] \in [size : Nat, at : Int]
      BY <1>0, RetentionAssumption
    <3>. QED BY <3>1, <3>2, <3>3 DEF Types, DirTyped
  <2>2. WriterTyped'
    <3>. DEFINE w == [writer[s] EXCEPT !.path = Name(now, s), !.isOpen = TRUE, !.bytes = 0]
    <3>1. writer' = [writer EXCEPT ![s] = w]
      BY <1>2 DEF Open
    <3>2. w \in Writer(s)
      BY <1>0 DEF Writer, Paths
    <3>. HIDE DEF w
    <3>. QED BY <1>w, <3>1, <3>2
  <2>3. StepTyped' /\ ScanTyped'
    BY <1>2, GoTypes DEF Open
  <2>4. OpenTyped'
    BY <1>2, TypesUnchanged DEF Open
  <2>. QED BY <2>1, <2>2, <2>3, <2>4 DEF Types
<1>3. CASE OpenFails(s)
  <2>1. WriterTyped'
    <3>1. writer' = [writer EXCEPT ![s] = [@ EXCEPT !.isOpen = FALSE]]
      BY <1>3 DEF OpenFails
    <3>2. [writer[s] EXCEPT !.isOpen = FALSE] \in Writer(s)
      BY <1>0 DEF Writer
    <3>. QED BY <1>w, <3>1, <3>2
  <2>2. StepTyped' /\ ScanTyped'
    BY <1>3, GoTypes DEF OpenFails
  <2>3. DirTyped' /\ OpenTyped'
    BY <1>3, TypesUnchanged DEF OpenFails
  <2>. QED BY <2>1, <2>2, <2>3 DEF Types
<1>4. CASE Register(s)
  <2>1. WriterTyped'
    <3>1. writer' = [writer EXCEPT ![s] = [@ EXCEPT !.openedAt = now]]
      BY <1>4 DEF Register
    <3>2. [writer[s] EXCEPT !.openedAt = now] \in Writer(s)
      BY <1>0 DEF Writer
    <3>. QED BY <1>w, <3>1, <3>2
  <2>2. OpenTyped'
    <3>1. openFiles' = {f \in openFiles : f.shard # s} \cup {writer[s].path}
      BY <1>4 DEF Register
    <3>2. writer[s].path \in {Name(t, s) : t \in 0 .. MaxTime}
      BY <1>4 DEF Register, Registered
    <3>3. writer[s].path.shard = s /\ writer[s].path.sec \in 0 .. MaxTime
      BY <3>2 DEF Name
    <3>. QED BY <3>1, <3>3 DEF Types, OpenTyped
  <2>3. StepTyped' /\ ScanTyped'
    <3>1. writer[s].next \in {"idle", "write"}
      BY <1>0 DEF Writer
    <3>. QED BY <1>4, <3>1, GoTypes DEF Register
  <2>4. DirTyped'
    BY <1>4, TypesUnchanged DEF Register
  <2>. QED BY <2>1, <2>2, <2>3, <2>4 DEF Types
<1>5. CASE Write(s)
  <2>1. DirTyped'
    <3>. DEFINE path == writer[s].path
    <3>1. \/ /\ path \in DOMAIN dir
             /\ dir' = [dir EXCEPT ![path] = [size |-> @.size + 1, at |-> now]]
          \/ UNCHANGED dir
      BY <1>5 DEF Write
    <3>2. CASE UNCHANGED dir
      BY <3>2, TypesUnchanged
    <3>3. CASE path \in DOMAIN dir /\ dir' = [dir EXCEPT ![path] = [size |-> @.size + 1, at |-> now]]
      <4>1. [size |-> dir[path].size + 1, at |-> now] \in [size : Nat, at : Int]
        BY <1>0, <3>3, RetentionAssumption DEF Types, DirTyped
      <4>2. DOMAIN dir' = DOMAIN dir /\ dir' = [f \in DOMAIN dir' |-> dir'[f]]
        BY <3>3 DEF Types, DirTyped
      <4>. QED BY <3>3, <4>1, <4>2 DEF Types, DirTyped
    <3>. QED BY <3>1, <3>2, <3>3
  <2>2. WriterTyped'
    <3>. DEFINE w == [writer[s] EXCEPT !.bytes = writer[s].bytes + 1]
    <3>1. writer[s].bytes \in Nat /\ w \in Writer(s)
      BY <1>0 DEF Writer
    <3>2. writer' = [writer EXCEPT ![s] = w]
      BY <1>0, <1>5 DEF Write, Writer
    <3>. HIDE DEF w
    <3>. QED BY <1>w, <3>1, <3>2
  <2>3. StepTyped' /\ ScanTyped'
    BY <1>5, GoTypes DEF Write
  <2>4. OpenTyped'
    BY <1>5, TypesUnchanged DEF Write
  <2>. QED BY <2>1, <2>2, <2>3, <2>4 DEF Types
<1>6. CASE List(s)
  <2>1. StepTyped' /\ step'[s] = "size" /\ \A r \in Shards \ {s} : step'[r] = step[r]
    BY <1>6 DEF Types, StepTyped, List, Go
  <2>2. ScanTyped'
    <3>. DEFINE listing == [f \in DOMAIN dir \ openFiles |-> dir[f].at]
                left == DOMAIN dir \ openFiles
    <3>1. /\ seen' = [seen EXCEPT ![s] = listing] /\ total' = [total EXCEPT ![s] = 0]
          /\ unsized' = [unsized EXCEPT ![s] = left]
      BY <1>6 DEF List
    <3>2. left \in SUBSET DOMAIN listing /\ 0 \in Int
      OBVIOUS
    <3>3. step'[s] # "prune"
      BY <2>1
    <3>. HIDE DEF listing, left
    <3>. QED BY <2>1, <3>1, <3>2, <3>3, ScanTypes
  <2>3. DirTyped' /\ OpenTyped' /\ WriterTyped'
    BY <1>6, TypesUnchanged DEF List
  <2>. QED BY <2>1, <2>2, <2>3 DEF Types
<1>7. CASE Size(s)
  <2>1. DirTyped' /\ OpenTyped' /\ WriterTyped'
    BY <1>7, TypesUnchanged DEF Size
  <2>2. \A f : SizeOf(f) \in Nat
    BY DEF SizeOf, Types, DirTyped
  <2>3. StepTyped'
    BY <1>7 DEF Types, StepTyped, Size, Go
  <2>4. CASE unsized[s] = {}
    <3>1. Go(s, "prune") /\ UNCHANGED scan
      BY <1>7, <2>4 DEF Size
    <3>2. \A r \in Shards : step'[r] = "prune" => r = s \/ step[r] = "prune"
      BY <3>1 DEF Types, StepTyped, Go
    <3>3. ScanTyped'
      BY <2>4, <3>1, <3>2 DEF Types, ScanTyped, scan
    <3>. QED BY <2>1, <2>3, <3>3 DEF Types
  <2>5. CASE unsized[s] # {}
    <3>1. PICK f \in unsized[s] :
            /\ unsized' = [unsized EXCEPT ![s] = @ \ {f}]
            /\ total' = [total EXCEPT ![s] = @ + SizeOf(f)]
      BY <1>7, <2>5 DEF Size
    <3>2. UNCHANGED <<seen, step>>
      BY <1>7, <2>5 DEF Size
    <3>3. /\ seen' = [seen EXCEPT ![s] = seen[s]]
          /\ unsized' = [unsized EXCEPT ![s] = unsized[s] \ {f}]
          /\ total' = [total EXCEPT ![s] = total[s] + SizeOf(f)]
      BY <3>1, <3>2 DEF Types, ScanTyped
    <3>4. /\ unsized[s] \ {f} \in SUBSET DOMAIN seen[s] /\ total[s] + SizeOf(f) \in Int
          /\ step'[s] = "size" /\ \A r \in Shards : step'[r] = step[r]
      BY <1>7, <2>2, <3>2 DEF Types, ScanTyped, Size
    <3>5. ScanTyped'
      BY <3>3, <3>4, ScanTypes
    <3>. QED BY <2>1, <2>3, <3>5 DEF Types
  <2>. QED BY <2>4, <2>5
<1>8. CASE Prune(s)
  <2>1. PICK f \in Oldest(s) :
          /\ seen' = [seen EXCEPT ![s] = Restrict(@, DOMAIN @ \ {f})]
          /\ dir' = Restrict(dir, DOMAIN dir \ {f})
          /\ total' = [total EXCEPT ![s] = @ - SizeOf(f)]
    BY <1>8 DEF Prune
  <2>2. DirTyped'
    <3>1. dir' = [g \in DOMAIN dir \ {f} |-> dir[g]]
      BY <2>1 DEF Restrict
    <3>2. IsFiniteSet(DOMAIN dir \ {f})
      BY Sized DEF Types
    <3>. QED BY <3>1, <3>2 DEF Types, DirTyped
  <2>3. ScanTyped'
    <3>1. SizeOf(f) \in Nat
      BY DEF SizeOf, Types, DirTyped
    <3>2. unsized[s] = {} /\ UNCHANGED <<unsized, step>>
      BY <1>8 DEF Types, ScanTyped, Prune
    <3>. DEFINE listing == [g \in DOMAIN seen[s] \ {f} |-> seen[s][g]]
    <3>3. /\ seen' = [seen EXCEPT ![s] = listing]
          /\ unsized' = [unsized EXCEPT ![s] = {}]
          /\ total' = [total EXCEPT ![s] = total[s] - SizeOf(f)]
      BY <2>1, <3>2 DEF Types, ScanTyped, Restrict
    <3>4. total[s] - SizeOf(f) \in Int /\ {} \in SUBSET DOMAIN listing
      BY <3>1 DEF Types, ScanTyped
    <3>. HIDE DEF listing
    <3>. QED BY <3>2, <3>3, <3>4, ScanTypes
  <2>4. OpenTyped' /\ WriterTyped' /\ StepTyped'
    BY <1>8, TypesUnchanged DEF Prune
  <2>. QED BY <2>2, <2>3, <2>4 DEF Types
<1>9. CASE Pruned(s)
  <2>1. DirTyped' /\ OpenTyped' /\ WriterTyped'
    BY <1>9, TypesUnchanged DEF Pruned
  <2>2. writer[s].next \in {"idle", "write"}
    BY <1>0 DEF Writer
  <2>3. StepTyped'
    BY <1>9, <2>2 DEF Types, StepTyped, Pruned, Go
  <2>4. unsized[s] = {}
    BY <1>9 DEF Types, ScanTyped, Pruned
  <2>5. \A r \in Shards \ {s} : step'[r] = step[r]
    BY <1>9 DEF Types, StepTyped, Pruned, Go
  <2>6. ScanTyped'
    <3>. DEFINE listing == <<>>
    <3>1. /\ seen' = [seen EXCEPT ![s] = listing] /\ total' = [total EXCEPT ![s] = 0]
          /\ unsized' = [unsized EXCEPT ![s] = {}]
      BY <1>9, <2>4 DEF Types, ScanTyped, Pruned
    <3>2. {} \in SUBSET DOMAIN listing /\ 0 \in Int
      OBVIOUS
    <3>. HIDE DEF listing
    <3>. QED BY <2>5, <3>1, <3>2, ScanTypes
  <2>. QED BY <2>1, <2>3, <2>6 DEF Types
<1>. QED BY <1>1, <1>2, <1>3, <1>4, <1>5, <1>6, <1>7, <1>8, <1>9 DEF Shard

----------------------------------------------------------------------------
(* Who holds which file                                                     *)

\* What Registered says of one shard.
Holds(s) ==
    /\ step[s] \notin {"idle", "open"} => writer[s].isOpen
    /\ writer[s].isOpen => writer[s].path \in {Name(t, s) : t \in 0 .. MaxTime}
    /\ writer[s].isOpen /\ step[s] # "opened" => writer[s].path \in openFiles

\* A shard's step keeps its file registered, and those of the others.
LEMMA ShardRegistered ==
  ASSUME Types, Registered, NEW s \in Shards, Shard(s)
  PROVE  Registered'
<1>0. /\ writer[s] \in Writer(s) /\ now \in 0 .. MaxTime
      /\ writer = [r \in Shards |-> writer[r]] /\ DOMAIN step = Shards
      /\ \A r \in Shards : Holds(r)
  BY DEF Types, WriterTyped, StepTyped, Registered, Holds
<1>1. ASSUME NEW r \in Shards \ {s}
      PROVE  Holds(r)'
  <2>1. writer'[r] = writer[r]
    BY <1>0 DEF Shard, Begin, Open, OpenFails, Register, Write, List, Size, Prune, Pruned
  <2>2. step'[r] = step[r]
    BY <1>0 DEF Shard, Begin, Open, OpenFails, Register, Write, List, Size, Prune, Pruned, Go
  <2>3. \A f \in openFiles : f.shard # s => f \in openFiles'
    BY DEF Shard, Begin, Open, OpenFails, Register, Write, List, Size, Prune, Pruned
  <2>4. writer[r].isOpen => writer[r].path.shard = r
    BY <1>0 DEF Holds, Name
  <2>. QED BY <1>0, <2>1, <2>2, <2>3, <2>4 DEF Holds
<1>2. Holds(s)'
  <2>0. /\ DOMAIN writer[s] = {"path", "isOpen", "bytes", "openedAt", "next"}
        /\ writer[s] = [writer[s] EXCEPT !.next = writer[s].next]
    BY <1>0 DEF Writer
  <2>1. CASE Begin(s)
    BY <1>0, <2>0, <2>1 DEF Begin, Holds, Go
  <2>2. CASE Open(s)
    <3>1. step'[s] = "opened" /\ writer'[s].path = Name(now, s) /\ writer'[s].isOpen = TRUE
      BY <1>0, <2>0, <2>2 DEF Open, Go
    <3>. QED BY <1>0, <3>1 DEF Holds
  <2>3. CASE OpenFails(s)
    <3>1. step'[s] = "idle" /\ writer'[s].isOpen = FALSE
      BY <1>0, <2>0, <2>3 DEF OpenFails, Go
    <3>. QED BY <3>1 DEF Holds
  <2>4. CASE Register(s)
    <3>1. /\ writer'[s].path = writer[s].path /\ writer'[s].isOpen = writer[s].isOpen
          /\ writer[s].path \in openFiles' /\ step[s] = "opened"
      BY <1>0, <2>0, <2>4 DEF Register
    <3>. QED BY <1>0, <3>1 DEF Holds
  <2>5. CASE Write(s)
    <3>1. /\ writer'[s].path = writer[s].path /\ writer'[s].isOpen = writer[s].isOpen
          /\ UNCHANGED openFiles /\ step[s] = "write"
      BY <1>0, <2>0, <2>5 DEF Write
    <3>. QED BY <1>0, <3>1 DEF Holds
  <2>6. CASE List(s) \/ Size(s) \/ Prune(s) \/ Pruned(s)
    <3>1. UNCHANGED <<writer, openFiles>> /\ step[s] \in {"list", "size", "prune"}
      BY <2>6 DEF List, Size, Prune, Pruned
    <3>. QED BY <1>0, <3>1 DEF Holds
  <2>. QED BY <2>1, <2>2, <2>3, <2>4, <2>5, <2>6 DEF Shard
<1>. QED BY <1>1, <1>2 DEF Registered, Holds

----------------------------------------------------------------------------
(* The budget                                                               *)

\* A step that leaves the registry alone and adds nothing to a closed file
\* keeps the closed files' bytes, and leaves each other shard's listing as good
\* as it was.
LEMMA NothingAdded ==
  ASSUME Types, DirTyped', UNCHANGED openFiles,
         \A f \in Closed' : dir'[f].size = 0 \/ (f \in Closed /\ dir'[f].size <= dir[f].size)
  PROVE  /\ Bytes(Closed)' <= Bytes(Closed)
         /\ Bytes(Closed)' \in Nat /\ Bytes(Closed) \in Nat
         /\ \A s \in Shards : Covers(s) /\ step'[s] = step[s] /\ seen'[s] = seen[s]
                               /\ unsized'[s] = unsized[s] /\ total'[s] = total[s] => Covers(s)'
<1>1. /\ \A F \in SUBSET DOMAIN dir : IsFiniteSet(F) /\ \A f \in F : dir[f].size \in Nat
      /\ \A F \in SUBSET DOMAIN dir' : IsFiniteSet(F) /\ \A f \in F : dir'[f].size \in Nat
  BY Sized, SizedNext DEF Types
<1>2. ASSUME NEW left
      PROVE  /\ SumFunctionOnSet([f \in Closed' \ left |-> dir'[f].size], Closed' \ left)
                  <= Bytes(Closed \ left)
             /\ SumFunctionOnSet([f \in Closed' \ left |-> dir'[f].size], Closed' \ left) \in Nat
             /\ Bytes(Closed \ left) \in Nat
  <2>1. Closed \ left \in SUBSET DOMAIN dir /\ Closed' \ left \in SUBSET DOMAIN dir'
    BY DEF Closed
  <2>2. \A f \in Closed' \ left :
          /\ dir'[f].size \in Nat
          /\ dir'[f].size = 0 \/ (f \in Closed \ left /\ dir'[f].size <= dir[f].size)
    BY <1>1, <2>1
  <2>. QED BY <1>1, <2>1, <2>2, BytesNoMore, BytesNat
<1>3. /\ Bytes(Closed)' <= Bytes(Closed)
      /\ Bytes(Closed)' \in Nat /\ Bytes(Closed) \in Nat
  <2>1. Closed \ {} = Closed /\ Closed' \ {} = Closed'
    OBVIOUS
  <2>2. /\ SumFunctionOnSet([f \in Closed' |-> dir'[f].size], Closed') <= Bytes(Closed)
        /\ SumFunctionOnSet([f \in Closed' |-> dir'[f].size], Closed') \in Nat
        /\ Bytes(Closed) \in Nat
    BY <1>2, <2>1
  <2>. QED BY <2>2 DEF Bytes
<1>4. ASSUME NEW s \in Shards, Covers(s), step'[s] = step[s], seen'[s] = seen[s],
             unsized'[s] = unsized[s], total'[s] = total[s]
      PROVE  Covers(s)'
  <2>1. \A f \in Closed' : dir'[f].size > 0 => f \in DOMAIN seen'[s]
    <3>. TAKE f \in Closed'
    <3>1. dir'[f].size \in Nat
      BY <1>1 DEF Closed
    <3>2. f \in Closed => dir[f].size \in Nat
      BY <1>1 DEF Closed
    <3>. QED BY <1>4, <3>1, <3>2 DEF Covers
  <2>2. Bytes(Closed \ unsized[s])' <= total'[s]
    <3>1. SumFunctionOnSet([f \in Closed' \ unsized[s] |-> dir'[f].size], Closed' \ unsized[s])
            <= total[s]
      <4>. DEFINE new == SumFunctionOnSet([f \in Closed' \ unsized[s] |-> dir'[f].size],
                                          Closed' \ unsized[s])
                  old == Bytes(Closed \ unsized[s])
      <4>1. new <= old /\ new \in Nat /\ old \in Nat
        BY <1>2
      <4>2. old <= total[s] /\ total[s] \in Int
        BY <1>4 DEF Covers, Types, ScanTyped
      <4>. HIDE DEF new, old
      <4>3. new <= total[s]
        BY <4>1, <4>2
      <4>. QED BY <4>3 DEF new
    <3>. QED BY <1>4, <3>1 DEF Bytes
  <2>. QED BY <1>4, <2>1, <2>2 DEF Covers
<1>. QED BY <1>3, <1>4

\* The shard that measures another file of its listing still covers.
LEMMA SizeCovers ==
  ASSUME IInv, NEW s \in Shards, Size(s), Covers(s)
  PROVE  Covers(s)'
<1>1. /\ UNCHANGED <<dir, openFiles>> /\ Closed' = Closed
      /\ \A F \in SUBSET DOMAIN dir : IsFiniteSet(F) /\ \A f \in F : dir[f].size \in Nat
  BY Sized DEF IInv, Types, Size, Closed
<1>2. CASE unsized[s] = {}
  BY <1>1, <1>2 DEF Size, Covers, IInv, Types, StepTyped, Bytes, Go, scan
<1>3. CASE unsized[s] # {}
  <2>1. PICK f \in unsized[s] :
          /\ unsized' = [unsized EXCEPT ![s] = @ \ {f}]
          /\ total' = [total EXCEPT ![s] = @ + SizeOf(f)]
    BY <1>3 DEF Size
  <2>2. /\ unsized'[s] = unsized[s] \ {f} /\ total'[s] = total[s] + SizeOf(f)
        /\ UNCHANGED <<seen, step>> /\ total[s] \in Int
    BY <1>3, <2>1 DEF Size, IInv, Types, ScanTyped
  <2>. DEFINE rest == Closed \ (unsized[s] \ {f})
  <2>3. Bytes(rest) <= total[s] + SizeOf(f)
    <3>1. CASE f \in Closed
      <4>1. rest \ {f} = Closed \ unsized[s] /\ f \in rest
        BY <2>1, <3>1
      <4>2. rest \in SUBSET DOMAIN dir /\ f \in DOMAIN dir
        BY <3>1 DEF Closed
      <4>3. Bytes(rest) = Bytes(rest \ {f}) + dir[f].size /\ Bytes(rest \ {f}) \in Nat
        <5>. HIDE DEF rest
        <5>. QED BY <1>1, <4>1, <4>2, BytesWithout
      <4>4. SizeOf(f) = dir[f].size /\ dir[f].size \in Nat
        BY <1>1, <4>2 DEF SizeOf
      <4>5. Bytes(rest \ {f}) <= total[s]
        BY <4>1 DEF Covers
      <4>. HIDE DEF rest
      <4>. QED BY <2>2, <4>3, <4>4, <4>5
    <3>2. CASE f \notin Closed
      <4>1. rest = Closed \ unsized[s]
        BY <3>2
      <4>2. Bytes(Closed \ unsized[s]) <= total[s]
        BY DEF Covers
      <4>3. SizeOf(f) \in Nat
        BY <1>1 DEF SizeOf
      <4>4. Bytes(Closed \ unsized[s]) \in Nat
        <5>1. Closed \ unsized[s] \in SUBSET DOMAIN dir
          BY DEF Closed
        <5>. QED BY <1>1, <5>1, BytesNat
      <4>. HIDE DEF rest
      <4>. QED BY <2>2, <4>1, <4>2, <4>3, <4>4
    <3>. QED BY <3>1, <3>2
  <2>4. Bytes(Closed \ unsized[s])' <= total'[s]
    BY <1>1, <2>2, <2>3 DEF Bytes
  <2>. QED BY <1>1, <2>2, <2>4 DEF Covers
<1>. QED BY <1>2, <1>3

\* The shard that deletes a file of its listing still covers: it takes off what
\* the closed files lose.
LEMMA PruneCovers ==
  ASSUME IInv, DirTyped', NEW s \in Shards, Prune(s), Covers(s)
  PROVE  Covers(s)'
<1>1. \A F \in SUBSET DOMAIN dir : IsFiniteSet(F) /\ \A f \in F : dir[f].size \in Nat
  BY Sized DEF IInv, Types
<1>2. PICK f \in Oldest(s) :
        /\ seen' = [seen EXCEPT ![s] = Restrict(@, DOMAIN @ \ {f})]
        /\ dir' = Restrict(dir, DOMAIN dir \ {f})
        /\ total' = [total EXCEPT ![s] = @ - SizeOf(f)]
  BY DEF Prune
<1>3. /\ DOMAIN seen'[s] = DOMAIN seen[s] \ {f} /\ total'[s] = total[s] - SizeOf(f)
      /\ UNCHANGED <<openFiles, unsized, step>> /\ total[s] \in Int
      /\ unsized[s] = {} /\ f \in DOMAIN seen[s] /\ f \notin openFiles
  BY <1>2 DEF Prune, Oldest, Restrict, IInv, Types, ScanTyped, Covers
<1>4. /\ DOMAIN dir' = DOMAIN dir \ {f} /\ \A g \in DOMAIN dir \ {f} : dir'[g] = dir[g]
      /\ Closed' = Closed \ {f}
  BY <1>2, <1>3 DEF Restrict, Closed
<1>5. Bytes(Closed \ {f}) <= total[s] - SizeOf(f)
  <2>1. Bytes(Closed) <= total[s]
    <3>1. Closed \ {} = Closed
      OBVIOUS
    <3>. QED BY <1>3, <3>1 DEF Covers
  <2>2. CASE f \in DOMAIN dir
    <3>1. Closed \in SUBSET DOMAIN dir /\ f \in Closed
      BY <1>3, <2>2 DEF Closed
    <3>2. Bytes(Closed) = Bytes(Closed \ {f}) + dir[f].size /\ Bytes(Closed \ {f}) \in Nat
      BY <1>1, <3>1, BytesWithout
    <3>3. SizeOf(f) = dir[f].size /\ dir[f].size \in Nat
      BY <1>1, <2>2 DEF SizeOf
    <3>. QED BY <1>3, <2>1, <3>2, <3>3
  <2>3. CASE f \notin DOMAIN dir
    <3>1. Closed \ {f} = Closed /\ SizeOf(f) = 0
      BY <2>3 DEF Closed, SizeOf
    <3>2. Bytes(Closed \ {f}) <= total[s]
      BY <2>1, <3>1
    <3>. QED BY <1>3, <3>1, <3>2
  <2>. QED BY <2>2, <2>3
<1>6. Bytes(Closed \ unsized[s])' <= total'[s]
  <2>1. [g \in Closed \ {f} |-> dir'[g].size] = [g \in Closed \ {f} |-> dir[g].size]
    BY <1>4 DEF Closed
  <2>2. Closed' \ unsized'[s] = Closed \ {f}
    BY <1>3, <1>4
  <2>. QED BY <1>3, <1>5, <2>1, <2>2 DEF Bytes
<1>7. \A g \in Closed' : dir'[g].size > 0 => g \in DOMAIN seen'[s]
  BY <1>3, <1>4 DEF Covers, Closed
<1>. QED BY <1>3, <1>6, <1>7 DEF Covers

\* A shard that has listed the directory covers.
LEMMA ListCovers ==
  ASSUME IInv, NEW s \in Shards, List(s)
  PROVE  Covers(s)'
<1>1. /\ step'[s] = "size" /\ seen'[s] = [f \in Closed |-> dir[f].at]
      /\ unsized'[s] = Closed /\ total'[s] = 0 /\ UNCHANGED <<dir, openFiles>>
      /\ Closed' = Closed
  BY DEF List, IInv, Types, ScanTyped, StepTyped, Go, Closed
<1>2. Bytes(Closed \ unsized[s])' = 0
  <2>1. Closed' \ unsized'[s] = {}
    BY <1>1
  <2>2. SumFunctionOnSet([f \in {} |-> dir'[f].size], {}) = 0
    BY SumSmall
  <2>. QED BY <2>1, <2>2 DEF Bytes
<1>3. DOMAIN seen'[s] \cap openFiles' = {}
  BY <1>1 DEF Closed
<1>. QED BY <1>1, <1>2, <1>3 DEF Covers

\* A shard's step keeps the closed files within the budget or another shard, or
\* this one, covering them.
LEMMA ShardCovered ==
  ASSUME IInv, NEW s \in Shards, Shard(s), DirTyped'
  PROVE  Covered'
<1>. SUFFICES ASSUME MaxTotal > 0, openFiles' # {}, \A r \in Shards : step'[r] # "list"
              PROVE  Bytes(Closed)' <= MaxTotal \/ \E r \in Shards : Covers(r)'
  BY DEF Covered
<1>0. /\ DOMAIN step = Shards /\ writer[s] \in Writer(s)
      /\ MaxTotal \in Nat
      /\ \A f \in DOMAIN dir : dir[f].size \in Nat
  BY RetentionAssumption DEF IInv, Types, DirTyped, WriterTyped, StepTyped
<1>1. CASE List(s)
  BY <1>1, ListCovers
<1>2. CASE Register(s)
  <2>1. step'[s] = "list"
    BY <1>0, <1>2 DEF Register, Go
  <2>. QED BY <2>1
<1>3. CASE ~List(s) /\ ~Register(s)
  <2>1. UNCHANGED openFiles /\ \A r \in Shards \ {s} : step'[r] = step[r] /\ seen'[r] = seen[r]
                                 /\ unsized'[r] = unsized[r] /\ total'[r] = total[r]
    BY <1>3 DEF Shard, Begin, Open, OpenFails, Write, Size, Prune, Pruned, Go, scan, IInv,
                Types, StepTyped, ScanTyped
  <2>2. \A r \in Shards : step[r] # "list"
    <3>1. step[s] # "list"
      BY <1>3 DEF Shard, Begin, Open, OpenFails, Write, Size, Prune, Pruned
    <3>. QED BY <2>1, <3>1
  <2>3. Bytes(Closed) <= MaxTotal \/ \E r \in Shards : Covers(r)
    BY <2>1, <2>2 DEF IInv, Covered
  <2>4. \A f \in Closed' : dir'[f].size = 0 \/ (f \in Closed /\ dir'[f].size <= dir[f].size)
    <3>1. CASE Open(s)
      <4>1. \A f \in DOMAIN dir' : dir'[f].size = 0 \/ (f \in DOMAIN dir /\ dir'[f] = dir[f])
        BY <3>1 DEF Open
      <4>. QED BY <1>0, <2>1, <4>1 DEF Closed
    <3>2. CASE Write(s)
      <4>1. writer[s].path \in openFiles
        BY <3>2 DEF Write, IInv, Registered
      <4>2. \A f \in DOMAIN dir' : f \in DOMAIN dir /\ (f # writer[s].path => dir'[f] = dir[f])
        BY <3>2 DEF Write
      <4>. QED BY <1>0, <2>1, <4>1, <4>2 DEF Closed
    <3>3. CASE Prune(s)
      <4>1. \A f \in DOMAIN dir' : f \in DOMAIN dir /\ dir'[f] = dir[f]
        BY <3>3 DEF Prune, Restrict
      <4>. QED BY <1>0, <2>1, <4>1 DEF Closed
    <3>4. CASE Begin(s) \/ OpenFails(s) \/ Size(s) \/ Pruned(s)
      <4>1. UNCHANGED dir
        BY <3>4 DEF Begin, OpenFails, Size, Pruned
      <4>. QED BY <1>0, <2>1, <4>1 DEF Closed
    <3>. QED BY <1>3, <3>1, <3>2, <3>3, <3>4 DEF Shard
  <2>5. /\ Bytes(Closed)' <= Bytes(Closed)
        /\ Bytes(Closed)' \in Nat /\ Bytes(Closed) \in Nat
        /\ \A r \in Shards \ {s} : Covers(r) => Covers(r)'
    BY <2>1, <2>4, NothingAdded DEF IInv
  <2>6. CASE Bytes(Closed) <= MaxTotal
    BY <1>0, <2>5, <2>6
  <2>7. CASE \E r \in Shards \ {s} : Covers(r)
    BY <2>5, <2>7
  <2>8. CASE Covers(s)
    <3>1. CASE Size(s)
      BY <2>8, <3>1, SizeCovers
    <3>2. CASE Prune(s)
      BY <2>8, <3>2, PruneCovers
    <3>3. CASE Pruned(s)
      <4>1. unsized[s] = {} /\ total[s] \in Int
        BY <3>3 DEF Pruned, IInv, Types, ScanTyped
      <4>2. Bytes(Closed) <= total[s]
        <5>1. Closed \ {} = Closed
          OBVIOUS
        <5>. QED BY <2>8, <4>1, <5>1 DEF Covers
      <4>3. CASE total[s] <= MaxTotal
        BY <1>0, <2>5, <4>1, <4>2, <4>3
      <4>4. CASE seen[s] = <<>>
        <5>1. DOMAIN seen[s] = {}
          BY <4>4
        <5>2. \A f \in Closed : dir[f].size = 0
          BY <1>0, <2>8, <5>1 DEF Covers, Closed
        <5>3. Bytes(Closed) = 0
          <6>1. IsFiniteSet(Closed) /\ \A f \in Closed : dir[f].size \in Nat
            BY Sized DEF Closed, IInv, Types
          <6>. QED BY <5>2, <6>1, BytesNat
        <5>. QED BY <1>0, <2>5, <5>3
      <4>. QED BY <3>3, <4>3, <4>4 DEF Pruned
    <3>4. step[s] \in {"size", "prune"}
      BY <2>8 DEF Covers
    <3>. QED BY <1>3, <3>1, <3>2, <3>3, <3>4 DEF Shard, Begin, Open, OpenFails, Write
  <2>. QED BY <2>3, <2>6, <2>7, <2>8
<1>. QED BY <1>1, <1>2, <1>3

----------------------------------------------------------------------------
(* The theorems                                                             *)

\* The invariant is inductive.
LEMMA NextIInv ==
  ASSUME IInv, [Next]_vars
  PROVE  IInv'
<1>1. ASSUME NEW s \in Shards, Shard(s)
      PROVE  IInv'
  <2>1. Types' /\ Registered'
    BY <1>1, ShardTypes, ShardRegistered DEF IInv
  <2>2. Covered'
    BY <1>1, <2>1, ShardCovered DEF Types
  <2>. QED BY <2>1, <2>2 DEF IInv
<1>2. CASE Tick \/ UNCHANGED vars
  <2>1. UNCHANGED <<dir, openFiles, writer, step, scan>>
    BY <1>2 DEF Tick, vars
  <2>2. now' \in 0 .. MaxTime
    BY <1>2, RetentionAssumption DEF Tick, vars, IInv, Types, StepTyped
  <2>3. Types'
    <3>1. DirTyped' /\ OpenTyped' /\ WriterTyped' /\ ScanTyped'
      BY <2>1, TypesUnchanged DEF IInv
    <3>2. StepTyped'
      BY <2>1, <2>2 DEF IInv, Types, StepTyped
    <3>. QED BY <3>1, <3>2 DEF Types
  <2>4. Registered'
    BY <2>1 DEF IInv, Registered
  <2>5. Covered'
    BY <2>1 DEF IInv, Covered, Covers, Closed, Bytes, scan
  <2>. QED BY <2>3, <2>4, <2>5 DEF IInv
<1>. QED BY <1>1, <1>2 DEF Next

\* It holds at the start: no file is open.
LEMMA InitIInv ==
  ASSUME Init
  PROVE  IInv
<1>1. openFiles = {} /\ \A s \in Shards : step[s] = "idle" /\ writer[s] = NoWriter
  BY DEF Init
<1>2. Registered /\ Covered
  BY <1>1 DEF Registered, Covered, NoWriter
<1>. QED BY <1>2, InitTypes DEF IInv

\* ... and so in every state.
THEOREM SpecIInv == Spec => []IInv
<1>. QED BY InitIInv, NextIInv, PTL DEF Spec

\* The types of the shards' state, the directory and the registry
\* (WriterTask, CaptureManager.openFiles).
THEOREM SpecTypeOK == Spec => []TypeOK
<1>1. IInv => TypeOK
  BY TypesTypeOK DEF IInv
<1>. QED BY <1>1, SpecIInv, PTL

\* Once nobody is about to prune, the files no longer written to fit the budget,
\* for any number of shards that list, measure, delete, rotate and write in any
\* order (WriterTask 213-289).
THEOREM SpecBudgetKept == Spec => []BudgetKept
<1>1. IInv => BudgetKept
  BY DEF IInv, Covered, Covers, BudgetKept, Closed
<1>. QED BY <1>1, SpecIInv, PTL
=============================================================================
