------------------------------ MODULE TraceFile ------------------------------
(***************************************************************************)
(* Compiled traces and their manifest, internal/tracefile.  A trace in     *)
(* memory is a record; a file holds what Write puts there: the declared    *)
(* schema, the two optional blocks only under a schema that has them, and  *)
(* the event offsets as differences.  Strings and compression are left out.*)
(***************************************************************************)
EXTENDS Integers, Sequences, FiniteSets

CONSTANT None      \* nil, an absent file, an unset value

\* The n-th of the numbers I, and the entries of s at the places I in their order.
Nth(I, n)     == CHOOSE i \in I : Cardinality({j \in I : j <= i}) = n
Entries(s, I) == [n \in 1..Cardinality(I) |-> s[Nth(I, n)]]

SchemaVersion == 3

\* Trace.Write, of what the compiler and the amplifier make: schema 3, which it
\* never refuses.
Write(t) ==
    [schema    |-> t.schema,
     duration  |-> t.duration,
     origin    |-> IF t.schema >= 2 THEN <<t.origin>> ELSE <<>>,
     inventory |-> IF t.schema >= 3 THEN <<t.inventory>> ELSE <<>>,
     events    |-> [i \in DOMAIN t.events |->
                      [t.events[i] EXCEPT !.off =
                          @ - (IF i = 1 THEN 0 ELSE t.events[i - 1].off)]]]

\* tracefile.Read: the blocks the declared schema has, offsets summed up.
Readable(f) == f # None /\ f.schema \in 1..SchemaVersion

ReadTrace(f) ==
    LET sum[i \in 0..Len(f.events)] == IF i = 0 THEN 0 ELSE sum[i - 1] + f.events[i].off
    IN  [schema    |-> f.schema,
         duration  |-> f.duration,
         origin    |-> IF f.schema >= 2 THEN f.origin[1] ELSE None,
         inventory |-> IF f.schema >= 3 THEN f.inventory[1] ELSE None,
         events    |-> [i \in DOMAIN f.events |-> [f.events[i] EXCEPT !.off = sum[i]]]]

\* A directory of traces: numbered files and the manifest, which Save writes
\* last and LoadManifest refuses when it is absent or lists nothing.
EmptyDir == [files |-> <<>>, manifest |-> None]

Loadable(dir) == dir.manifest # None /\ dir.manifest # <<>>

\* The file a manifest entry names, read back by whoever loads the traces.
TraceAt(dir, n) == ReadTrace(dir.files[dir.manifest[n].file])

=============================================================================
