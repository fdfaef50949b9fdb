------------------------------- MODULE Amplify -------------------------------
(***************************************************************************)
(* One varied copy of a trace, internal/amplify.  What the seeded          *)
(* generator yields for a copy is a record of numbers,                     *)
(*   [delay, dx, jitter, vary],                                            *)
(* with one jitter and one variation for each event.  Positions and the    *)
(* amounts in commands are numbers here, one coordinate for both.          *)
(***************************************************************************)
EXTENDS Compile

CONSTANTS StartJitter, EventJitter, SpaceSpread, VaryPercent    \* Options

ASSUME AmplifyAssumption ==
    {StartJitter, EventJitter, SpaceSpread, VaryPercent} \subseteq Nat

\* RNG.span and RNG.upto of the next number r.
Span(r, n) == IF n <= 0 THEN 0 ELSE (r % (2 * n + 1)) - n
Upto(r, n) == IF n <= 0 THEN 0 ELSE r % (n + 1)

\* VaryNumbers on the one number of a command: 0 stays, the rest stays above 0.
VaryNumbers(n, r) ==
    LET v == n + Span(r, (n * VaryPercent) \div 100)
    IN  IF n = 0 THEN n ELSE IF v < 1 THEN 1 ELSE v

\* transformPayload: block positions move, commands vary, anchors and
\* everything else stay.
TransformPayload(kind, data, dx, r) ==
    CASE kind \in {"dig", "place", "inv_open"} /\ data # None -> data + dx
      [] kind = "cmd" /\ VaryPercent > 0 -> VaryNumbers(data, r)
      [] OTHER -> data

Larger(a, b) == IF a >= b THEN a ELSE b

\* Mutant: the jittered events are left in the source's order.
AmplifyTraceUnsorted(src, draw) ==
    LET delay == Upto(draw.delay, StartJitter)
        dx    == Span(draw.dx, SpaceSpread)
        moved == [i \in DOMAIN src.events |->
                    LET e == src.events[i] IN
                    [off  |-> Larger(0, e.off + delay + Span(draw.jitter[i], EventJitter)),
                     kind |-> e.kind,
                     data |-> TransformPayload(e.kind, e.data, dx, draw.vary[i])]]
    IN  [schema |-> SchemaVersion, duration |-> src.duration + delay + EventJitter,
         origin |-> None, inventory |-> None, events |-> moved]

\* amplify.Trace: shift and jitter every event, restore the order, keep the
\* source's length.  The copy gets neither the origin nor the inventory.
AmplifyTrace(src, draw) ==
    LET delay == Upto(draw.delay, StartJitter)
        dx    == Span(draw.dx, SpaceSpread)
        moved == [i \in DOMAIN src.events |->
                    LET e == src.events[i] IN
                    [off  |-> Larger(0, e.off + delay + Span(draw.jitter[i], EventJitter)),
                     kind |-> e.kind,
                     data |-> TransformPayload(e.kind, e.data, dx, draw.vary[i])]]
        sorted == StableSort(moved, [i \in DOMAIN moved |-> moved[i].off])
    IN  [schema    |-> SchemaVersion,
         duration  |-> Larger(src.duration + delay,
                              IF sorted = <<>> THEN 0 ELSE sorted[Len(sorted)].off),
         origin    |-> None,
         inventory |-> None,
         events    |-> sorted]

\* The directory trace-amplify writes: sources in turn, tags carried, the
\* player left out.
AmplifiedDir(dir, draws) ==
    LET srcOf(i) == ((i - 1) % Len(dir.manifest)) + 1
        copy == [i \in DOMAIN draws |-> AmplifyTrace(TraceAt(dir, srcOf(i)), draws[i])]
    IN  [files    |-> [i \in DOMAIN draws |-> Write(copy[i])],
         manifest |-> [i \in DOMAIN draws |->
                         [file |-> i, player |-> None, events |-> Len(copy[i].events),
                          tags |-> dir.manifest[srcOf(i)].tags]]]

=============================================================================
