---------------------------- MODULE MCDigLedger ----------------------------
(* TLC instances of DigLedger.  Blocks are interchangeable.                  *)
EXTENDS DigLedger, TLC

CONSTANTS b1, b2

Symmetry == Permutations({b1, b2})

At(op, x) == [op |-> op, at |-> x]

\* What a capture of a client's packets holds: after its first dig, an abort or a
\* finish follows its own start, and a start may be left alone.
Captured(t) ==
  \A i, j \in DOMAIN t :
    i < j /\ IsDig(t[i]) /\ IsDig(t[j]) /\ (\A k \in i + 1 .. j - 1 : ~IsDig(t[k])) =>
      t[j].op = "start" \/ t[i] = At("start", t[j].at)
Short(n) == {t \in [1 .. n -> Event] : Captured(t)}
\* Captures that begin in the middle of a dig and come back to the same block: to
\* finish it, to abandon it, or to break it at once and go on elsewhere.
CutShort ==
  {<<At("finish", x), At("start", x), At(op, x)>> : op \in {"finish", "abort"}, x \in Positions}
LeftAlone ==
  {<<At("finish", x), At("start", x), At("start", y)>> : <<x, y>> \in {<<b1, b2>>, <<b2, b1>>}}
LoopedTraces == Short(1) \cup Short(2) \cup CutShort \cup LeftAlone
OneEvent == Short(1)

\* Only a trace of one event meets portals, and only in a world that nobody else
\* has changed: its player may leave the overworld, with digs pending, for a
\* dimension whose columns are then read at the wrong height.
Portals ==
  Len(trace) > 1 \/ other > 0 =>
    here = "overworld" /\ \A d \in Dims \ {"overworld"}, p \in Positions : world[d][p] = "air"
\* And only it meets columns of a format that has moved.
Formats == Len(trace) > 1 => format = "read"

\* Sections in a column and its lowest one, as vanilla has them.
VanillaSections == [d \in Dims |-> IF d = "overworld" THEN 24 ELSE IF d = "nether" THEN 16 ELSE 20]
VanillaOrigin == [d \in Dims |-> IF d = "overworld" THEN -4 ELSE 0]
=============================================================================
