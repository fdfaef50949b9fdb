--------------------------- MODULE MCTracePipeline ---------------------------
(* TLC instance of TracePipeline.                                            *)
EXTENDS TracePipeline

\* Two scratch files; the sessions of a start are spread over them.
ByParity(key) == (key[2] % 2) + 1

\* Ids of players; those of the bots are their numbers.
AnnId == 101
BobId == 102
ZoeId == 103

Pickaxe == [slot |-> 0, id |-> "pickaxe", count |-> 1]
Helmet  == [slot |-> 39, id |-> "helmet", count |-> 0]
Shield  == [slot |-> 40, id |-> "shield", count |-> 1]

-----------------------------------------------------------------------------
(* Captures: ann's visit, whatever she does in two events after joining, and *)
(* one of a few visits by bob or by her again; two frames, ended in any way.  *)

Mark(who, t, kind, where) ==
  [t |-> t, player |-> who.id, seq |-> who.seq, kind |-> kind, at |-> where, dim |-> who.dim,
   visit |-> who.visit]

Happening == {<<k, t>> : k \in {"dig", "move", "reanchor", "cmd"}, t \in 0..2}

\* The rings of a visit: the start marker, with position and inventory unless
\* the plugin is older than they are, the packets, the server's events, the end.
Rings(who, withPos, script, end) ==
  LET evs(kinds) == SelectSeq([i \in DOMAIN script |->
                       Mark(who, script[i][2], script[i][1], 10 * who.visit + i)],
                       LAMBDA e : e.kind \in kinds)
  IN  [packet |-> evs({"dig", "move"}),
       main   |-> (IF withPos
                   THEN << Mark(who, 0, "session_start", 10 * who.visit),
                           Mark(who, 0, "inventory", who.gear) >>
                   ELSE << Mark(who, 0, "session_start", None) >>)
                  \o evs({"reanchor", "cmd"})
                  \o << Mark(who, end, "session_end", None) >>]

Frame(rings, Then(_)) ==
  FlattenSeq([v \in DOMAIN rings |-> SelectSeq(rings[v].packet, Then) \o SelectSeq(rings[v].main, Then)])

\* Flushes at time 1 and at the end; the file is rotated between them, or the
\* server dies in the second one.
Files(rings, how) ==
  LET first  == Frame(rings, LAMBDA e : e.t < 1)
      second == Frame(rings, LAMBDA e : e.t >= 1)
      whole(fs) == [frames |-> fs, tail |-> "clean"]
  IN  CASE how = "one file"  -> << whole(<<first, second>>) >>
        [] how = "rotated"   -> << whole(<<first>>), whole(<<second>>) >>
        [] how = "cut"       -> << [frames |-> <<first>>, tail |-> "mid_frame"] >>
        [] how = "zeros"     -> << [frames |-> <<first>>, tail |-> "zeros"] >>

Ann == [visit |-> 1, id |-> HashPlayer(AnnId, 1), seq |-> 0, dim |-> 0, gear |-> {Pickaxe, Helmet}]
Bob == [visit |-> 2, id |-> HashPlayer(BobId, 1), seq |-> 1, dim |-> 3, gear |-> {Shield}]
\* Ann again in the same start, and after a restart that salts ids anew.
Again     == [Ann EXCEPT !.visit = 2, !.seq = 1]
Restarted == [Ann EXCEPT !.visit = 2, !.id = HashPlayer(AnnId, 2)]

Short == {<<>>} \cup {<<a>> : a \in Happening}
Long  == {<<a, b>> : a \in {<<"cmd", 0>>, <<"dig", 1>>}, b \in {"dig", "move", "reanchor"} \X {1, 2}}

Firsts  == {Rings(Ann, TRUE, s, 2) : s \in Short} \cup {Rings(Ann, FALSE, s, 2) : s \in Long}
Seconds == {Rings(Bob, TRUE, << <<"dig", 0>>, <<"move", 1>> >>, 1),
            Rings(Bob, FALSE, <<>>, 0),
            Rings(Again, FALSE, << <<"cmd", 0>>, <<"dig", 1>> >>, 2)}

\* After a restart the log goes on in another file.
AfterRestart(f) ==
  { Files(<<f>>, how) \o Files(<<Rings(Restarted, TRUE, << <<"move", 0>> >>, 1)>>, "one file") :
      how \in {"one file", "cut", "zeros"} }

\* Ids without a salt, as when players are not anonymised.
Unsalted == Files(<<Rings([Ann EXCEPT !.id = HashPlayer(AnnId, 0)], TRUE, << <<"move", 1>> >>, 1),
                    Rings([Bob EXCEPT !.id = HashPlayer(BobId, 0)], TRUE, << <<"dig", 1>> >>, 1)>>,
                  "one file")

MCCaptures ==
  {Files(<<f, s>>, how) : f \in Firsts, s \in Seconds, how \in {"one file", "rotated", "cut"}}
  \cup UNION {AfterRestart(f) : f \in Firsts}
  \cup {<<>>, Unsalted}

-----------------------------------------------------------------------------
\* A set compiled under schema 1: no origin, no player.
Schema1 ==
  [files    |-> << [schema |-> 1, duration |-> 1, origin |-> <<>>, inventory |-> <<>>,
                    events |-> << [off |-> 0, kind |-> "dig", data |-> 7] >>] >>,
   manifest |-> << [file |-> 1, player |-> None, events |-> 1, tags |-> {"build"}] >>]

\* Files of a stranger and of the two players, one of them dead.
RealPlayers ==
  << [uuid |-> ZoeId, dim |-> 0, gear |-> {"dirt"}, alive |-> TRUE, pos |-> None],
     [uuid |-> BobId, dim |-> 2, gear |-> {"bow"}, alive |-> TRUE, pos |-> None],
     [uuid |-> AnnId, dim |-> 0, gear |-> {"gold"}, alive |-> FALSE, pos |-> None] >>
\* Nothing exported, or the ids of the first start.
Exports == {<<>>, [p \in {AnnId, BobId} |-> HashPlayer(p, 1)]}

Yields(n) == [delay |-> n, dx |-> 2 * n, jitter |-> [i \in Nat |-> (i * n) % 3],
              vary |-> [i \in Nat |-> i * n]]
Fleets == { <<Yields(0), Yields(1), Yields(2)>> }
=============================================================================
