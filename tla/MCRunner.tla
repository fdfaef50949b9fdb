------------------------------ MODULE MCRunner ------------------------------
(* TLC instance of Runner.                                                   *)
EXTENDS Runner

Silent == [traces |-> << <<>> >>, strategy |-> "", reuse |-> "", target |-> 0,
           initial |-> 0, add |-> 0, interval |-> 0, prefix |-> 6]

\* One session that plays all kinds of events, once or in a loop.
Alone == {[Silent EXCEPT !.traces = << <<"move", "marker">> >>, !.reuse = "once"],
          [Silent EXCEPT !.traces = << <<"act", "reanchor">> >>]}
\* Two with next to none, along a ramp or at once.
Both == {[Silent EXCEPT !.target = 2, !.initial = 1, !.add = 1, !.interval = 1, !.reuse = "once",
                        !.traces = << <<>>, <<"act">> >>],
         [Silent EXCEPT !.target = 2, !.strategy = "random", !.traces = << <<>>, <<>> >>]}
Wrong == {[Silent EXCEPT !.target = -1, !.interval = 1], [Silent EXCEPT !.prefix = 12],
          [Silent EXCEPT !.strategy = "any"], [Silent EXCEPT !.traces = None]}

MCBudget == [f \in Alone \cup Both \cup Wrong |-> IF f.target = 2 THEN 1 ELSE 3]
MCScenarios == Alone \cup Both \cup Wrong
=============================================================================
