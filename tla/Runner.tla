------------------------------- MODULE Runner -------------------------------
(***************************************************************************)
(* mc-replay: load the scenario and its traces, launch sessions along the  *)
(* ramp, wait until all have ended or the run's time is up, stop those     *)
(* that are left, and write the report.  Its goroutine runs beside those   *)
(* of ReplaySession and a sampler.  Sessions are numbered as launched.     *)
(***************************************************************************)
EXTENDS ReplaySession, FiniteSetsExt

CONSTANTS Scenarios,  \* what a scenario file may say; 0 and "" where it is silent
          Budget      \* Budget[f]: bound on the server's packets to a session

VARIABLES run,      \* Runner.Run: where it is, and its locals
          sampler,  \* the sampler, and the Active it has read
          peak,     \* Collector.peak
          report   \* run.json, or None

runnerVars == <<run, sampler, peak, report>>
vars == <<sessionVars, runnerVars>>

IfSet(n, default) == IF n = 0 THEN default ELSE n

\* A scenario file names no more sessions than there are, and its manifest no
\* trace that was not read.
ASSUME ScenarioAssumption ==
  /\ Sessions = 0 .. Cardinality(Sessions) - 1
  /\ \A f \in Scenarios :
    /\ {f.target, f.initial, f.add, f.interval, f.prefix} \subseteq Int
    /\ IfSet(f.target, 1) <= Cardinality(Sessions)
    /\ f.traces # None => f.traces \in Seq(Seq(Kinds)) /\ f.traces # <<>>
    /\ Budget[f] \in Nat

\* Mutant: counts are not checked.
LoadUnchecked(f) ==
  IF \/ f.prefix > 11 \/ f.strategy \notin {"", "round_robin", "random"}
     \/ f.traces = None
  THEN None
  ELSE LET target == IfSet(f.target, 1) IN
       [traces |-> f.traces, random |-> f.strategy = "random",
        loop |-> f.reuse # "once", target |-> target,
        initial |-> IfSet(f.initial, target),
        step |-> LET n == f.add * IfSet(f.interval, 5) IN IF n <= 0 THEN target ELSE n]

\* scenario.Load and New: the defaults, then what is refused.  f.traces is what
\* the manifest lists, or None when it is absent, empty or a file is not whole.
Load(f) ==
  IF \/ f.prefix > 11 \/ f.strategy \notin {"", "round_robin", "random"}
     \/ f.traces = None
     \/ \E n \in {f.target, f.initial, f.add, f.interval} : n < 0
  THEN None
  ELSE LET target == IfSet(f.target, 1) IN
       [traces |-> f.traces, random |-> f.strategy = "random",
        loop |-> f.reuse # "once", target |-> target,
        initial |-> IfSet(f.initial, target),
        step |-> LET n == f.add * IfSet(f.interval, 5) IN IF n <= 0 THEN target ELSE n]

Init ==
  /\ SessionInit
  /\ \E f \in Scenarios :
       /\ budget = [s \in Sessions |-> Budget[f]]
       /\ run = [pc |-> IF Load(f) = None THEN "refused" ELSE "launch",
              sc |-> Load(f), launched |-> 0,
              quota |-> IF Load(f) = None THEN 0 ELSE Load(f).initial]
  /\ sampler = [pc |-> "idle", active |-> 0] /\ peak = 0 /\ report = None

Going == run.pc \notin {"refused", "reported", "report_failed"}

----------------------------------------------------------------------------
(* The ramp                                                                 *)

\* buildSession
TraceFor(s) == IF run.sc.random THEN DOMAIN run.sc.traces
               ELSE {(s % Len(run.sc.traces)) + 1}

\* One session of the burst, when the rate gate lets it; the run's time may be
\* over.
Launch ==
  /\ run.pc = "launch" /\ run.quota > 0 /\ run.launched < run.sc.target
  /\ \E n \in TraceFor(run.launched) :
       ses' = [ses EXCEPT ![run.launched].pc = "dial",
                          ![run.launched].trace = run.sc.traces[n],
                          ![run.launched].loop = run.sc.loop]
  /\ run' = [run EXCEPT !.launched = @ + 1, !.quota = @ - 1]
  /\ UNCHANGED <<agg, budget, results, stop, sampler, peak, report>>

Launched ==
  /\ run.pc = "launch" /\ (run.quota <= 0 \/ run.launched >= run.sc.target)
  /\ run' = [run EXCEPT !.pc = IF run.launched < run.sc.target THEN "ramp" ELSE "watch"]
  /\ UNCHANGED <<sessionVars, sampler, peak, report>>

RampTick ==
  /\ run.pc = "ramp"
  /\ run' = [run EXCEPT !.pc = "launch", !.quota = run.sc.step]
  /\ UNCHANGED <<sessionVars, sampler, peak, report>>

RampEnds ==
  /\ run.pc = "ramp"
  /\ run' = [run EXCEPT !.pc = "watch"]
  /\ UNCHANGED <<sessionVars, sampler, peak, report>>

----------------------------------------------------------------------------
(* The end                                                                  *)

Drained == \A s \in Sessions : ses[s].pc \in {"new", "done"}

\* Every session has ended, or the run's time has.
Stop ==
  /\ run.pc = "watch"
  /\ run' = [run EXCEPT !.pc = "drain"]
  /\ stop' = TRUE
  /\ UNCHANGED <<ses, agg, budget, results, sampler, peak, report>>

\* Mutant: the sessions are waited for however long they take.
DrainForever ==
  /\ run.pc = "drain" /\ Drained
  /\ run' = [run EXCEPT !.pc = "sample"]
  /\ UNCHANGED <<sessionVars, sampler, peak, report>>

\* ... for 15 seconds.
Drain ==
  /\ run.pc = "drain"
  /\ run' = [run EXCEPT !.pc = "sample"]
  /\ UNCHANGED <<sessionVars, sampler, peak, report>>

LastSample ==
  /\ run.pc = "sample" /\ sampler.pc = "done"
  /\ run' = [run EXCEPT !.pc = "write"]
  /\ peak' = Max({peak, agg.active})
  /\ UNCHANGED <<sessionVars, sampler, report>>

\* WriteReport: run.json, then metrics.prom, each of which may fail; then the
\* process ends, and with it what still runs.
WriteReport ==
  /\ run.pc = "write"
  /\ \/ /\ \E end \in {"reported", "report_failed"} : run' = [run EXCEPT !.pc = end]
        /\ report' = [connected |-> agg.connected, failed |-> agg.failed,
                      replayed |-> agg.replayed, peak |-> peak, sessions |-> results]
     \/ run' = [run EXCEPT !.pc = "report_failed"] /\ UNCHANGED report
  /\ UNCHANGED <<sessionVars, sampler, peak>>

----------------------------------------------------------------------------
(* The sampler: TakeSample reads Active before it takes the lock.           *)

ReadActive ==
  /\ sampler.pc = "idle"
  /\ sampler' = [pc |-> "read", active |-> agg.active]
  /\ UNCHANGED <<sessionVars, run, peak, report>>

TakeSample ==
  /\ sampler.pc = "read"
  /\ peak' = Max({peak, sampler.active})
  /\ sampler' = [pc |-> "idle", active |-> 0]
  /\ UNCHANGED <<sessionVars, run, report>>

SamplerEnds ==
  /\ sampler.pc = "idle" /\ stop
  /\ sampler' = [pc |-> "done", active |-> 0]
  /\ UNCHANGED <<sessionVars, run, peak, report>>

----------------------------------------------------------------------------

Main == Launch \/ Launched \/ RampTick \/ RampEnds \/ Stop \/ Drain \/ LastSample \/ WriteReport
Sampler == ReadActive \/ TakeSample \/ SamplerEnds
Session(s) == SessionNext(s) /\ UNCHANGED runnerVars

Next == /\ Going
        /\ \/ Main \/ Sampler
           \/ \E s \in Sessions : Session(s)

Spec == Init /\ [][Next]_vars

\* The goroutines of the run and of the sampler go on and their timers fire; the
\* sampler's select does not choose its ticker for ever.  Nothing is asked of the
\* sessions or the server.
FairSpec ==
  /\ Spec
  /\ WF_vars(Going /\ Main)
  /\ WF_vars(Going /\ TakeSample) /\ SF_vars(Going /\ SamplerEnds)

----------------------------------------------------------------------------
(* Properties                                                               *)

\* Types: where each goroutine is and what it may hold.
TypeOK ==
  /\ run.launched \in 0 .. Cardinality(Sessions)
  /\ agg \in [{"connected", "active", "failed", "disconnected", "replayed", "skipped",
               "relocations"} -> Nat]
  /\ peak \in Nat /\ stop \in BOOLEAN
  /\ \A s \in Sessions :
       /\ ses[s].state \in States
       /\ ses[s].reader \in {"none", "config", "play", "sync", "done"}
       /\ {ses[s].mine, ses[s].theirs} \subseteq {"none", "view", "old"}
       /\ ses[s].mine # "none" <=> ses[s].pc \in {"send", "check_resync", "hold_resync"}
       /\ ses[s].theirs # "none" <=> ses[s].reader = "sync"

Listed(states) == {s \in Sessions : results[s] # None /\ results[s].state \in states}

\* Whatever the counters are when the report is written, each session it lists is
\* counted, as failed or as connected and gone, and one that still plays is
\* active; when all sessions have ended, it lists every session launched, at
\* least one, and its counts are theirs (session.go 164-257, runner.go 140-165).
ReportAddsUp ==
  /\ Cardinality(Listed({"failed"})) <= agg.failed
  /\ Cardinality({s \in Sessions : results[s] # None}) <= agg.failed + agg.disconnected
  /\ agg.active + agg.disconnected <= agg.connected
  /\ report # None /\ Drained =>
       LET listed == {s \in Sessions : report.sessions[s] # None} IN
       /\ listed = 0 .. (run.launched - 1) /\ run.launched >= 1
       /\ report.failed = Cardinality(Listed({"failed"}))
       /\ report.connected + report.failed = Cardinality(listed)

\* ... and so is the number of events replayed, which each session counts for
\* itself and for the run (dispatch.go 319-324).
EventsAddUp ==
  report # None /\ Drained =>
    report.replayed =
      SumFunctionOnSet([s \in Sessions |-> IF report.sessions[s] = None THEN 0
                                           ELSE report.sessions[s].replayed], Sessions)

\* A sample never shows more sessions in play than ever were, although Active is
\* read before the lock and both change under it (metrics.go 143-158).
PeakWasReached == peak <= agg.connected

\* The fields of a result and of the codec are read when nothing writes them any
\* more: the reader has ended (session.go 199-240).
JoinedBeforeRecorded ==
  \A s \in Sessions : ses[s].pc \in {"record", "done"} => ses[s].reader \in {"none", "done"}

\* Once the reader has left play -- the server reconfigures the client -- the
\* replay loop begins one tick more at most (protocol_flow.go 220, 372-394),
\* unless the reader had left before the loop stored play_ready over that
\* (session.go 221): then the loop ticks on unaware, but not for longer than that
\* configuration lasts, and one tick more once the reader is back in play.
OneTickAtMost ==
  \A s \in Sessions :
    \/ ses[s].off <= 1
    \/ ses[s].left = "hidden" /\ ses[s].reader \in {"config", "done"}

\* Whenever the two goroutines' packets leave the server with a position that is
\* not the client's, the client's follows before ResyncTicks idle packets do, or
\* it has moved on
\* (protocol_flow.go 136-162, 411-425).
BehindAtMostOneResync == \A s \in Sessions : ses[s].behind < ResyncTicks

\* What the goroutine of a session has to do next needs nothing of the server, if
\* its writes return; it waits at most for its reader to end ...
CanRun(s) ==
  /\ ses[s].pc \notin {"new", "dial", "login", "done"}
  /\ ses[s].pc \in {"giveup", "join"} => ses[s].reader = "done"

\* ... which that can without the server once it cannot read any more.
ReaderCanEnd(s) ==
  ses[s].reader = "sync" \/ (ses[s].closed /\ ses[s].reader \in {"config", "play"})

\* A session waits for the server only in its login, so that stop can strand no
\* other: whoever waits for a reader has closed the connection it reads
\* (session.go 199-230).
StopNeverStrands ==
  \A s \in Sessions :
    ses[s].pc \in {"new", "dial", "login", "done"} \/ CanRun(s) \/ ReaderCanEnd(s)

\* The run ends whatever the sessions do: one that hangs in its login is left
\* behind (runner.go 143-172).
RunEnds == <>~Going
=============================================================================
