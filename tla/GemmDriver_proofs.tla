------------------------- MODULE GemmDriver_proofs -------------------------
(***************************************************************************)
(* What the GEMM driver reports is what it did, for every list of          *)
(* configurations and shapes, every number of launches and every sequence  *)
(* of failures.  DriverInv says, for each call the program may be about to *)
(* make, which objects it holds, which failures are already accounted for  *)
(* in what the exit status will be made from, and which configurations of  *)
(* which shapes are behind it.                                             *)
(***************************************************************************)
EXTENDS GemmDriver, EuclideanDivision, FiniteSetTheorems, SequenceTheorems,
        TLAPS

-----------------------------------------------------------------------------
(* Control.                                                                *)

VerifyLoop == {"verify_config", "verify_sync", "verify_compare"}
VerifyCalls ==
  {"handle", "reference", "reference_sync", "reference_destroy",
   "verify_next", "verify_destroy"} \cup VerifyLoop
Timing == {"record_start", "timed", "stop_sync", "elapsed"}
Launcher == {"warmup", "create_start", "create_stop", "measured"} \cup Timing
BenchCalls ==
  {"bench_handle", "set_stream", "bench_config", "bench_destroy",
   "destroy_stream", "bench_next"}
ProfileCalls == {"profile_launch", "profile_sync"}
FileCalls == {"open", "write", "close"}
\* The launcher times cuBLAS, or one configuration of a benchmark.
OfCublas == at.pc \in Launcher /\ at.timing = "cublas"
OfConfig == at.pc \in Launcher /\ at.timing = "config"

ControlOK ==
  /\ at.phase <= Len(Phases(cmd.mode))
  /\ cmd.mode = "usage" => at.pc = "main"
  /\ at.pc = "main" => at.phase = 1
  /\ at.pc \in VerifyCalls => Phase = "verify"
  /\ at.pc \in BenchCalls => Phase = "benchmark"
  /\ at.pc \in {"stream"} \cup Launcher => Phase \in {"benchmark", "profile"}
  /\ at.pc \in Launcher => (at.timing = "profile" <=> Phase = "profile")
  /\ at.pc \in ProfileCalls => Phase = "profile" /\ at.timing = "profile"
  /\ at.pc \in Launcher /\ at.timing = "profile" =>
       at.pc \in {"warmup", "measured"}
  /\ at.pc \in FileCalls => cmd.mode = "benchmark"
  /\ at.pc \in {"reference_destroy", "bench_destroy"} => Single
  /\ at.pc \in {"verify_next", "verify_destroy"} => ~ Single
  /\ Single /\ at.pc # "main" => at.i <= kGemmConfigCount
  /\ OfConfig \/ at.pc \in {"verify_sync", "verify_compare"} =>
       at.i <= kGemmConfigCount /\ (Single \/ Supported)
  /\ at.pc \in {"create_start", "create_stop", "record_start"} => at.n = 0
  /\ at.pc = "warmup" => at.n <= kWarmupIterations
  /\ at.pc = "timed" => at.n <= kBenchmarkIterations

-----------------------------------------------------------------------------
(* Objects and the device.                                                 *)

HasHandle ==
  \/ at.pc \in {"reference", "reference_sync", "reference_destroy"}
  \/ /\ ~ Single /\ Phase = "verify"
     /\ at.pc \in {"problem", "verify_next", "verify_destroy"} \cup VerifyLoop
  \/ /\ Phase = "benchmark"
     /\ at.pc \in {"set_stream", "bench_config", "bench_destroy"} \cup Launcher
HasStream ==
  at.pc \in {"bench_handle", "set_stream", "bench_config", "bench_destroy",
             "destroy_stream"} \cup Launcher \cup ProfileCalls
HasStart == at.pc \in {"create_stop"} \cup Timing
HasStop == at.pc \in Timing

HeldOK ==
  /\ held["handle"] = IF HasHandle THEN 1 ELSE 0
  /\ held["stream"] = IF HasStream THEN 1 ELSE 0
  /\ held["start"] = IF HasStart THEN 1 ELSE 0
  /\ held["stop"] = IF HasStop THEN 1 ELSE 0

\* A fault nobody has noticed is one of a kernel the program is to wait for.
Unawaited == {"verify_sync", "warmup", "timed", "stop_sync", "profile_sync"}
DeviceOK ==
  ~ seen.blemish /\ cuda.ctx # "live" =>
    cuda.ctx = "faulting" /\ at.pc \in Unawaited

-----------------------------------------------------------------------------
(* Failures.                                                               *)

\* Configurations of this shape the loop is past.
Behind ==
  IF at.pc \in VerifyLoop \cup {"bench_config", "bench_destroy"} \/ OfConfig
  THEN at.i - 1 ELSE kGemmConfigCount

\* In the loop over the configurations of a benchmark.
InBench == at.pc = "bench_config" \/ OfConfig

\* A failure of this shape that is not yet part of all_ok.
Lost ==
  \/ at.pc \in VerifyLoop /\ ~ Single /\ tally.failed > 0
  \/ at.pc \in {"verify_next", "bench_next"} /\ ~ (tally.ok /\ tally.failed = 0)
  \/ /\ at.pc \in {"reference_destroy", "measured", "destroy_stream", "write",
                   "close"}
     /\ ~ at.ok
  \/ /\ ~ Single /\ (InBench \/ at.pc = "destroy_stream")
     /\ tally.passed + tally.skipped < Behind
  \/ Single /\ at.pc \in {"bench_destroy", "destroy_stream"}
       /\ tally.passed = 0

FailuresOK ==
  /\ seen.blemish => Lost \/ ~ all_ok
  /\ Lost => seen.blemish
  /\ ~ all_ok => seen.blemish \/ NothingToRank
  /\ Phase = "profile" => all_ok

-----------------------------------------------------------------------------
(* What has been done.                                                     *)

Supports(c, k) == config_supports_problem(c, cmd.shapes[k])

\* Nothing of the current shape is counted or measured yet.
Fresh ==
  \/ at.pc \in {"reference", "reference_sync", "reference_destroy", "stream",
                "bench_handle", "set_stream"}
  \/ OfCublas
  \/ Single /\ at.pc \in {"handle"} \cup VerifyLoop
  \/ Single /\ InBench
FreshOK == Fresh => tally = NoTally /\ results = << >> /\ best = NoBest

\* The counters in the loop over the configurations.
Counting ==
  ~ Single /\ (at.pc \in VerifyLoop \cup {"destroy_stream"} \/ InBench)
\* The counters t after b configurations of a shape, of which those in F were
\* run to their end; S are the configurations that divide the shape.
CountsFit(t, F, S, b) ==
  /\ t.passed = Cardinality(F) /\ F \subseteq (1 .. b) \cap S
  /\ t.skipped = Cardinality((1 .. b) \ S)
  /\ t.passed + t.failed + t.skipped <= b
  /\ t.passed + t.skipped = b => (1 .. b) \cap S \subseteq F
Served(k) == {c \in ConfigIds : Supports(c, k)}
CountsOK ==
  Counting =>
    /\ CountsFit(tally, Finished(Phase), Served(at.s), Behind)
    /\ IF at.pc \in VerifyLoop
       THEN tally.passed + tally.failed + tally.skipped = Behind /\ tally.ok
       ELSE tally.failed = 0

SummaryOK ==
  at.pc \in {"verify_next", "bench_next"} /\ ~ Single =>
    /\ CountersAddUp
    /\ tally.failed = 0 => Served(at.s) \subseteq Finished(Phase)

SingleOK ==
  Single =>
    /\ at.pc \in {"bench_destroy", "destroy_stream", "bench_next"} =>
         /\ tally.passed \in {0, 1}
         /\ tally.passed = 1 => <<"benchmark", 1, at.i>> \in seen.done
    /\ at.pc = "bench_next" /\ tally.failed = 0 => tally.passed = 1
    /\ at.pc = "measured" /\ at.timing = "profile" /\ at.ok =>
         <<"profile", 1, at.i>> \in seen.done

\* The records are of the phases and shapes up to the current ones, and none
\* is of a shape that has only begun.
RecordsOf ==
  \A e \in seen.done :
    /\ e \in {"verify", "benchmark", "profile"} \X (1 .. Len(cmd.shapes))
               \X ConfigIds
    /\ \E q \in 1 .. at.phase :
         /\ e[1] = Phases(cmd.mode)[q]
         /\ q = at.phase => e[2] <= at.s
RecordsOK ==
  /\ RecordsOf
  /\ Fresh \/ at.pc \in {"main", "handle", "problem"} => Finished(Phase) = {}

\* Shapes of this phase that are behind.
ShapesDone ==
  IF at.pc \in {"verify_destroy"} \cup FileCalls THEN at.s ELSE at.s - 1

Recorded(p, k) ==
  \A c \in ConfigIds : Supports(c, k) /\ (Single => c = at.i) =>
    <<p, k, c>> \in seen.done
DoneOK ==
  /\ at.pc \in {"verify_destroy"} \cup FileCalls => at.s = Len(cmd.shapes)
  /\ all_ok =>
       /\ \A q \in 1 .. at.phase - 1 : \A k \in 1 .. Len(cmd.shapes) :
            Recorded(Phases(cmd.mode)[q], k)
       /\ \A k \in 1 .. ShapesDone : Recorded(Phase, k)

-----------------------------------------------------------------------------
(* The ranking and the file.                                               *)

Result ==
  [ok : BOOLEAN, skipped : BOOLEAN, latency : Nat, throughput : Nat]

ResultsOK ==
  /\ results \in Seq(Result)
  /\ \A x \in DOMAIN results :
       /\ results[x].ok => ~ results[x].skipped
       /\ results[x].ok => results[x].latency \in Latencies
       /\ results[x].throughput = gemm_tflops(results[x].latency)

BestOK ==
  IF best.config = Null
  THEN \A x \in DOMAIN results : ~ results[x].ok
  ELSE /\ best.config \in DOMAIN results /\ results[best.config].ok
       /\ best.throughput = results[best.config].throughput
       /\ \A x \in DOMAIN results : results[x].ok =>
            /\ results[x].throughput <= best.throughput
            /\ x < best.config => results[x].throughput < best.throughput

RankingOK ==
  /\ at.pc = "measured" => at.ms \in Latencies \cup {0}
  /\ at.pc = "measured" /\ at.ok /\ at.timing # "profile" =>
       at.ms \in Latencies
  /\ ~ Single /\ (InBench \/ at.pc \in {"destroy_stream", "bench_next"}) =>
       ResultsOK /\ BestOK
  /\ ~ Single /\ (InBench \/ at.pc = "destroy_stream") =>
       Len(results) = Behind
  /\ InBench \/ at.pc \in {"bench_destroy", "destroy_stream", "bench_next"} =>
       (best.config = Null <=> tally.passed = 0)

Lines ==
  /\ Len(file.lines) <= Len(best_results)
  /\ file.lines = SubSeq(best_results, 1, Len(file.lines))
LinesOK ==
  /\ \A k \in DOMAIN best_results : best_results[k].shape <= ShapesDone
  /\ cmd.mode = "benchmark" /\ all_ok => Len(best_results) = ShapesDone
  /\ cmd.mode # "benchmark" => best_results = << >>
  /\ file.state = IF at.pc \in {"write", "close"} THEN "open" ELSE "old"
  /\ at.pc \in {"write", "close"} => Lines
  /\ at.pc = "close" => ~ at.ok

-----------------------------------------------------------------------------
(* The inductive invariant.                                                *)

Devices == [ctx : {"live", "faulting", "dead"}, last : BOOLEAN,
            faults : 0 .. MaxFaults]
Tallies == [passed : Nat, failed : 0 .. kGemmConfigCount, skipped : Nat,
            ok : BOOLEAN]
Bests == [config : ConfigIds \cup {Null}, latency : Nat, throughput : Nat]
Histories ==
  [blemish : BOOLEAN, done : SUBSET ({"verify", "benchmark", "profile"}
     \X Nat \X Nat), accepted : SUBSET Differences]
FileLines == [shape : Nat, best : Bests]
Files == [state : {"old", "open", "closed"}, lines : Seq(FileLines)]

DriverTypes ==
  /\ cmd \in Commands /\ at \in Places /\ cuda \in Devices
  /\ held \in [Objects -> 0 .. 1]
  /\ tally \in Tallies /\ best \in Bests /\ seen \in Histories
  /\ best_results \in Seq(FileLines) /\ file \in Files
  /\ all_ok \in BOOLEAN
  /\ exit \in {"running", "success", "failure", "died"}

\* The lines for BEST.txt are in the order of the shapes.
Ordered ==
  \A k \in 2 .. Len(best_results) :
    best_results[k - 1].shape < best_results[k].shape

DataInv ==
  /\ FreshOK /\ CountsOK /\ SummaryOK /\ SingleOK /\ RecordsOK /\ DoneOK
  /\ RankingOK /\ LinesOK
RunningInv == ControlOK /\ HeldOK /\ DeviceOK /\ FailuresOK /\ DataInv

\* What is claimed of the process when it has ended.
EndedInv == SuccessIsEarned /\ FailureHasCause /\ NothingLeft /\ BestFile

DriverInv ==
  /\ DriverTypes /\ Ordered
  /\ exit = "running" => RunningInv
  /\ exit # "running" => EndedInv

-----------------------------------------------------------------------------
(* Constants and command lines.                                            *)

LEMMA ConstantFacts ==
  /\ kGemmConfigCount \in Nat
  /\ kWarmupIterations \in Nat /\ kBenchmarkIterations \in Nat \ {0}
  /\ Latencies \subseteq Nat /\ Flops \in Nat \ {0} /\ MaxFaults \in Nat
  /\ Len(kTestShapes) \in Nat \ {0}
<1>1. kGemmConfigCount \in Nat
  BY ListsAssumption DEF kGemmConfigCount
<1>2. Len(kTestShapes) \in Nat \ {0}
  BY ListsAssumption
<1> QED
  BY <1>1, <1>2, DriverAssumption

LEMMA CommandFacts ==
  ASSUME cmd \in Commands
  PROVE  /\ cmd.mode \in Modes
         /\ Len(cmd.shapes) \in Nat \ {0}
         /\ cmd.mode \notin {"verify", "benchmark"} => Len(cmd.shapes) = 1
<1>1. CASE cmd \in [mode : {"verify", "benchmark"}, shapes : {kTestShapes}]
  BY <1>1, ConstantFacts DEF Modes, AllConfigModes
<1>2. CASE cmd \in [mode : {"shape_benchmark", "shape_test", "profile"},
                    shapes : {<<x>> : x \in CustomShapes}]
  <2>1. PICK x \in CustomShapes : cmd.shapes = <<x>>
    BY <1>2
  <2>2. Len(cmd.shapes) = 1
    BY <2>1
  <2> QED
    BY <1>2, <2>2 DEF Modes, AllConfigModes, SingleModes
<1>3. CASE cmd \in [mode : {"func", "func_verify", "func_benchmark", "usage"},
                    shapes : {<<FuncShape>>}]
  <2>1. Len(cmd.shapes) = 1
    BY <1>3
  <2> QED
    BY <1>3, <2>1 DEF Modes, SingleModes
<1> QED
  BY <1>1, <1>2, <1>3 DEF Commands

\* The phases of a mode, one by one.
VerifyFirst == {"verify", "func_verify", "shape_test", "func"}
TwoPhases == {"shape_test", "func"}
BenchmarkOnly == {"benchmark", "shape_benchmark", "func_benchmark"}

LEMMA PhaseDomain ==
  ASSUME NEW m \in Modes
  PROVE  DOMAIN Phases(m) = 1 .. Len(Phases(m))
<1>1. Phases(m) \in Seq({"verify", "benchmark", m})
  <2>1. CASE m \in {"verify", "func_verify"}
    BY <2>1 DEF Phases
  <2>2. CASE m \in BenchmarkOnly
    BY <2>2 DEF Phases, BenchmarkOnly
  <2>3. CASE m \in TwoPhases
    BY <2>3 DEF Phases, TwoPhases
  <2>4. CASE m \in {"profile", "usage"}
    BY <2>4 DEF Phases
  <2> QED
    BY <2>1, <2>2, <2>3, <2>4
    DEF Modes, AllConfigModes, SingleModes, BenchmarkOnly, TwoPhases
<1> QED
  BY <1>1

LEMMA PhaseFacts ==
  ASSUME NEW m \in Modes
  PROVE  /\ Len(Phases(m)) = IF m \in TwoPhases THEN 2 ELSE 1
         /\ Phases(m)[1] = IF m \in VerifyFirst THEN "verify"
                           ELSE IF m \in BenchmarkOnly THEN "benchmark" ELSE m
         /\ m \in TwoPhases => Phases(m)[2] = "benchmark"
<1>1. CASE m \in {"verify", "func_verify"}
  BY <1>1 DEF Phases, TwoPhases, VerifyFirst
<1>2. CASE m \in BenchmarkOnly
  BY <1>2 DEF Phases, TwoPhases, VerifyFirst, BenchmarkOnly
<1>3. CASE m \in TwoPhases
  BY <1>3 DEF Phases, TwoPhases, VerifyFirst, BenchmarkOnly
<1>4. CASE m \in {"profile", "usage"}
  BY <1>4 DEF Phases, TwoPhases, VerifyFirst, BenchmarkOnly
<1> QED
  BY <1>1, <1>2, <1>3, <1>4
  DEF Modes, AllConfigModes, SingleModes, BenchmarkOnly, TwoPhases

-----------------------------------------------------------------------------
(* Steps that change no counter and stay at the same part of the loops.    *)

Fixed ==
  cmd' = cmd /\ at'.phase = at.phase /\ at'.s = at.s /\ at'.i = at.i
SameRecords ==
  /\ UNCHANGED <<tally, results, best, best_results, all_ok, file>>
  /\ seen'.done = seen.done

Marks ==
  {"main", "handle", "problem", "bench_destroy", "destroy_stream",
   "verify_next", "bench_next", "verify_destroy"} \cup FileCalls
SameStage ==
  /\ at.pc \notin Marks /\ at'.pc \notin Marks
  /\ at'.pc \in VerifyLoop <=> at.pc \in VerifyLoop
  /\ InBench' <=> InBench
  /\ Fresh' => Fresh

\* What is known of a measurement.
MeasuredOK ==
  at.pc = "measured" =>
    /\ at.ms \in Latencies \cup {0}
    /\ at.ok /\ at.timing # "profile" => at.ms \in Latencies
    /\ Single /\ at.timing = "profile" /\ at.ok =>
         <<"profile", 1, at.i>> \in seen.done

LEMMA QuietStep ==
  ASSUME DriverTypes, DataInv, Fixed, SameRecords, SameStage, MeasuredOK'
  PROVE  DataInv'
<1>1. /\ Phase' = Phase /\ (Single' <=> Single)
      /\ \A c, k : Supports(c, k)' <=> Supports(c, k)
      /\ \A p : Finished(p)' = Finished(p)
  BY DEF Fixed, SameRecords, Phase, Single, Supports, Finished
<1>2. (Counting' <=> Counting) /\ Behind' = Behind
  <2>1. at'.pc \in VerifyLoop <=> at.pc \in VerifyLoop
    BY DEF SameStage
  <2>2. InBench' <=> InBench
    BY DEF SameStage
  <2>3. at.pc \notin {"bench_destroy", "destroy_stream"}
        /\ at'.pc \notin {"bench_destroy", "destroy_stream"}
    BY DEF SameStage, Marks
  <2>4. Behind = (IF at.pc \in VerifyLoop \/ InBench THEN at.i - 1
                  ELSE kGemmConfigCount)
    BY <2>3 DEF Behind, InBench
  <2>5. Behind' = (IF at'.pc \in VerifyLoop \/ InBench' THEN at'.i - 1
                   ELSE kGemmConfigCount)
    BY <2>3 DEF Behind, InBench
  <2> QED
    BY <1>1, <2>1, <2>2, <2>3, <2>4, <2>5 DEF Counting, Fixed
<1>3. /\ at.pc \notin {"main", "handle", "problem", "bench_destroy",
                       "destroy_stream", "verify_next", "bench_next",
                       "verify_destroy", "open", "write", "close"}
      /\ at'.pc \notin {"main", "handle", "problem", "bench_destroy",
                       "destroy_stream", "verify_next", "bench_next",
                       "verify_destroy", "open", "write", "close"}
  BY DEF SameStage, Marks, FileCalls
<1>4. FreshOK'
  BY DEF DataInv, FreshOK, SameStage, SameRecords
<1>5. CountsOK'
  <2>1. at'.pc \in VerifyLoop <=> at.pc \in VerifyLoop
    BY DEF SameStage
  <2>2. tally' = tally /\ at'.s = at.s
    BY DEF SameRecords, Fixed
  <2> SUFFICES ASSUME Counting' PROVE CountsOK'
    BY DEF CountsOK
  <2>3. Finished(Phase)' = Finished(Phase) /\ Served(at.s)' = Served(at.s)
    BY <1>1, <2>2 DEF Served, Finished, Fixed, SameRecords
  <2> QED
    BY <1>2, <2>1, <2>2, <2>3 DEF DataInv, CountsOK, CountsFit
<1>6. SummaryOK'
  BY <1>3 DEF SummaryOK
<1>7. SingleOK'
  BY <1>1, <1>3 DEF SingleOK, MeasuredOK, Fixed
<1>8. RecordsOK'
  BY <1>1, <1>3 DEF DataInv, RecordsOK, RecordsOf, SameStage, SameRecords, Fixed
<1>9. DoneOK'
  <2>1. ShapesDone' = ShapesDone
    BY <1>3 DEF ShapesDone, FileCalls, Fixed
  <2>2. \A p, k : Recorded(p, k)' <=> Recorded(p, k)
    BY <1>1 DEF Recorded, Fixed, SameRecords
  <2> QED
    BY <1>1, <1>3, <2>1, <2>2
    DEF DataInv, DoneOK, Fixed, SameRecords, FileCalls
<1>10. RankingOK'
  <2>1. InBench' <=> InBench
    BY DEF SameStage
  <2>2. UNCHANGED <<tally, results, best>>
    BY DEF SameRecords
  <2>3. (ResultsOK' <=> ResultsOK) /\ (BestOK' <=> BestOK)
    BY <2>2 DEF ResultsOK, BestOK
  <2> QED
    BY <1>1, <1>2, <1>3, <2>1, <2>2, <2>3
    DEF DataInv, RankingOK, MeasuredOK
<1>11. LinesOK'
  <2>1. ShapesDone' = ShapesDone
    BY <1>3 DEF ShapesDone, FileCalls, Fixed
  <2> QED
    BY <1>3, <2>1 DEF DataInv, LinesOK, Fixed, SameRecords
<1> QED
  BY <1>4, <1>5, <1>6, <1>7, <1>8, <1>9, <1>10, <1>11 DEF DataInv

-----------------------------------------------------------------------------
(* Places and calls.                                                       *)

SamePlace(a, b) == b.phase = a.phase /\ b.s = a.s /\ b.i = a.i
SameRun(a, b) ==
  b.n = a.n /\ b.timing = a.timing /\ b.ok = a.ok /\ b.ms = a.ms

\* The updates of the control state, one by one.
LEMMA PlaceTypes ==
  ASSUME NEW a \in Places
  PROVE  /\ \A p \in Calls : [a EXCEPT !.pc = p] \in Places
         /\ \A p \in 1 .. 2 : [a EXCEPT !.phase = p] \in Places
         /\ \A s \in 1 .. Len(cmd.shapes) : [a EXCEPT !.s = s] \in Places
         /\ \A i \in 1 .. kGemmConfigCount + 1 : [a EXCEPT !.i = i] \in Places
         /\ \A n \in 0 .. (kWarmupIterations + kBenchmarkIterations) :
              [a EXCEPT !.n = n] \in Places
         /\ \A t \in {"cublas", "config", "profile"} :
              [a EXCEPT !.timing = t] \in Places
         /\ \A ok \in BOOLEAN : [a EXCEPT !.ok = ok] \in Places
         /\ \A ms \in Latencies \cup {0} : [a EXCEPT !.ms = ms] \in Places
<1>1. \A p \in Calls : [a EXCEPT !.pc = p] \in Places
  BY DEF Places
<1>2. \A p \in 1 .. 2 : [a EXCEPT !.phase = p] \in Places
  BY DEF Places
<1>3. \A s \in 1 .. Len(cmd.shapes) : [a EXCEPT !.s = s] \in Places
  BY DEF Places
<1>4. \A i \in 1 .. kGemmConfigCount + 1 : [a EXCEPT !.i = i] \in Places
  BY DEF Places
<1>5. \A n \in 0 .. (kWarmupIterations + kBenchmarkIterations) :
        [a EXCEPT !.n = n] \in Places
  BY DEF Places
<1>6. \A t \in {"cublas", "config", "profile"} :
        [a EXCEPT !.timing = t] \in Places
  BY DEF Places
<1>7. \A ok \in BOOLEAN : [a EXCEPT !.ok = ok] \in Places
  BY DEF Places
<1>8. \A ms \in Latencies \cup {0} : [a EXCEPT !.ms = ms] \in Places
  BY DEF Places
<1> QED
  BY <1>1, <1>2, <1>3, <1>4, <1>5, <1>6, <1>7, <1>8

LEMMA GoFacts ==
  ASSUME NEW a \in Places, NEW p \in Calls, NEW b, b = [a EXCEPT !.pc = p]
  PROVE  b \in Places /\ b.pc = p /\ SamePlace(a, b) /\ SameRun(a, b)
<1>1. b \in Places
  BY PlaceTypes
<1> QED
  BY <1>1 DEF Places, SamePlace, SameRun

LEMMA CountFacts ==
  ASSUME NEW a \in Places, NEW b, b = [a EXCEPT !.n = @ + 1],
         a.n < kWarmupIterations \/ a.n < kBenchmarkIterations
  PROVE  /\ b \in Places /\ b.pc = a.pc /\ b.n = a.n + 1 /\ SamePlace(a, b)
         /\ b.timing = a.timing /\ b.ok = a.ok /\ b.ms = a.ms
<1>1. a.n + 1 \in 0 .. (kWarmupIterations + kBenchmarkIterations)
  BY ConstantFacts DEF Places
<1>2. b \in Places
  BY <1>1, PlaceTypes
<1> QED
  BY <1>2 DEF Places, SamePlace

LEMMA ReturnFacts ==
  ASSUME at \in Places, NEW ok \in BOOLEAN, LauncherReturns(ok)
  PROVE  /\ at' \in Places /\ at'.pc = "measured" /\ at'.n = 0 /\ at'.ok = ok
         /\ SamePlace(at, at') /\ at'.timing = at.timing /\ at'.ms = at.ms
<1> DEFINE c == [at EXCEPT !.pc = "measured"]
           d == [c EXCEPT !.n = 0]
<1>1. c \in Places
  BY PlaceTypes DEF Calls
<1>2. d \in Places
  <2>1. 0 \in 0 .. (kWarmupIterations + kBenchmarkIterations)
    BY ConstantFacts
  <2> HIDE DEF c
  <2> QED
    BY <1>1, <2>1, PlaceTypes
<1>3. [d EXCEPT !.ok = ok] \in Places
  <2> HIDE DEF d
  <2> QED
    BY <1>2, PlaceTypes
<1>4. at' = [d EXCEPT !.ok = ok]
  BY DEF LauncherReturns
<1> QED
  BY <1>3, <1>4 DEF Places, SamePlace

LEMMA StartFacts ==
  ASSUME at \in Places, NEW t \in {"cublas", "config", "profile"},
         StartLauncher(t)
  PROVE  /\ at' \in Places /\ at'.pc = "warmup" /\ at'.n = 0
         /\ at'.timing = t /\ SamePlace(at, at')
<1> DEFINE c == [at EXCEPT !.pc = "warmup"]
           d == [c EXCEPT !.n = 0]
<1>1. c \in Places
  BY PlaceTypes DEF Calls
<1>2. d \in Places
  <2>1. 0 \in 0 .. (kWarmupIterations + kBenchmarkIterations)
    BY ConstantFacts
  <2> HIDE DEF c
  <2> QED
    BY <1>1, <2>1, PlaceTypes
<1>3. [d EXCEPT !.timing = t] \in Places
  <2> HIDE DEF d
  <2> QED
    BY <1>2, PlaceTypes
<1>4. at' = [d EXCEPT !.timing = t]
  BY DEF StartLauncher
<1> QED
  BY <1>3, <1>4 DEF Places, SamePlace

\* What a call that returns leaves behind.
CallReturns(ok, waits) ==
  /\ cuda' \in Devices /\ seen' \in Histories
  /\ seen'.blemish = (seen.blemish \/ ~ ok) /\ seen'.done = seen.done
  /\ ok => cuda' = cuda
  /\ ok /\ waits => cuda.ctx = "live"

LEMMA NotedFacts ==
  ASSUME seen \in Histories, NEW ok \in BOOLEAN, Noted(ok)
  PROVE  /\ seen' \in Histories /\ seen'.done = seen.done
         /\ seen'.blemish = (seen.blemish \/ ~ ok)
BY DEF Noted, Histories

LEMMA FailsFacts ==
  ASSUME cuda \in Devices, NEW left, left \subseteq BOOLEAN, Fails(left)
  PROVE  cuda' \in Devices /\ (cuda.ctx = "live" => cuda'.ctx = "live")
<1>1. CASE cuda.ctx # "live" /\ cuda' = [cuda EXCEPT !.ctx = "dead"]
  BY <1>1 DEF Devices
<1>2. CASE /\ cuda.ctx = "live" /\ Room
           /\ \E l \in left :
                cuda' = [cuda EXCEPT !.faults = @ + 1, !.last = @ \/ l]
  <2>1. PICK l \in left :
          cuda' = [cuda EXCEPT !.faults = @ + 1, !.last = @ \/ l]
    BY <1>2
  <2>2. cuda.faults + 1 \in 0 .. MaxFaults
    BY <1>2, ConstantFacts DEF Room, Devices
  <2> QED
    BY <1>2, <2>1, <2>2 DEF Devices
<1> QED
  BY <1>1, <1>2 DEF Fails

LEMMA CheckedFacts ==
  ASSUME DriverTypes, NEW ok \in BOOLEAN, NEW waits \in BOOLEAN,
         Checked(ok, waits)
  PROVE  CallReturns(ok, waits)
<1>1. CASE ok
  BY <1>1, NotedFacts DEF Checked, Succeeds, CallReturns, DriverTypes
<1>2. CASE ~ ok
  BY <1>2, NotedFacts, FailsFacts DEF Checked, CallReturns, DriverTypes
<1> QED
  BY <1>1, <1>2

LEMMA CublasFacts ==
  ASSUME DriverTypes, NEW ok \in BOOLEAN, CheckedCublas(ok)
  PROVE  CallReturns(ok, FALSE)
<1>1. CASE ok
  BY <1>1, NotedFacts DEF CheckedCublas, Succeeds, CallReturns, DriverTypes
<1>2. CASE ~ ok
  BY <1>2, NotedFacts, FailsFacts DEF CheckedCublas, CallReturns, DriverTypes
<1> QED
  BY <1>1, <1>2

\* A launch that succeeds may have started a kernel that faults.
LaunchReturns(ok) ==
  /\ cuda' \in Devices /\ seen' \in Histories
  /\ seen'.blemish = (seen.blemish \/ ~ ok) /\ seen'.done = seen.done
  /\ ok => cuda'.ctx \in {"live", "faulting"}

LEMMA LaunchFacts ==
  ASSUME DriverTypes, NEW ok \in BOOLEAN, Launch(ok)
  PROVE  LaunchReturns(ok)
<1>1. CASE ok
  <2>1. CASE UNCHANGED cuda
    BY <1>1, <2>1 DEF Launch, LaunchReturns, DriverTypes, Devices, Histories
  <2>2. CASE cuda.ctx = "live" /\ Room
              /\ cuda' = [cuda EXCEPT !.ctx = "faulting", !.faults = @ + 1]
    <3>1. cuda.faults + 1 \in 0 .. MaxFaults
      BY <2>2, ConstantFacts DEF Room, DriverTypes, Devices
    <3>2. cuda' \in Devices /\ cuda'.ctx = "faulting"
      BY <2>2, <3>1 DEF DriverTypes, Devices
    <3> QED
      BY <1>1, <3>2 DEF Launch, LaunchReturns, DriverTypes, Histories
  <2> QED
    BY <1>1, <2>1, <2>2 DEF Launch
<1>2. CASE ~ ok /\ cuda.ctx = "live" /\ cuda.last
  <2>1. cuda' \in Devices
    BY <1>2 DEF Launch, DriverTypes, Devices
  <2> QED
    BY <1>2, <2>1, NotedFacts DEF Launch, LaunchReturns, DriverTypes
<1>3. CASE ~ ok /\ ~ (cuda.ctx = "live" /\ cuda.last)
  BY <1>3, NotedFacts, FailsFacts DEF Launch, LaunchReturns, DriverTypes
<1> QED
  BY <1>1, <1>2, <1>3

-----------------------------------------------------------------------------
(* Objects, types and failures after a step.                               *)

Amounts == [Objects -> Int]

LEMMA ObjectFacts ==
  ASSUME held \in [Objects -> 0 .. 1], NEW S
  PROVE  /\ Created(S) \in Amounts /\ Destroyed(S) \in Amounts
         /\ \A o \in Objects :
              /\ Created(S)[o] = IF o \in S THEN held[o] + 1 ELSE held[o]
              /\ Destroyed(S)[o] = IF o \in S THEN held[o] - 1 ELSE held[o]
BY DEF Created, Destroyed, Amounts

LEMMA HeldTypes ==
  ASSUME held' \in Amounts, HeldOK'
  PROVE  held' \in [Objects -> 0 .. 1]
<1>1. \A o \in Objects : held'[o] \in 0 .. 1
  BY DEF HeldOK, Objects, Events
<1> QED
  BY <1>1 DEF Amounts

LEMMA TypesStep ==
  ASSUME DriverTypes, Ordered, cmd' = cmd, at' \in Places, cuda' \in Devices,
         held' \in Amounts, HeldOK', tally' \in Tallies, best' \in Bests,
         seen' \in Histories, UNCHANGED <<best_results, file>>,
         all_ok' \in BOOLEAN, exit' = exit
  PROVE  DriverTypes' /\ Ordered'
<1>1. at' \in Places'
  BY DEF Places
<1> QED
  BY <1>1, HeldTypes
  DEF DriverTypes, Ordered, Devices, Tallies, Bests, Histories, FileLines,
      Files

\* A call notices the fault of a kernel, or leaves a device without a fault.
LEMMA DeviceStep ==
  ASSUME DriverTypes, DeviceOK, NEW ok \in BOOLEAN, NEW waits \in BOOLEAN,
         CallReturns(ok, waits),
         waits \/ at.pc \notin Unawaited \/ (ok => at'.pc \in Unawaited)
  PROVE  DeviceOK'
BY DEF DeviceOK, CallReturns, DriverTypes, Histories, Devices

LEMMA LaunchedStep ==
  ASSUME DriverTypes, DeviceOK, NEW ok \in BOOLEAN, LaunchReturns(ok),
         ok => at'.pc \in Unawaited
  PROVE  DeviceOK'
BY DEF DeviceOK, LaunchReturns, DriverTypes, Histories, Devices

\* A call of the launcher: every failure makes it return.
LauncherPlaces == Launcher \cup ProfileCalls
LEMMA LauncherStep ==
  ASSUME DriverTypes, RunningInv, Fixed, SameRecords, NEW ok \in BOOLEAN,
         at.pc \in LauncherPlaces \ {"measured"}, at'.pc \in LauncherPlaces,
         at'.timing = at.timing,
         at'.timing = "profile" =>
           at'.pc \in {"warmup", "measured"} \cup ProfileCalls,
         at'.pc \in ProfileCalls => at'.timing = "profile",
         at'.pc \in {"create_start", "create_stop", "record_start"} =>
           at'.n = 0,
         at'.pc = "warmup" => at'.n <= kWarmupIterations,
         at'.pc = "timed" => at'.n <= kBenchmarkIterations,
         seen'.blemish = (seen.blemish \/ ~ ok),
         at'.pc = "measured" => at'.ok = ok, at'.pc # "measured" => ok,
         MeasuredOK'
  PROVE  ControlOK' /\ FailuresOK' /\ DataInv'
<1>1. /\ at.pc \in LauncherPlaces /\ at.pc # "measured"
      /\ Phase \in {"benchmark", "profile"}
      /\ at.timing = "profile" <=> Phase = "profile"
      /\ at.pc \in ProfileCalls => at.timing = "profile"
  BY DEF RunningInv, ControlOK, LauncherPlaces, Launcher, ProfileCalls,
         Timing
<1>2. /\ Phase' = Phase /\ (Single' <=> Single)
      /\ Phases(cmd.mode)' = Phases(cmd.mode)
      /\ at'.i = at.i /\ at'.phase = at.phase
      /\ Supported' <=> Supported
  BY DEF Phase, Single, Fixed, Supported
<1>3. /\ at.pc \notin Marks \cup VerifyLoop
      /\ at'.pc \notin Marks \cup VerifyLoop
  BY DEF LauncherPlaces, Launcher, Timing, ProfileCalls, Marks, FileCalls,
         VerifyLoop
<1>4. /\ OfConfig <=> at.timing = "config"
      /\ OfConfig' <=> at'.timing = "config"
      /\ OfCublas <=> at.timing = "cublas"
      /\ OfCublas' <=> at'.timing = "cublas"
  BY <1>1 DEF OfConfig, OfCublas, LauncherPlaces
<1>5. (InBench <=> OfConfig) /\ (InBench' <=> OfConfig')
  BY DEF InBench, LauncherPlaces, Launcher, Timing, ProfileCalls
<1>6. /\ Fresh <=> OfCublas \/ (Single /\ InBench)
      /\ Fresh' <=> OfCublas' \/ (Single' /\ InBench')
  BY <1>3 DEF Fresh, LauncherPlaces, Launcher, Timing, ProfileCalls, Marks
<1>7. SameStage
  BY <1>2, <1>3, <1>4, <1>5, <1>6 DEF SameStage
<1>8. DataInv'
  BY <1>7, QuietStep DEF RunningInv
<1>9. ControlOK'
  <2>1. at'.phase <= Len(Phases(cmd.mode)') /\ cmd'.mode # "usage"
    BY <1>1, <1>2
    DEF RunningInv, ControlOK, Fixed, LauncherPlaces, Launcher, Timing,
        ProfileCalls
  <2>2. at'.i <= kGemmConfigCount \/ ~ Single
    BY <1>1, <1>2
    DEF RunningInv, ControlOK, LauncherPlaces, Launcher, Timing, ProfileCalls
  <2>3. OfConfig' => at'.i <= kGemmConfigCount /\ (Single \/ Supported)
    BY <1>2, <1>4 DEF RunningInv, ControlOK
  <2>4. at'.pc \notin {"main", "stream", "reference_destroy", "bench_destroy",
                       "verify_next", "verify_destroy", "verify_sync",
                       "verify_compare"} \cup VerifyCalls \cup BenchCalls
                       \cup FileCalls
    BY DEF LauncherPlaces, Launcher, Timing, ProfileCalls, VerifyCalls,
           VerifyLoop, BenchCalls, FileCalls
  <2> QED
    BY <1>1, <1>2, <2>1, <2>2, <2>3, <2>4
    DEF ControlOK, LauncherPlaces, Launcher, Timing, ProfileCalls
<1>10. FailuresOK'
  <2>1. UNCHANGED <<tally, all_ok>> /\ (NothingToRank' <=> NothingToRank)
    BY DEF SameRecords, NothingToRank, Fixed, config_supports_problem
  <2>2. Behind' = Behind
    BY <1>2, <1>3, <1>4
    DEF Behind, Marks, LauncherPlaces, Launcher, Timing, ProfileCalls
  <2>3. Lost <=> ~ Single /\ InBench /\ tally.passed + tally.skipped < Behind
    BY <1>1, <1>3 DEF Lost, Marks, FileCalls, LauncherPlaces, Launcher,
                      Timing, ProfileCalls
  <2>4. Lost' <=> \/ ~ Single' /\ InBench'
                     /\ tally'.passed + tally'.skipped < Behind'
                  \/ at'.pc = "measured" /\ ~ at'.ok
    BY <1>3 DEF Lost, Marks, FileCalls, LauncherPlaces, Launcher,
                Timing, ProfileCalls
  <2>5. Lost' <=> Lost \/ ~ ok
    BY <1>2, <1>4, <1>5, <2>1, <2>2, <2>3, <2>4
  <2> QED
    BY <1>2, <2>1, <2>5 DEF RunningInv, FailuresOK
<1> QED
  BY <1>8, <1>9, <1>10

-----------------------------------------------------------------------------
(* The launcher, call by call.                                             *)

\* What a step has to establish, when the program goes on and when it ends.
Continues == DriverTypes' /\ Ordered' /\ exit' = "running" /\ RunningInv'
Finishes == DriverTypes' /\ Ordered' /\ exit' # "running" /\ EndedInv'
Alive == DriverTypes /\ Ordered /\ exit = "running" /\ RunningInv

\* What a call of the launcher leaves behind.
LauncherMoved(ok, next, waits, creates, destroys) ==
  /\ CallReturns(ok, waits)
  /\ at' \in Places /\ SamePlace(at, at') /\ at'.timing = at.timing
  /\ at'.pc = IF ok THEN next ELSE "measured"
  /\ IF ok THEN at'.n = at.n ELSE at'.ok = FALSE
  /\ held' = IF ok THEN Created(creates) ELSE Destroyed(destroys)

LEMMA LauncherMove ==
  ASSUME DriverTypes, NEW here, NEW next \in Calls, NEW waits \in BOOLEAN,
         NEW creates, NEW destroys,
         LauncherCall(here, next, waits, creates, destroys)
  PROVE  /\ at.pc = here
         /\ UNCHANGED <<cmd, report, all_ok, file, exit>>
         /\ \E ok \in BOOLEAN :
              LauncherMoved(ok, next, waits, creates, destroys)
<1>1. PICK ok \in BOOLEAN :
        /\ Checked(ok, waits)
        /\ IF ok THEN Go(next) /\ held' = Created(creates)
                 ELSE LauncherReturns(FALSE) /\ held' = Destroyed(destroys)
  BY DEF LauncherCall
<1>2. CallReturns(ok, waits)
  BY <1>1, CheckedFacts
<1>3. at \in Places
  BY DEF DriverTypes
<1>4. /\ at' \in Places /\ SamePlace(at, at') /\ at'.timing = at.timing
      /\ at'.pc = IF ok THEN next ELSE "measured"
      /\ IF ok THEN at'.n = at.n ELSE at'.ok = FALSE
  <2>1. CASE ok
    <3>1. at' = [at EXCEPT !.pc = next]
      BY <1>1, <2>1 DEF Go
    <3> QED
      BY <1>3, <2>1, <3>1, GoFacts DEF SameRun
  <2>2. CASE ~ ok
    <3>1. LauncherReturns(FALSE)
      BY <1>1, <2>2
    <3>2. /\ at' \in Places /\ at'.pc = "measured" /\ at'.ok = FALSE
          /\ SamePlace(at, at') /\ at'.timing = at.timing
      BY <1>3, <3>1, ReturnFacts
    <3> QED
      BY <2>2, <3>2
  <2> QED
    BY <2>1, <2>2
<1>5. held' = IF ok THEN Created(creates) ELSE Destroyed(destroys)
  BY <1>1
<1>6. at.pc = here /\ UNCHANGED <<cmd, report, all_ok, file, exit>>
  BY DEF LauncherCall, Running
<1>7. LauncherMoved(ok, next, waits, creates, destroys)
  BY <1>2, <1>4, <1>5 DEF LauncherMoved
<1> QED
  BY <1>6, <1>7

LEMMA LauncherCallStep ==
  ASSUME Alive, NEW here, NEW next, NEW waits \in BOOLEAN, NEW creates,
         NEW destroys, LauncherCall(here, next, waits, creates, destroys),
         \/ /\ here = "create_start" /\ next = "create_stop"
            /\ creates = {"start"} /\ destroys = {}
         \/ /\ here = "create_stop" /\ next = "record_start"
            /\ creates = {"stop"} /\ destroys = {"start"}
         \/ /\ here = "record_start" /\ next = "timed"
            /\ creates = {} /\ destroys = Events
         \/ /\ here = "timed" /\ next = "stop_sync"
            /\ creates = {} /\ destroys = Events
         \/ /\ here = "stop_sync" /\ next = "elapsed" /\ waits
            /\ creates = {} /\ destroys = Events
  PROVE  Continues
<1>1. next \in Calls /\ here \in {"create_start", "create_stop"} \cup Timing
      /\ next \in {"create_stop"} \cup Timing
  BY DEF Calls, Timing
<1>2. PICK ok \in BOOLEAN :
        /\ CallReturns(ok, waits)
        /\ at' \in Places /\ SamePlace(at, at') /\ at'.timing = at.timing
        /\ at'.pc = IF ok THEN next ELSE "measured"
        /\ IF ok THEN at'.n = at.n ELSE at'.ok = FALSE
        /\ held' = IF ok THEN Created(creates) ELSE Destroyed(destroys)
  BY <1>1, LauncherMove DEF Alive, LauncherMoved
<1>3. at.pc = here /\ UNCHANGED <<cmd, report, all_ok, file, exit>>
  BY <1>1, LauncherMove DEF Alive
<1>4. /\ DriverTypes /\ Ordered /\ RunningInv /\ exit' = "running"
      /\ held \in [Objects -> 0 .. 1]
  BY <1>3 DEF Alive, DriverTypes
<1>5. at.timing # "profile" /\ Phase = "benchmark"
  BY <1>1, <1>3, <1>4 DEF RunningInv, ControlOK, Launcher, Timing
<1>6. Fixed /\ SameRecords
  BY <1>2, <1>3 DEF Fixed, SamePlace, SameRecords, report, CallReturns
<1>7. ControlOK' /\ FailuresOK' /\ DataInv'
  <2>1. at.pc \in LauncherPlaces \ {"measured"} /\ at'.pc \in LauncherPlaces
    BY <1>1, <1>2, <1>3 DEF LauncherPlaces, Launcher, Timing
  <2>2. /\ at'.pc \in {"create_start", "create_stop", "record_start"} =>
             at'.n = 0
        /\ at'.pc = "timed" => at'.n <= kBenchmarkIterations
        /\ at'.pc # "warmup" /\ at'.pc \notin ProfileCalls
    <3>1. at.pc \in {"create_start", "create_stop", "record_start"} =>
            at.n = 0
      BY <1>4 DEF RunningInv, ControlOK
    <3> QED
      BY <1>2, <1>3, <3>1, ConstantFacts DEF ProfileCalls
  <2>3. /\ seen'.blemish = (seen.blemish \/ ~ ok)
        /\ at'.pc = "measured" => at'.ok = ok
        /\ at'.pc # "measured" => ok
    BY <1>1, <1>2 DEF CallReturns
  <2>4. MeasuredOK'
    BY <1>1, <1>2 DEF MeasuredOK, Places, Timing
  <2> QED
    BY <1>2, <1>4, <1>5, <1>6, <2>1, <2>2, <2>3, <2>4, LauncherStep
<1>8. held' \in Amounts /\ HeldOK'
  <2>1. held' \in Amounts
    BY <1>2, <1>4, ObjectFacts
  <2>2. Phase' = Phase /\ HasHandle /\ HasStream /\ HasHandle' /\ HasStream'
    BY <1>1, <1>2, <1>3, <1>5, <1>6
    DEF HasHandle, HasStream, Launcher, Timing, Fixed, Phase
  <2>3. /\ held'["handle"] = held["handle"]
        /\ held'["stream"] = held["stream"]
    BY <1>2, <1>4, ObjectFacts DEF Objects, Events
  <2>4. /\ held'["start"] = IF HasStart' THEN 1 ELSE 0
        /\ held'["stop"] = IF HasStop' THEN 1 ELSE 0
    <3>1. /\ held["start"] = IF HasStart THEN 1 ELSE 0
          /\ held["stop"] = IF HasStop THEN 1 ELSE 0
      BY <1>4 DEF RunningInv, HeldOK
    <3> QED
      BY <1>2, <1>3, <1>4, <3>1, ObjectFacts
      DEF HasStart, HasStop, Timing, Objects, Events
  <2> QED
    BY <1>4, <2>1, <2>2, <2>3, <2>4 DEF HeldOK, RunningInv
<1>9. DeviceOK'
  BY <1>1, <1>2, <1>3, <1>4, DeviceStep DEF Unawaited, Timing, RunningInv
<1>10. DriverTypes' /\ Ordered'
  BY <1>2, <1>3, <1>4, <1>8, TypesStep DEF report, CallReturns, DriverTypes
<1> QED
  BY <1>4, <1>7, <1>8, <1>9, <1>10 DEF Continues, RunningInv

LEMMA CreateStartStep == ASSUME Alive, CreateStart PROVE Continues
BY LauncherCallStep DEF CreateStart
LEMMA CreateStopStep == ASSUME Alive, CreateStop PROVE Continues
BY LauncherCallStep DEF CreateStop
LEMMA RecordStartStep == ASSUME Alive, RecordStart PROVE Continues
BY LauncherCallStep DEF RecordStart
LEMMA RecordStopStep == ASSUME Alive, RecordStop PROVE Continues
BY LauncherCallStep DEF RecordStop
LEMMA StopSyncStep == ASSUME Alive, StopSync PROVE Continues
BY LauncherCallStep DEF StopSync

\* What the calls of the launcher that are not of that form have in common.
LEMMA LauncherContinues ==
  ASSUME Alive, UNCHANGED <<cmd, report, all_ok, file, exit>>,
         at' \in Places, SamePlace(at, at'), at'.timing = at.timing,
         cuda' \in Devices, seen' \in Histories, seen'.done = seen.done,
         held' \in Amounts, HeldOK', DeviceOK', NEW ok \in BOOLEAN,
         at.pc \in LauncherPlaces \ {"measured"}, at'.pc \in LauncherPlaces,
         at'.timing = "profile" =>
           at'.pc \in {"warmup", "measured"} \cup ProfileCalls,
         at'.pc \in ProfileCalls => at'.timing = "profile",
         at'.pc \in {"create_start", "create_stop", "record_start"} =>
           at'.n = 0,
         at'.pc = "warmup" => at'.n <= kWarmupIterations,
         at'.pc = "timed" => at'.n <= kBenchmarkIterations,
         seen'.blemish = (seen.blemish \/ ~ ok),
         at'.pc = "measured" => at'.ok = ok, at'.pc # "measured" => ok,
         at'.pc = "measured" /\ ok =>
           at'.timing # "profile" /\ at'.ms \in Latencies
  PROVE  Continues
<1>1. Fixed /\ SameRecords
  BY DEF Fixed, SamePlace, SameRecords, report
<1>2. MeasuredOK'
  BY DEF MeasuredOK, Places
<1>3. DriverTypes /\ RunningInv
  BY DEF Alive
<1>4. ControlOK' /\ FailuresOK' /\ DataInv'
  BY <1>1, <1>2, <1>3, LauncherStep
<1>5. DriverTypes' /\ Ordered'
  BY TypesStep DEF Alive, DriverTypes, report
<1>6. exit' = "running"
  BY DEF Alive
<1> QED
  BY <1>4, <1>5, <1>6 DEF Continues, RunningInv

LEMMA SameObjects ==
  ASSUME Alive, held' = held, HasHandle' <=> HasHandle,
         HasStream' <=> HasStream, HasStart' <=> HasStart,
         HasStop' <=> HasStop
  PROVE  held' \in Amounts /\ HeldOK'
BY DEF Alive, DriverTypes, RunningInv, HeldOK, Amounts

LEMMA TimedFacts ==
  ASSUME DriverTypes, NEW ok \in BOOLEAN, LaunchTimed(ok)
  PROVE  LaunchReturns(ok) \/ CallReturns(ok, FALSE)
BY CublasFacts, LaunchFacts DEF LaunchTimed

LEMMA TimedDevice ==
  ASSUME DriverTypes, DeviceOK, NEW ok \in BOOLEAN,
         LaunchReturns(ok) \/ CallReturns(ok, FALSE),
         ok => at'.pc \in Unawaited
  PROVE  /\ DeviceOK' /\ cuda' \in Devices /\ seen' \in Histories
         /\ seen'.blemish = (seen.blemish \/ ~ ok) /\ seen'.done = seen.done
<1>1. CASE LaunchReturns(ok)
  BY <1>1, LaunchedStep DEF LaunchReturns
<1>2. CASE CallReturns(ok, FALSE)
  BY <1>2, DeviceStep DEF CallReturns
<1> QED
  BY <1>1, <1>2

LEMMA WarmupLaunchStep ==
  ASSUME Alive, WarmupLaunch
  PROVE  Continues
<1>1. PICK ok \in BOOLEAN :
        /\ LaunchTimed(ok)
        /\ IF ok THEN at' = AfterLaunch ELSE LauncherReturns(FALSE)
  BY DEF WarmupLaunch
<1>2. /\ at.pc = "warmup" /\ at.n < kWarmupIterations
      /\ UNCHANGED <<cmd, held, report, all_ok, file, exit>>
  BY DEF WarmupLaunch, Running
<1>3. DriverTypes /\ at \in Places /\ DeviceOK
  BY DEF Alive, DriverTypes, RunningInv
<1>4. /\ at' \in Places /\ SamePlace(at, at') /\ at'.timing = at.timing
      /\ ok => at'.pc = "warmup" /\ at'.n = at.n + 1
      /\ ~ ok => at'.pc = "measured" /\ at'.ok = FALSE
  <2>1. CASE ok
    <3>1. at' = [at EXCEPT !.n = @ + 1]
      BY <1>1, <2>1 DEF AfterLaunch
    <3> QED
      BY <1>2, <1>3, <2>1, <3>1, CountFacts
  <2>2. CASE ~ ok
    BY <1>1, <1>3, <2>2, ReturnFacts
  <2> QED
    BY <2>1, <2>2
<1>5. /\ DeviceOK' /\ cuda' \in Devices /\ seen' \in Histories
      /\ seen'.blemish = (seen.blemish \/ ~ ok) /\ seen'.done = seen.done
  BY <1>1, <1>3, <1>4, TimedFacts, TimedDevice DEF Unawaited
<1>6. held' \in Amounts /\ HeldOK'
  <2>1. Phase' = Phase /\ (Single' <=> Single)
    BY <1>2, <1>4 DEF Phase, Single, SamePlace
  <2>2. at.pc = "warmup" /\ at'.pc \in {"warmup", "measured"}
    BY <1>2, <1>4
  <2>3. (HasHandle' <=> HasHandle) /\ (HasStream' <=> HasStream)
    BY <2>1, <2>2 DEF HasHandle, HasStream, Launcher, VerifyLoop
  <2>4. ~ HasStart /\ ~ HasStart' /\ ~ HasStop /\ ~ HasStop'
    BY <2>2 DEF HasStart, HasStop, Timing
  <2> QED
    BY <1>2, <2>3, <2>4, SameObjects
<1>7. at.pc \in LauncherPlaces \ {"measured"} /\ at'.pc \in LauncherPlaces
  BY <1>2, <1>4 DEF LauncherPlaces, Launcher
<1>8. /\ at'.pc \in {"warmup", "measured"} /\ at'.pc \notin ProfileCalls
      /\ at'.pc = "warmup" => at'.n <= kWarmupIterations
  BY <1>2, <1>3, <1>4, ConstantFacts DEF ProfileCalls, Places
<1> QED
  BY <1>1, <1>2, <1>4, <1>5, <1>6, <1>7, <1>8, LauncherContinues

LEMMA TimedLaunchStep ==
  ASSUME Alive, TimedLaunch
  PROVE  Continues
<1>1. PICK ok \in BOOLEAN :
        /\ LaunchTimed(ok)
        /\ IF ok THEN at' = AfterLaunch /\ UNCHANGED held
                 ELSE LauncherReturns(FALSE) /\ held' = Destroyed(Events)
  BY DEF TimedLaunch
<1>2. /\ at.pc = "timed" /\ at.n < kBenchmarkIterations
      /\ UNCHANGED <<cmd, report, all_ok, file, exit>>
  BY DEF TimedLaunch, Running
<1>3. /\ DriverTypes /\ at \in Places /\ DeviceOK /\ HeldOK
      /\ held \in [Objects -> 0 .. 1]
  BY DEF Alive, DriverTypes, RunningInv
<1>4. /\ at' \in Places /\ SamePlace(at, at') /\ at'.timing = at.timing
      /\ ok => at'.pc = "timed" /\ at'.n = at.n + 1
      /\ ~ ok => at'.pc = "measured" /\ at'.ok = FALSE
  <2>1. CASE ok
    <3>1. at' = [at EXCEPT !.n = @ + 1]
      BY <1>1, <2>1 DEF AfterLaunch
    <3> QED
      BY <1>2, <1>3, <2>1, <3>1, CountFacts
  <2>2. CASE ~ ok
    BY <1>1, <1>3, <2>2, ReturnFacts
  <2> QED
    BY <2>1, <2>2
<1>5. /\ DeviceOK' /\ cuda' \in Devices /\ seen' \in Histories
      /\ seen'.blemish = (seen.blemish \/ ~ ok) /\ seen'.done = seen.done
  BY <1>1, <1>3, <1>4, TimedFacts, TimedDevice DEF Unawaited
<1>6. /\ at.timing # "profile" /\ Phase = "benchmark" /\ Phase' = Phase
  <2>1. Phase \in {"benchmark", "profile"} /\ at.timing # "profile"
        /\ (at.timing = "profile" <=> Phase = "profile")
    BY <1>2 DEF Alive, RunningInv, ControlOK, Launcher, Timing
  <2> QED
    BY <1>2, <1>4, <2>1 DEF Phase, SamePlace
<1>7. held' \in Amounts /\ HeldOK'
  <2>1. held' \in Amounts
    <3>1. CASE ok
      BY <1>1, <1>3, <3>1 DEF Amounts
    <3>2. CASE ~ ok
      BY <1>1, <1>3, <3>2, ObjectFacts
    <3> QED
      BY <3>1, <3>2
  <2>2. /\ HasHandle /\ HasHandle' /\ HasStream /\ HasStream'
        /\ HasStart /\ HasStop /\ (HasStart' <=> ok) /\ (HasStop' <=> ok)
    BY <1>2, <1>4, <1>6
    DEF HasHandle, HasStream, HasStart, HasStop, Launcher, Timing
  <2>3. /\ held["handle"] = 1 /\ held["stream"] = 1
        /\ held["start"] = 1 /\ held["stop"] = 1
    BY <1>3, <2>2 DEF HeldOK
  <2>4. /\ held'["handle"] = 1 /\ held'["stream"] = 1
        /\ held'["start"] = IF ok THEN 1 ELSE 0
        /\ held'["stop"] = IF ok THEN 1 ELSE 0
    <3>1. CASE ok
      BY <1>1, <2>3, <3>1
    <3>2. CASE ~ ok
      <4>1. held' = Destroyed(Events)
        BY <1>1, <3>2
      <4> QED
        BY <1>3, <2>3, <3>2, <4>1, ObjectFacts DEF Objects, Events
    <3> QED
      BY <3>1, <3>2
  <2> QED
    BY <2>1, <2>2, <2>4 DEF HeldOK
<1>8. at.pc \in LauncherPlaces \ {"measured"} /\ at'.pc \in LauncherPlaces
  BY <1>2, <1>4 DEF LauncherPlaces, Launcher, Timing
<1>9. /\ at'.pc \in {"timed", "measured"} /\ at'.pc \notin ProfileCalls
      /\ at'.pc = "timed" => at'.n <= kBenchmarkIterations
  BY <1>2, <1>3, <1>4, ConstantFacts DEF ProfileCalls, Places
<1> QED
  BY <1>1, <1>2, <1>4, <1>5, <1>6, <1>7, <1>8, <1>9, LauncherContinues

LEMMA WarmupSyncStep ==
  ASSUME Alive, WarmupSync
  PROVE  Continues
<1>1. PICK ok \in BOOLEAN :
        /\ Checked(ok, TRUE)
        /\ IF ok
           THEN at' = [at EXCEPT !.n = 0, !.pc =
                  IF at.timing = "profile" THEN "profile_launch"
                                           ELSE "create_start"]
           ELSE LauncherReturns(FALSE)
  BY DEF WarmupSync
<1>2. /\ at.pc = "warmup"
      /\ UNCHANGED <<cmd, held, report, all_ok, file, exit>>
  BY DEF WarmupSync, Running
<1>3. DriverTypes /\ at \in Places /\ DeviceOK
  BY DEF Alive, DriverTypes, RunningInv
<1>4. /\ at' \in Places /\ SamePlace(at, at') /\ at'.timing = at.timing
      /\ ok => at'.n = 0 /\ at'.pc = (IF at.timing = "profile"
                                      THEN "profile_launch"
                                      ELSE "create_start")
      /\ ~ ok => at'.pc = "measured" /\ at'.ok = FALSE
  <2>1. CASE ok
    <3> DEFINE p == IF at.timing = "profile" THEN "profile_launch"
                                             ELSE "create_start"
               c == [at EXCEPT !.n = 0]
    <3>1. 0 \in 0 .. (kWarmupIterations + kBenchmarkIterations)
      BY ConstantFacts
    <3>2. c \in Places
      BY <1>3, <3>1, PlaceTypes
    <3>3. p \in Calls
      BY DEF Calls
    <3>4. [c EXCEPT !.pc = p] \in Places
      <4> HIDE DEF c, p
      <4> QED
        BY <3>2, <3>3, PlaceTypes
    <3>5. at' = [c EXCEPT !.pc = p]
      BY <1>1, <2>1
    <3> QED
      BY <1>3, <2>1, <3>4, <3>5 DEF Places, SamePlace
  <2>2. CASE ~ ok
    BY <1>1, <1>3, <2>2, ReturnFacts
  <2> QED
    BY <2>1, <2>2
<1>5. CallReturns(ok, TRUE)
  BY <1>1, <1>3, CheckedFacts
<1>6. /\ DeviceOK' /\ cuda' \in Devices /\ seen' \in Histories
      /\ seen'.blemish = (seen.blemish \/ ~ ok) /\ seen'.done = seen.done
  BY <1>3, <1>5, DeviceStep DEF CallReturns
<1>7. Phase' = Phase /\ (Single' <=> Single)
      /\ (Phase = "profile" <=> at.timing = "profile")
      /\ Phase \in {"benchmark", "profile"}
  <2>1. (Phase = "profile" <=> at.timing = "profile")
        /\ Phase \in {"benchmark", "profile"}
    BY <1>2 DEF Alive, RunningInv, ControlOK, Launcher
  <2> QED
    BY <1>2, <1>4, <2>1 DEF Phase, Single, SamePlace
<1>8. held' \in Amounts /\ HeldOK'
  <2>1. at.pc = "warmup"
        /\ at'.pc \in {"create_start", "profile_launch", "measured"}
        /\ (at'.pc = "profile_launch" => Phase = "profile")
    BY <1>2, <1>4, <1>7
  <2>2. (HasHandle' <=> HasHandle) /\ (HasStream' <=> HasStream)
    BY <1>7, <2>1
    DEF HasHandle, HasStream, Launcher, VerifyLoop, ProfileCalls
  <2>3. ~ HasStart /\ ~ HasStart' /\ ~ HasStop /\ ~ HasStop'
    BY <2>1 DEF HasStart, HasStop, Timing
  <2> QED
    BY <1>2, <2>2, <2>3, SameObjects
<1>9. at.pc \in LauncherPlaces \ {"measured"} /\ at'.pc \in LauncherPlaces
  BY <1>2, <1>4 DEF LauncherPlaces, Launcher, ProfileCalls
<1>10. /\ at'.timing = "profile" =>
           at'.pc \in {"warmup", "measured"} \cup ProfileCalls
       /\ at'.pc \in ProfileCalls => at'.timing = "profile"
       /\ at'.pc \in {"create_start", "create_stop", "record_start"} =>
            at'.n = 0
       /\ at'.pc \notin {"warmup", "timed"}
  BY <1>4 DEF ProfileCalls
<1> QED
  BY <1>1, <1>2, <1>4, <1>6, <1>8, <1>9, <1>10, LauncherContinues

LEMMA ElapsedStep ==
  ASSUME Alive, Elapsed
  PROVE  Continues
<1>1. PICK ok \in BOOLEAN, ms \in Latencies :
        /\ Checked(ok, FALSE)
        /\ at' = [at EXCEPT !.pc = "measured", !.n = 0, !.ok = ok,
                            !.ms = IF ok THEN ms ELSE 0]
  BY DEF Elapsed
<1>2. /\ at.pc = "elapsed" /\ held' = Destroyed(Events)
      /\ UNCHANGED <<cmd, report, all_ok, file, exit>>
  BY DEF Elapsed, Running
<1>3. /\ DriverTypes /\ at \in Places /\ DeviceOK /\ HeldOK
      /\ held \in [Objects -> 0 .. 1]
  BY DEF Alive, DriverTypes, RunningInv
<1>4. /\ at' \in Places /\ SamePlace(at, at') /\ at'.timing = at.timing
      /\ at'.pc = "measured" /\ at'.ok = ok /\ (ok => at'.ms \in Latencies)
  <2> DEFINE c == [at EXCEPT !.pc = "measured"]
             d == [c EXCEPT !.n = 0]
             e == [d EXCEPT !.ok = ok]
             x == IF ok THEN ms ELSE 0
  <2>1. c \in Places
    BY <1>3, PlaceTypes DEF Calls
  <2>2. d \in Places
    <3>1. 0 \in 0 .. (kWarmupIterations + kBenchmarkIterations)
      BY ConstantFacts
    <3> HIDE DEF c
    <3> QED
      BY <2>1, <3>1, PlaceTypes
  <2>3. e \in Places
    <3> HIDE DEF d
    <3> QED
      BY <2>2, PlaceTypes
  <2>4. x \in Latencies \cup {0}
    OBVIOUS
  <2>5. [e EXCEPT !.ms = x] \in Places
    <3> HIDE DEF e, x
    <3> QED
      BY <2>3, <2>4, PlaceTypes
  <2>6. at' = [e EXCEPT !.ms = x]
    BY <1>1
  <2> QED
    BY <1>1, <1>3, <2>5, <2>6 DEF Places, SamePlace
<1>5. CallReturns(ok, FALSE)
  BY <1>1, <1>3, CheckedFacts
<1>6. /\ DeviceOK' /\ cuda' \in Devices /\ seen' \in Histories
      /\ seen'.blemish = (seen.blemish \/ ~ ok) /\ seen'.done = seen.done
  BY <1>2, <1>3, <1>5, DeviceStep DEF CallReturns, Unawaited
<1>7. Phase = "benchmark" /\ Phase' = Phase /\ at.timing # "profile"
  <2>1. (at.timing = "profile" <=> Phase = "profile")
        /\ Phase \in {"benchmark", "profile"} /\ at.timing # "profile"
    BY <1>2 DEF Alive, RunningInv, ControlOK, Launcher, Timing
  <2> QED
    BY <1>2, <1>4, <2>1 DEF Phase, SamePlace
<1>8. held' \in Amounts /\ HeldOK'
  <2>1. held' \in Amounts
    BY <1>2, <1>3, ObjectFacts
  <2>2. /\ HasHandle /\ HasHandle' /\ HasStream /\ HasStream'
        /\ HasStart /\ HasStop /\ ~ HasStart' /\ ~ HasStop'
    BY <1>2, <1>4, <1>7
    DEF HasHandle, HasStream, HasStart, HasStop, Launcher, Timing
  <2>3. /\ held["handle"] = 1 /\ held["stream"] = 1
        /\ held["start"] = 1 /\ held["stop"] = 1
    BY <1>3, <2>2 DEF HeldOK
  <2>4. /\ held'["handle"] = 1 /\ held'["stream"] = 1
        /\ held'["start"] = 0 /\ held'["stop"] = 0
    BY <1>2, <1>3, <2>3, ObjectFacts DEF Objects, Events
  <2> QED
    BY <2>1, <2>2, <2>4 DEF HeldOK
<1>9. at.pc \in LauncherPlaces \ {"measured"} /\ at'.pc \in LauncherPlaces
      /\ at'.pc \notin ProfileCalls
  BY <1>2, <1>4 DEF LauncherPlaces, Launcher, Timing, ProfileCalls
<1> QED
  BY <1>1, <1>2, <1>4, <1>6, <1>7, <1>8, <1>9, LauncherContinues

LEMMA ProfileLaunchStep ==
  ASSUME Alive, ProfileLaunch
  PROVE  Continues
<1>1. PICK ok \in BOOLEAN :
        /\ Launch(ok)
        /\ IF ok THEN Go("profile_sync") ELSE LauncherReturns(FALSE)
  BY DEF ProfileLaunch
<1>2. /\ at.pc = "profile_launch"
      /\ UNCHANGED <<cmd, held, report, all_ok, file, exit>>
  BY DEF ProfileLaunch, Running
<1>3. DriverTypes /\ at \in Places /\ DeviceOK
  BY DEF Alive, DriverTypes, RunningInv
<1>4. /\ at' \in Places /\ SamePlace(at, at') /\ at'.timing = at.timing
      /\ ok => at'.pc = "profile_sync"
      /\ ~ ok => at'.pc = "measured" /\ at'.ok = FALSE
  <2>1. CASE ok
    <3>1. at' = [at EXCEPT !.pc = "profile_sync"]
      BY <1>1, <2>1 DEF Go
    <3>2. "profile_sync" \in Calls
      BY DEF Calls
    <3> QED
      BY <1>3, <2>1, <3>1, <3>2, GoFacts DEF SameRun
  <2>2. CASE ~ ok
    BY <1>1, <1>3, <2>2, ReturnFacts
  <2> QED
    BY <2>1, <2>2
<1>5. /\ DeviceOK' /\ cuda' \in Devices /\ seen' \in Histories
      /\ seen'.blemish = (seen.blemish \/ ~ ok) /\ seen'.done = seen.done
  BY <1>1, <1>3, <1>4, LaunchFacts, TimedDevice DEF Unawaited
<1>6. Phase = "profile" /\ Phase' = Phase /\ at.timing = "profile"
  <2>1. Phase = "profile" /\ at.timing = "profile"
    BY <1>2 DEF Alive, RunningInv, ControlOK, ProfileCalls
  <2> QED
    BY <1>2, <1>4, <2>1 DEF Phase, SamePlace
<1>7. held' \in Amounts /\ HeldOK'
  <2>1. at.pc = "profile_launch" /\ at'.pc \in {"profile_sync", "measured"}
    BY <1>2, <1>4
  <2>2. ~ HasHandle /\ ~ HasHandle' /\ HasStream /\ HasStream'
    BY <1>6, <2>1
    DEF HasHandle, HasStream, Launcher, VerifyLoop, ProfileCalls
  <2>3. ~ HasStart /\ ~ HasStart' /\ ~ HasStop /\ ~ HasStop'
    BY <2>1 DEF HasStart, HasStop, Timing
  <2> QED
    BY <1>2, <2>2, <2>3, SameObjects
<1>8. at.pc \in LauncherPlaces \ {"measured"} /\ at'.pc \in LauncherPlaces
  BY <1>2, <1>4 DEF LauncherPlaces, Launcher, ProfileCalls
<1>9. /\ at'.pc \in {"measured"} \cup ProfileCalls
      /\ at'.pc \notin {"warmup", "timed", "create_start", "create_stop",
                        "record_start"}
  BY <1>4 DEF ProfileCalls
<1> QED
  BY <1>1, <1>2, <1>4, <1>5, <1>6, <1>7, <1>8, <1>9, LauncherContinues

-----------------------------------------------------------------------------
(* The profile, and the end of a process whose BEST.txt was never opened.  *)

\* The phase of each call belongs to the command line.
LEMMA PhaseOf ==
  ASSUME DriverTypes, ControlOK
  PROVE  /\ cmd.mode \in Modes /\ at.phase \in 1 .. Len(Phases(cmd.mode))
         /\ Len(cmd.shapes) \in Nat \ {0} /\ at.s \in 1 .. Len(cmd.shapes)
         /\ Phase = "profile" => cmd.mode = "profile" /\ at.phase = 1 /\ Single
         /\ Single => Len(cmd.shapes) = 1 /\ at.s = 1
         /\ cmd.mode # "usage" => Phase \in {"verify", "benchmark", "profile"}
         /\ at.phase = 2 => Phase = "benchmark"
         /\ cmd.mode \in {"shape_test", "func"} \/ at.phase = 1
<1>1. /\ cmd.mode \in Modes /\ Len(cmd.shapes) \in Nat \ {0}
      /\ cmd.mode \notin {"verify", "benchmark"} => Len(cmd.shapes) = 1
  BY CommandFacts DEF DriverTypes
<1>2. at.phase \in 1 .. 2 /\ at.s \in 1 .. Len(cmd.shapes)
  BY DEF DriverTypes, Places
<1>3. /\ Len(Phases(cmd.mode)) = IF cmd.mode \in TwoPhases THEN 2 ELSE 1
      /\ Phases(cmd.mode)[1] = IF cmd.mode \in VerifyFirst THEN "verify"
                               ELSE IF cmd.mode \in BenchmarkOnly
                                    THEN "benchmark" ELSE cmd.mode
      /\ cmd.mode \in TwoPhases => Phases(cmd.mode)[2] = "benchmark"
  BY <1>1, PhaseFacts
<1>4. at.phase \in 1 .. Len(Phases(cmd.mode))
  BY <1>2, <1>3 DEF ControlOK
<1>5. cmd.mode \in TwoPhases \/ at.phase = 1
  BY <1>2, <1>3, <1>4
<1>6. Phase = Phases(cmd.mode)[at.phase]
  BY DEF Phase
<1>7. /\ Phase = "profile" => cmd.mode = "profile" /\ at.phase = 1
      /\ cmd.mode # "usage" => Phase \in {"verify", "benchmark", "profile"}
      /\ at.phase = 2 => Phase = "benchmark"
  <2>1. CASE at.phase = 1
    BY <1>1, <1>3, <1>6, <2>1
    DEF VerifyFirst, BenchmarkOnly, Modes, AllConfigModes, SingleModes
  <2>2. CASE at.phase = 2
    BY <1>3, <1>5, <1>6, <2>2
  <2> QED
    BY <1>2, <2>1, <2>2
<1>8. Single => cmd.mode \notin {"verify", "benchmark"}
  BY DEF Single, SingleModes
<1>9. Single => Len(cmd.shapes) = 1 /\ at.s = 1
  <2>1. Single => Len(cmd.shapes) = 1
    BY <1>1, <1>8
  <2>2. Len(cmd.shapes) = 1 => at.s = 1
    BY <1>2
  <2> QED
    BY <2>1, <2>2
<1>10. cmd.mode = "profile" => Single
  BY DEF Single, SingleModes
<1> QED
  BY <1>1, <1>2, <1>4, <1>5, <1>7, <1>9, <1>10 DEF TwoPhases

\* One more configuration has been run to its end.
LEMMA RecordAdded ==
  ASSUME DriverTypes, ControlOK, RecordsOf, cmd' = cmd,
         at'.phase = at.phase, at'.s = at.s, cmd.mode # "usage",
         at.i <= kGemmConfigCount,
         seen'.done = seen.done \cup {<<Phase, at.s, at.i>>}
  PROVE  RecordsOf'
<1>1. /\ Phase \in {"verify", "benchmark", "profile"}
      /\ at.s \in 1 .. Len(cmd.shapes) /\ at.phase \in Nat \ {0}
  BY PhaseOf DEF DriverTypes, Places
<1>2. at.i \in ConfigIds
  BY ConstantFacts DEF DriverTypes, Places, ConfigIds
<1> SUFFICES ASSUME NEW e \in seen'.done
             PROVE  /\ e \in {"verify", "benchmark", "profile"}
                               \X (1 .. Len(cmd.shapes)) \X ConfigIds
                    /\ \E q \in 1 .. at.phase :
                         /\ e[1] = Phases(cmd.mode)[q]
                         /\ q = at.phase => e[2] <= at.s
  BY DEF RecordsOf, ConfigIds
<1>3. CASE e \in seen.done
  BY <1>3 DEF RecordsOf
<1>4. CASE e = <<Phase, at.s, at.i>>
  <2>1. /\ e[1] = Phases(cmd.mode)[at.phase] /\ e[2] <= at.s
        /\ at.phase \in 1 .. at.phase
    BY <1>1, <1>4 DEF Phase
  <2> QED
    BY <1>1, <1>2, <1>4, <2>1
<1> QED
  BY <1>3, <1>4

\* Everything the command line asks for has been done.
LEMMA Wanting ==
  ASSUME DriverTypes, ControlOK, at.phase = Len(Phases(cmd.mode)),
         cmd' = cmd, at' = at,
         \A q \in 1 .. at.phase : \A k \in 1 .. Len(cmd.shapes) :
           \A x \in ConfigIds : Supports(x, k) /\ (Single => x = at.i) =>
             <<Phases(cmd.mode)[q], k, x>> \in seen'.done
  PROVE  Wanted' \subseteq seen'.done
<1> SUFFICES ASSUME NEW w \in Wanted' PROVE w \in seen'.done
  OBVIOUS
<1>1. /\ w \in {"verify", "benchmark", "profile"}
                 \X (1 .. Len(cmd.shapes)) \X ConfigIds
      /\ \E q \in DOMAIN Phases(cmd.mode) : Phases(cmd.mode)[q] = w[1]
      /\ Supports(w[3], w[2])
      /\ Single => w[3] = at.i
  BY DEF Wanted, Single, ConfigIds, config_supports_problem, Supports
<1>2. PICK q \in DOMAIN Phases(cmd.mode) : Phases(cmd.mode)[q] = w[1]
  BY <1>1
<1>3. q \in 1 .. at.phase
  BY PhaseOf, PhaseDomain
<1>4. w = <<w[1], w[2], w[3]>> /\ w[2] \in 1 .. Len(cmd.shapes)
      /\ w[3] \in ConfigIds
  BY <1>1
<1>5. <<w[1], w[2], w[3]>> \in seen'.done
  BY <1>1, <1>2, <1>3, <1>4
<1> QED
  BY <1>4, <1>5

\* The process returns, without a file.
LEMMA Ends ==
  ASSUME Ordered, UNCHANGED <<best_results, file>>, file.state = "old",
         exit' \in {"success", "failure"},
         \A o \in Objects : held'[o] = 0,
         exit' = "success" => /\ ~ seen'.blemish /\ cuda'.ctx = "live"
                              /\ Wanted' \subseteq seen'.done,
         exit' = "failure" => \/ seen'.blemish \/ NothingToRank'
                              \/ cmd'.mode = "usage"
  PROVE  Ordered' /\ EndedInv'
<1>1. Ordered'
  BY DEF Ordered
<1>2. SuccessIsEarned' /\ FailureHasCause'
  BY DEF SuccessIsEarned, FailureHasCause
<1>3. NothingLeft'
  BY DEF NothingLeft
<1>4. BestFile'
  BY DEF BestFile, Ordered
<1> QED
  BY <1>1, <1>2, <1>3, <1>4 DEF EndedInv

LEMMA DieStep ==
  ASSUME Alive, Die
  PROVE  Finishes
<1>1. /\ exit' = "died" /\ at.pc \in FatalCalls
      /\ UNCHANGED <<cmd, at, cuda, held, report, all_ok, file, seen>>
  BY DEF Die
<1>2. DriverTypes' /\ Ordered'
  BY <1>1 DEF Alive, DriverTypes, Ordered, report, Places, Devices, Tallies,
              Bests, Histories, FileLines, Files
<1>3. file'.state = "old"
  BY <1>1 DEF Alive, RunningInv, DataInv, LinesOK, FatalCalls
<1>4. EndedInv'
  BY <1>1, <1>2, <1>3 DEF EndedInv, SuccessIsEarned, FailureHasCause,
                          NothingLeft, Returned, BestFile, Ordered
<1> QED
  BY <1>1, <1>2, <1>4 DEF Finishes

LEMMA ProfileSyncStep ==
  ASSUME Alive, ProfileSync
  PROVE  Continues
<1>1. PICK ok \in BOOLEAN :
        /\ IF ok
           THEN /\ Succeeds(TRUE)
                /\ seen' = [seen EXCEPT
                     !.done = @ \cup {<<"profile", at.s, at.i>>}]
           ELSE Checked(FALSE, TRUE)
        /\ LauncherReturns(ok)
  BY DEF ProfileSync
<1>2. /\ at.pc = "profile_sync"
      /\ UNCHANGED <<cmd, held, report, all_ok, file, exit>>
  BY DEF ProfileSync, Running
<1>3. /\ DriverTypes /\ Ordered /\ at \in Places /\ DeviceOK /\ ControlOK
      /\ FailuresOK /\ DataInv /\ seen \in Histories /\ cuda \in Devices
  BY DEF Alive, DriverTypes, RunningInv
<1>4. /\ at' \in Places /\ SamePlace(at, at') /\ at'.timing = at.timing
      /\ at'.pc = "measured" /\ at'.ok = ok
  BY <1>1, <1>3, ReturnFacts
<1>5. /\ Phase = "profile" /\ at.timing = "profile" /\ Phase' = "profile"
      /\ cmd.mode = "profile" /\ at.phase = 1 /\ Single /\ Single'
      /\ Len(cmd.shapes) = 1 /\ at.s = 1 /\ at.i <= kGemmConfigCount
      /\ Len(Phases(cmd.mode)) \in Nat \ {0}
  <2>1. /\ Phase = "profile" /\ at.timing = "profile"
        /\ Single /\ at.pc # "main" => at.i <= kGemmConfigCount
    BY <1>2, <1>3 DEF ControlOK, ProfileCalls
  <2>2. Phase' = Phase /\ (Single' <=> Single)
    BY <1>2, <1>4 DEF Phase, Single, SamePlace
  <2>3. Len(Phases(cmd.mode)) \in Nat \ {0}
    BY <1>3, PhaseOf, PhaseFacts
  <2> QED
    BY <1>2, <1>3, <2>1, <2>2, <2>3, PhaseOf
<1>6. /\ cuda' \in Devices /\ seen' \in Histories
      /\ seen'.blemish = (seen.blemish \/ ~ ok)
      /\ ok => cuda.ctx = "live" /\ cuda' = cuda
      /\ seen'.done = IF ok THEN seen.done \cup {<<"profile", at.s, at.i>>}
                            ELSE seen.done
  <2>1. CASE ok
    <3>1. seen' = [seen EXCEPT !.done = @ \cup {<<"profile", at.s, at.i>>}]
      BY <1>1, <2>1
    <3>2. <<"profile", at.s, at.i>>
             \in {"verify", "benchmark", "profile"} \X Nat \X Nat
      BY <1>3, ConstantFacts, PhaseOf DEF Places
    <3>3. seen' \in Histories /\ seen'.blemish = seen.blemish
          /\ seen'.done = seen.done \cup {<<"profile", at.s, at.i>>}
      BY <1>3, <3>1, <3>2 DEF Histories
    <3> QED
      BY <1>1, <1>3, <2>1, <3>3 DEF Succeeds, Histories
  <2>2. CASE ~ ok
    <3>1. Checked(FALSE, TRUE)
      BY <1>1, <2>2
    <3>2. CallReturns(FALSE, TRUE)
      BY <1>3, <3>1, CheckedFacts
    <3> QED
      BY <2>2, <3>2 DEF CallReturns
  <2> QED
    BY <2>1, <2>2
<1>7. held' \in Amounts /\ HeldOK'
  <2>1. at'.pc = "measured" /\ at.pc = "profile_sync"
    BY <1>2, <1>4
  <2>2. ~ HasHandle /\ ~ HasHandle' /\ HasStream /\ HasStream'
    BY <1>5, <2>1
    DEF HasHandle, HasStream, Launcher, VerifyLoop, ProfileCalls
  <2>3. ~ HasStart /\ ~ HasStart' /\ ~ HasStop /\ ~ HasStop'
    BY <2>1 DEF HasStart, HasStop, Timing
  <2> QED
    BY <1>2, <2>2, <2>3, SameObjects
<1>8. DeviceOK'
  BY <1>3, <1>6 DEF DeviceOK, Histories, Devices
<1>9. DriverTypes' /\ Ordered'
  BY <1>2, <1>3, <1>4, <1>6, <1>7, TypesStep DEF report, DriverTypes
<1>10. ~ OfConfig' /\ ~ OfCublas' /\ ~ InBench' /\ ~ Fresh'
  BY <1>4, <1>5 DEF OfConfig, OfCublas, InBench, Fresh, VerifyLoop
<1>11. ControlOK'
  BY <1>2, <1>4, <1>5, <1>10
  DEF ControlOK, VerifyCalls, VerifyLoop, BenchCalls, ProfileCalls,
      FileCalls, SamePlace
<1>12. FailuresOK'
  <2>1. ~ Lost
    BY <1>2, <1>5 DEF Lost, VerifyLoop
  <2>2. Lost' <=> ~ ok
    BY <1>4, <1>5 DEF Lost, VerifyLoop
  <2>3. all_ok /\ all_ok' /\ ~ seen.blemish
    BY <1>2, <1>3, <1>5, <2>1 DEF FailuresOK
  <2> QED
    BY <1>6, <2>2, <2>3 DEF FailuresOK
<1>13. DataInv'
  <2>1. FreshOK' /\ CountsOK' /\ SummaryOK' /\ RankingOK'
    BY <1>4, <1>5, <1>10
    DEF FreshOK, CountsOK, Counting, SummaryOK, RankingOK, Places
  <2>2. SingleOK'
    BY <1>4, <1>5, <1>6 DEF SingleOK, SamePlace
  <2>3. RecordsOf'
    <3>1. CASE ok
      BY <1>2, <1>3, <1>4, <1>5, <1>6, <3>1, RecordAdded
      DEF DataInv, RecordsOK, SamePlace
    <3>2. CASE ~ ok
      BY <1>2, <1>3, <1>4, <1>6, <3>2
      DEF DataInv, RecordsOK, RecordsOf, SamePlace
    <3> QED
      BY <3>1, <3>2
  <2>4. RecordsOK'
    BY <1>4, <1>10, <2>3 DEF RecordsOK
  <2>5. ShapesDone = 0 /\ ShapesDone' = 0
    BY <1>2, <1>4, <1>5 DEF ShapesDone, FileCalls, SamePlace
  <2>6. DoneOK'
    BY <1>4, <1>5, <2>5 DEF DoneOK, SamePlace, FileCalls
  <2>7. LinesOK'
    BY <1>2, <1>3, <1>4, <2>5 DEF DataInv, LinesOK, report
  <2> QED
    BY <2>1, <2>2, <2>4, <2>6, <2>7 DEF DataInv
<1>14. exit' = "running"
  BY <1>2 DEF Alive
<1> QED
  BY <1>7, <1>8, <1>9, <1>11, <1>12, <1>13, <1>14 DEF Continues, RunningInv

LEMMA ProfileDestroyStep ==
  ASSUME Alive, ProfileDestroy
  PROVE  Finishes
<1>1. /\ at.pc = "measured" /\ at.timing = "profile"
      /\ held' = Destroyed({"stream"})
      /\ Succeeds(FALSE) \/ Fails({TRUE})
      /\ exit' = IF at.ok THEN "success" ELSE "failure"
      /\ UNCHANGED <<cmd, at, report, all_ok, file, seen>>
  BY DEF ProfileDestroy, Running, Exit
<1>2. /\ DriverTypes /\ Ordered /\ at \in Places /\ DeviceOK /\ ControlOK
      /\ FailuresOK /\ DataInv /\ HeldOK /\ cuda \in Devices
      /\ seen \in Histories /\ held \in [Objects -> 0 .. 1]
  BY DEF Alive, DriverTypes, RunningInv
<1>3. /\ Phase = "profile" /\ cmd.mode = "profile" /\ at.phase = 1 /\ Single
      /\ Len(cmd.shapes) = 1 /\ at.s = 1 /\ Len(Phases(cmd.mode)) = 1
  <2>1. Phase = "profile"
    BY <1>1, <1>2 DEF ControlOK, Launcher
  <2>2. cmd.mode = "profile" /\ cmd.mode \in Modes
    BY <1>2, <2>1, PhaseOf
  <2>3. Len(Phases(cmd.mode)) = 1
    BY <2>2, PhaseFacts DEF TwoPhases
  <2> QED
    BY <1>2, <2>1, <2>2, <2>3, PhaseOf
<1>4. cuda' \in Devices /\ (cuda.ctx = "live" => cuda'.ctx = "live")
  BY <1>1, <1>2, FailsFacts DEF Succeeds
<1>5. \A o \in Objects : held'[o] = 0
  <2>1. ~ HasHandle /\ HasStream /\ ~ HasStart /\ ~ HasStop
    BY <1>1, <1>3
    DEF HasHandle, HasStream, HasStart, HasStop, Launcher, VerifyLoop, Timing
  <2>2. /\ held["handle"] = 0 /\ held["stream"] = 1
        /\ held["start"] = 0 /\ held["stop"] = 0
    BY <1>2, <2>1 DEF HeldOK
  <2> QED
    BY <1>1, <1>2, <2>2, ObjectFacts DEF Objects, Events
<1>6. held' \in [Objects -> 0 .. 1]
  BY <1>1, <1>2, <1>5, ObjectFacts DEF Amounts
<1>7. Lost <=> ~ at.ok
  BY <1>1, <1>3 DEF Lost, VerifyLoop
<1>8. at.ok <=> ~ seen.blemish
  BY <1>2, <1>3, <1>7 DEF FailuresOK
<1>9. at.ok => cuda'.ctx = "live" /\ Wanted' \subseteq seen'.done
  <2> SUFFICES ASSUME at.ok
               PROVE  cuda'.ctx = "live" /\ Wanted' \subseteq seen'.done
    OBVIOUS
  <2>1. cuda'.ctx = "live"
    BY <1>1, <1>2, <1>4, <1>8 DEF DeviceOK, Unawaited
  <2>2. <<"profile", 1, at.i>> \in seen.done
    BY <1>1, <1>2, <1>3 DEF DataInv, SingleOK
  <2>3. \A q \in 1 .. at.phase : \A k \in 1 .. Len(cmd.shapes) :
          \A x \in ConfigIds : Supports(x, k) /\ (Single => x = at.i) =>
            <<Phases(cmd.mode)[q], k, x>> \in seen'.done
    BY <1>1, <1>3, <2>2 DEF Phase
  <2> QED
    BY <1>1, <1>2, <1>3, <2>1, <2>3, Wanting
<1>10. file.state = "old"
  BY <1>1, <1>2 DEF DataInv, LinesOK
<1>11. exit' \in {"success", "failure"} /\ (exit' = "success" <=> at.ok)
  BY <1>1
<1>12. Ordered' /\ EndedInv'
  BY <1>1, <1>2, <1>5, <1>8, <1>9, <1>10, <1>11, Ends DEF report
<1>13. DriverTypes'
  BY <1>1, <1>2, <1>4, <1>6, <1>11
  DEF DriverTypes, report, Places, Devices, Tallies, Bests, Histories,
      FileLines, Files
<1> QED
  BY <1>11, <1>12, <1>13 DEF Finishes

-----------------------------------------------------------------------------
(* A benchmark up to the loop over the configurations.                     *)

LEMMA SameFailures ==
  ASSUME FailuresOK, cmd' = cmd, all_ok' = all_ok, Phase' = Phase,
         seen'.blemish = seen.blemish, Lost' <=> Lost
  PROVE  FailuresOK'
<1>1. NothingToRank' <=> NothingToRank
  BY DEF NothingToRank, config_supports_problem
<1> QED
  BY <1>1 DEF FailuresOK

LEMMA QuietContinues ==
  ASSUME Alive, UNCHANGED <<cmd, report, all_ok, file, exit>>,
         at' \in Places, SamePlace(at, at'), cuda' \in Devices,
         seen' \in Histories, seen'.done = seen.done,
         seen'.blemish = seen.blemish,
         held' \in Amounts, HeldOK', DeviceOK', ControlOK', Lost' <=> Lost,
         SameStage, at'.pc # "measured"
  PROVE  Continues
<1>1. Fixed /\ SameRecords
  BY DEF Fixed, SamePlace, SameRecords, report
<1>2. DataInv'
  BY <1>1, QuietStep DEF MeasuredOK, Alive, RunningInv
<1>3. DriverTypes' /\ Ordered' /\ exit' = "running"
  BY TypesStep DEF Alive, DriverTypes, report
<1>4. FailuresOK'
  BY SameFailures DEF Alive, RunningInv, SamePlace, Phase
<1> QED
  BY <1>2, <1>3, <1>4 DEF Continues, RunningInv

\* An early return of a benchmark, whose summary says that it is lost.
LEMMA LostStep ==
  ASSUME Alive, Go("bench_next"), tally' = LostTally,
         UNCHANGED <<cmd, results, best, best_results, all_ok, file, exit>>,
         Fresh, Phase = "benchmark",
         at.pc \in {"stream", "bench_handle", "set_stream"} \cup Launcher,
         cuda' \in Devices, seen' \in Histories, seen'.done = seen.done,
         seen'.blemish, held' \in Amounts, \A o \in Objects : held'[o] = 0
  PROVE  Continues
<1>1. /\ DriverTypes /\ Ordered /\ at \in Places /\ ControlOK
      /\ FailuresOK /\ DataInv
  BY DEF Alive, DriverTypes, RunningInv
<1>2. at' \in Places /\ SamePlace(at, at') /\ at'.pc = "bench_next"
  BY <1>1, GoFacts DEF Go, Calls
<1>3. /\ Phase' = Phase /\ (Single' <=> Single)
      /\ \A c, k : Supports(c, k)' <=> Supports(c, k)
      /\ \A p : Finished(p)' = Finished(p)
  BY <1>2 DEF SamePlace, Phase, Single, Supports, Finished
<1>4. /\ tally'.passed = 0 /\ tally'.failed = kGemmConfigCount
      /\ tally'.skipped = 0 /\ tally'.ok = FALSE /\ tally' \in Tallies
  BY ConstantFacts DEF LostTally, Tallies
<1>5. results = << >> /\ best = NoBest /\ Finished(Phase) = {}
  BY <1>1 DEF DataInv, FreshOK, RecordsOK
<1>6. HeldOK'
  <2>1. ~ HasHandle' /\ ~ HasStream' /\ ~ HasStart' /\ ~ HasStop'
    BY <1>2
    DEF HasHandle, HasStream, HasStart, HasStop, Launcher, VerifyLoop,
        Timing, ProfileCalls
  <2> QED
    BY <2>1 DEF HeldOK, Objects, Events
<1>7. DeviceOK'
  BY DEF DeviceOK
<1>8. DriverTypes' /\ Ordered'
  BY <1>1, <1>2, <1>4, <1>6, TypesStep DEF DriverTypes
<1>9. at.pc # "main" /\ cmd.mode # "usage"
      /\ (Single => at.i <= kGemmConfigCount)
  BY <1>1 DEF ControlOK, Launcher, Timing
<1>10. ControlOK'
  <2>1. at'.phase <= Len(Phases(cmd.mode)')
    BY <1>1, <1>2 DEF ControlOK, SamePlace
  <2> QED
    BY <1>2, <1>3, <1>9, <2>1
    DEF ControlOK, VerifyCalls, VerifyLoop, BenchCalls, ProfileCalls,
        FileCalls, Launcher, Timing, SamePlace, OfConfig
<1>11. FailuresOK'
  <2>1. Lost'
    BY <1>2, <1>4 DEF Lost
  <2>2. NothingToRank' <=> NothingToRank
    BY DEF NothingToRank, config_supports_problem
  <2> QED
    BY <1>1, <1>3, <2>1, <2>2 DEF FailuresOK
<1>12. ~ Fresh' /\ ~ InBench' /\ ~ Counting'
  BY <1>2 DEF Fresh, InBench, Counting, OfCublas, OfConfig, Launcher,
              Timing, VerifyLoop
<1>13. DataInv'
  <2>1. FreshOK' /\ CountsOK'
    BY <1>12 DEF FreshOK, CountsOK
  <2>2. SummaryOK'
    <3>1. Cardinality({}) = 0
      BY FS_EmptySet
    <3>2. Finished(Phase)' = {}
      BY <1>2, <1>3, <1>5 DEF Finished, SamePlace
    <3>3. CountersAddUp'
      BY <1>4, <3>1, <3>2, ConstantFacts DEF CountersAddUp
    <3>4. tally'.failed = 0 => ConfigIds = {}
      BY <1>4, ConstantFacts DEF ConfigIds
    <3> QED
      BY <3>3, <3>4 DEF SummaryOK, ConfigIds, Served
  <2>3. SingleOK'
    <3>1. Single => tally'.failed # 0
      BY <1>1, <1>4, <1>9, ConstantFacts DEF Places
    <3> QED
      BY <1>2, <1>3, <1>4, <3>1 DEF SingleOK
  <2>4. RecordsOK'
    BY <1>1, <1>2, <1>12
    DEF DataInv, RecordsOK, RecordsOf, SamePlace
  <2>5. ShapesDone' = ShapesDone
    <3>1. /\ at.pc \notin {"verify_destroy", "open", "write", "close"}
          /\ at'.pc \notin {"verify_destroy", "open", "write", "close"}
      BY <1>2 DEF Launcher, Timing
    <3> QED
      BY <1>2, <3>1 DEF ShapesDone, FileCalls, SamePlace
  <2>6. DoneOK'
    <3>1. \A p, k : Recorded(p, k)' <=> Recorded(p, k)
      BY <1>2, <1>3 DEF Recorded, SamePlace
    <3> QED
      BY <1>1, <1>2, <1>3, <2>5, <3>1
      DEF DataInv, DoneOK, SamePlace, FileCalls
  <2>7. RankingOK'
    BY <1>2, <1>4, <1>5, <1>12
    DEF RankingOK, ResultsOK, BestOK, NoBest, Null
  <2>8. LinesOK'
    <3>1. /\ at.pc \notin {"write", "close"}
          /\ at'.pc \notin {"write", "close"}
      BY <1>2 DEF Launcher, Timing
    <3> QED
      BY <1>1, <2>5, <3>1 DEF DataInv, LinesOK
  <2> QED
    BY <2>1, <2>2, <2>3, <2>4, <2>6, <2>7, <2>8 DEF DataInv
<1>14. exit' = "running"
  BY DEF Alive
<1> QED
  BY <1>6, <1>7, <1>8, <1>10, <1>11, <1>13, <1>14 DEF Continues, RunningInv

\* A stream is wanted in the phases that measure.
LEMMA StreamFacts ==
  ASSUME Alive, at.pc \in {"stream", "bench_handle", "set_stream"}
  PROVE  /\ DriverTypes /\ at \in Places /\ DeviceOK /\ ControlOK
         /\ FailuresOK /\ DataInv /\ HeldOK /\ held \in [Objects -> 0 .. 1]
         /\ Fresh /\ ~ InBench /\ ~ Lost /\ ~ OfConfig
         /\ cmd.mode # "usage" /\ (Single => at.i <= kGemmConfigCount)
         /\ Phase \in {"benchmark", "profile"}
         /\ at.pc # "stream" => Phase = "benchmark"
         /\ held["stream"] = IF at.pc = "stream" THEN 0 ELSE 1
         /\ held["handle"] = IF at.pc = "set_stream" THEN 1 ELSE 0
         /\ held["start"] = 0 /\ held["stop"] = 0
         /\ at.phase <= Len(Phases(cmd.mode))
<1>1. /\ DriverTypes /\ at \in Places /\ DeviceOK /\ ControlOK
      /\ FailuresOK /\ DataInv /\ HeldOK /\ held \in [Objects -> 0 .. 1]
  BY DEF Alive, DriverTypes, RunningInv
<1>2. Fresh /\ ~ InBench /\ ~ Lost /\ ~ OfConfig
  BY DEF Fresh, InBench, Lost, OfConfig, Launcher, Timing, VerifyLoop
<1>3. /\ cmd.mode # "usage" /\ (Single => at.i <= kGemmConfigCount)
      /\ Phase \in {"benchmark", "profile"}
      /\ at.pc # "stream" => Phase = "benchmark"
      /\ at.phase <= Len(Phases(cmd.mode))
  BY <1>1 DEF ControlOK, BenchCalls
<1>4. /\ HasHandle <=> at.pc = "set_stream"
      /\ HasStream <=> at.pc # "stream"
      /\ ~ HasStart /\ ~ HasStop
  BY <1>3 DEF HasHandle, HasStream, HasStart, HasStop, Launcher, Timing,
              VerifyLoop, ProfileCalls
<1>5. /\ held["stream"] = IF at.pc = "stream" THEN 0 ELSE 1
      /\ held["handle"] = IF at.pc = "set_stream" THEN 1 ELSE 0
      /\ held["start"] = 0 /\ held["stop"] = 0
  BY <1>1, <1>4 DEF HeldOK
<1> QED
  BY <1>1, <1>2, <1>3, <1>5

LEMMA SetStreamStep ==
  ASSUME Alive, SetStream
  PROVE  Continues
<1>1. PICK ok \in BOOLEAN :
        /\ CheckedCublas(ok)
        /\ IF ok THEN StartLauncher("cublas") /\ UNCHANGED <<held, tally>>
                 ELSE BenchmarkLost({"handle", "stream"})
  BY DEF SetStream
<1>2. /\ at.pc = "set_stream"
      /\ UNCHANGED <<cmd, results, best, best_results, all_ok, file, exit>>
  BY DEF SetStream, Running
<1>3. DriverTypes /\ DeviceOK /\ CallReturns(ok, FALSE)
  BY <1>1, <1>2, StreamFacts, CublasFacts
<1>4. cuda' \in Devices /\ seen' \in Histories /\ seen'.done = seen.done
      /\ seen'.blemish = (seen.blemish \/ ~ ok) /\ DeviceOK'
  BY <1>2, <1>3, DeviceStep DEF CallReturns, Unawaited
<1>5. CASE ok
  <2>1. StartLauncher("cublas") /\ UNCHANGED <<held, tally>>
    BY <1>1, <1>5
  <2>2. at \in Places
    BY <1>2, StreamFacts
  <2>3. /\ at' \in Places /\ at'.pc = "warmup" /\ at'.n = 0
        /\ at'.timing = "cublas" /\ SamePlace(at, at')
    BY <2>1, <2>2, StartFacts
  <2>4. /\ Phase' = "benchmark" /\ Phase = "benchmark"
        /\ (Single' <=> Single) /\ (Supported' <=> Supported)
    BY <1>2, <2>3, StreamFacts DEF Phase, Single, Supported, SamePlace
  <2>5. held' \in Amounts /\ HeldOK'
    <3>1. HasHandle' /\ HasStream' /\ ~ HasStart' /\ ~ HasStop'
      BY <2>3, <2>4 DEF HasHandle, HasStream, HasStart, HasStop, Launcher,
                        Timing
    <3>2. held' \in Amounts
      BY <1>2, <2>1, StreamFacts DEF Amounts
    <3> QED
      BY <1>2, <2>1, <3>1, <3>2, StreamFacts DEF HeldOK
  <2>6. ~ Lost' /\ ~ InBench' /\ ~ OfConfig' /\ Fresh'
    BY <2>3 DEF Lost, InBench, Fresh, OfConfig, OfCublas, Launcher, Timing,
                VerifyLoop
  <2>7. ControlOK'
    <3>1. at'.phase <= Len(Phases(cmd.mode)') /\ cmd'.mode # "usage"
          /\ (Single' => at'.i <= kGemmConfigCount)
      BY <1>2, <2>3, <2>4, StreamFacts DEF SamePlace
    <3> QED
      BY <2>3, <2>4, <2>6, <3>1, ConstantFacts
      DEF ControlOK, VerifyCalls, VerifyLoop, BenchCalls, ProfileCalls,
          FileCalls, Launcher, Timing
  <2>8. SameStage
    BY <1>2, <2>3, <2>6, StreamFacts
    DEF SameStage, Marks, FileCalls, VerifyLoop
  <2>9. /\ UNCHANGED <<cmd, report, all_ok, file, exit>>
        /\ seen'.blemish = seen.blemish
    BY <1>2, <1>3, <1>4, <1>5, <2>1 DEF report, DriverTypes, Histories
  <2>10. (Lost' <=> Lost) /\ at'.pc # "measured"
    BY <1>2, <2>3, <2>6, StreamFacts
  <2> QED
    BY <1>4, <2>3, <2>5, <2>7, <2>8, <2>9, <2>10, QuietContinues
<1>6. CASE ~ ok
  <2>1. /\ Go("bench_next") /\ tally' = LostTally
        /\ held' = Destroyed({"handle", "stream"})
    BY <1>1, <1>6 DEF BenchmarkLost
  <2>2. held' \in Amounts /\ \A o \in Objects : held'[o] = 0
    BY <1>2, <2>1, StreamFacts, ObjectFacts DEF Objects, Events
  <2> QED
    BY <1>2, <1>4, <1>6, <2>1, <2>2, StreamFacts, LostStep
<1> QED
  BY <1>5, <1>6

LEMMA BenchHandleStep ==
  ASSUME Alive, BenchHandle
  PROVE  Continues
<1>1. PICK ok \in BOOLEAN :
        /\ CheckedCublas(ok)
        /\ IF ok
           THEN Go("set_stream") /\ held' = Created({"handle"})
                /\ UNCHANGED tally
           ELSE BenchmarkLost({"stream"})
  BY DEF BenchHandle
<1>2. /\ at.pc = "bench_handle"
      /\ UNCHANGED <<cmd, results, best, best_results, all_ok, file, exit>>
  BY DEF BenchHandle, Running
<1>3. DriverTypes /\ DeviceOK /\ CallReturns(ok, FALSE)
  BY <1>1, <1>2, StreamFacts, CublasFacts
<1>4. cuda' \in Devices /\ seen' \in Histories /\ seen'.done = seen.done
      /\ seen'.blemish = (seen.blemish \/ ~ ok) /\ DeviceOK'
  BY <1>2, <1>3, DeviceStep DEF CallReturns, Unawaited
<1>5. CASE ok
  <2>1. /\ at' = [at EXCEPT !.pc = "set_stream"]
        /\ held' = Created({"handle"}) /\ tally' = tally
    BY <1>1, <1>5 DEF Go
  <2>2. "set_stream" \in Calls /\ at \in Places
    BY <1>2, StreamFacts DEF Calls
  <2>3. at' \in Places /\ at'.pc = "set_stream" /\ SamePlace(at, at')
    BY <2>1, <2>2, GoFacts
  <2>4. /\ Phase' = "benchmark" /\ Phase = "benchmark"
        /\ (Single' <=> Single) /\ (Supported' <=> Supported)
    BY <1>2, <2>3, StreamFacts DEF Phase, Single, Supported, SamePlace
  <2>5. held' \in Amounts /\ HeldOK'
    <3>1. HasHandle' /\ HasStream' /\ ~ HasStart' /\ ~ HasStop'
      BY <2>3, <2>4 DEF HasHandle, HasStream, HasStart, HasStop, Launcher,
                        Timing
    <3>2. /\ held' \in Amounts
          /\ held'["handle"] = 1 /\ held'["stream"] = 1
          /\ held'["start"] = 0 /\ held'["stop"] = 0
      BY <1>2, <2>1, StreamFacts, ObjectFacts DEF Objects, Events
    <3> QED
      BY <3>1, <3>2 DEF HeldOK
  <2>6. ~ Lost' /\ ~ InBench' /\ ~ OfConfig' /\ Fresh'
    BY <2>3 DEF Lost, InBench, Fresh, OfConfig, Launcher, Timing, VerifyLoop
  <2>7. ControlOK'
    <3>1. at'.phase <= Len(Phases(cmd.mode)') /\ cmd'.mode # "usage"
          /\ (Single' => at'.i <= kGemmConfigCount)
      BY <1>2, <2>3, <2>4, StreamFacts DEF SamePlace
    <3> QED
      BY <2>3, <2>4, <2>6, <3>1
      DEF ControlOK, VerifyCalls, VerifyLoop, BenchCalls, ProfileCalls,
          FileCalls, Launcher, Timing
  <2>8. SameStage
    BY <1>2, <2>3, <2>6, StreamFacts
    DEF SameStage, Marks, FileCalls, VerifyLoop
  <2>9. /\ UNCHANGED <<cmd, report, all_ok, file, exit>>
        /\ seen'.blemish = seen.blemish
    BY <1>2, <1>3, <1>4, <1>5, <2>1 DEF report, DriverTypes, Histories
  <2>10. (Lost' <=> Lost) /\ at'.pc # "measured"
    BY <1>2, <2>3, <2>6, StreamFacts
  <2> QED
    BY <1>4, <2>3, <2>5, <2>7, <2>8, <2>9, <2>10, QuietContinues
<1>6. CASE ~ ok
  <2>1. /\ Go("bench_next") /\ tally' = LostTally
        /\ held' = Destroyed({"stream"})
    BY <1>1, <1>6 DEF BenchmarkLost
  <2>2. held' \in Amounts /\ \A o \in Objects : held'[o] = 0
    BY <1>2, <2>1, StreamFacts, ObjectFacts DEF Objects, Events
  <2> QED
    BY <1>2, <1>4, <1>6, <2>1, <2>2, StreamFacts, LostStep
<1> QED
  BY <1>5, <1>6

LEMMA StreamStep ==
  ASSUME Alive, Stream
  PROVE  Continues \/ Finishes
<1>1. PICK ok \in BOOLEAN :
        /\ Checked(ok, FALSE)
        /\ CASE ok /\ Phase = "profile" ->
                  StartLauncher("profile") /\ held' = Created({"stream"})
                  /\ UNCHANGED <<tally, exit>>
             [] ok /\ Phase # "profile" ->
                  Go("bench_handle") /\ held' = Created({"stream"})
                  /\ UNCHANGED <<tally, exit>>
             [] ~ ok /\ Phase = "profile" ->
                  Exit(FALSE) /\ UNCHANGED <<at, held, tally>>
             [] OTHER -> BenchmarkLost({}) /\ UNCHANGED exit
  BY DEF Stream
<1>2. /\ at.pc = "stream"
      /\ UNCHANGED <<cmd, results, best, best_results, all_ok, file>>
  BY DEF Stream, Running
<1>3. DriverTypes /\ DeviceOK /\ CallReturns(ok, FALSE) /\ at \in Places
  BY <1>1, <1>2, StreamFacts, CheckedFacts
<1>4. cuda' \in Devices /\ seen' \in Histories /\ seen'.done = seen.done
      /\ seen'.blemish = (seen.blemish \/ ~ ok) /\ DeviceOK'
  BY <1>2, <1>3, DeviceStep DEF CallReturns, Unawaited
<1>5. CASE ok
  <2>1. /\ \/ Phase = "profile" /\ StartLauncher("profile")
           \/ Phase # "profile" /\ Go("bench_handle")
        /\ held' = Created({"stream"}) /\ UNCHANGED <<tally, exit>>
    BY <1>1, <1>5
  <2>2. /\ at' \in Places /\ SamePlace(at, at')
        /\ \/ /\ Phase = "profile" /\ at'.pc = "warmup" /\ at'.n = 0
              /\ at'.timing = "profile"
           \/ Phase # "profile" /\ at'.pc = "bench_handle"
    <3>1. CASE Phase = "profile" /\ StartLauncher("profile")
      BY <1>3, <3>1, StartFacts
    <3>2. CASE Phase # "profile" /\ at' = [at EXCEPT !.pc = "bench_handle"]
      BY <1>3, <3>2, GoFacts DEF Calls
    <3> QED
      BY <2>1, <3>1, <3>2 DEF Go
  <2>3. /\ Phase' = Phase /\ (Single' <=> Single)
        /\ (Supported' <=> Supported) /\ Phase \in {"benchmark", "profile"}
    BY <1>2, <2>2, StreamFacts DEF Phase, Single, Supported, SamePlace
  <2>4. held' \in Amounts /\ HeldOK'
    <3>1. ~ HasHandle' /\ HasStream' /\ ~ HasStart' /\ ~ HasStop'
      BY <2>2, <2>3 DEF HasHandle, HasStream, HasStart, HasStop, Launcher,
                        Timing, VerifyLoop
    <3>2. /\ held' \in Amounts
          /\ held'["handle"] = 0 /\ held'["stream"] = 1
          /\ held'["start"] = 0 /\ held'["stop"] = 0
      BY <1>2, <2>1, StreamFacts, ObjectFacts DEF Objects, Events
    <3> QED
      BY <3>1, <3>2 DEF HeldOK
  <2>5. ~ Lost' /\ ~ InBench' /\ ~ OfConfig'
    BY <2>2 DEF Lost, InBench, OfConfig, Launcher, Timing, VerifyLoop
  <2>6. ControlOK'
    <3>1. at'.phase <= Len(Phases(cmd.mode)') /\ cmd'.mode # "usage"
          /\ (Single' => at'.i <= kGemmConfigCount)
      BY <1>2, <2>2, <2>3, StreamFacts DEF SamePlace
    <3> QED
      BY <2>2, <2>3, <2>5, <3>1, ConstantFacts
      DEF ControlOK, VerifyCalls, VerifyLoop, BenchCalls, ProfileCalls,
          FileCalls, Launcher, Timing
  <2>7. SameStage
    BY <1>2, <2>2, <2>5, StreamFacts
    DEF SameStage, Marks, FileCalls, VerifyLoop
  <2>8. /\ UNCHANGED <<cmd, report, all_ok, file, exit>>
        /\ seen'.blemish = seen.blemish
    BY <1>2, <1>3, <1>4, <1>5, <2>1 DEF report, DriverTypes, Histories
  <2>9. (Lost' <=> Lost) /\ at'.pc # "measured"
    BY <1>2, <2>2, <2>5, StreamFacts
  <2> QED
    BY <1>4, <2>2, <2>4, <2>6, <2>7, <2>8, <2>9, QuietContinues
<1>6. CASE ~ ok /\ Phase # "profile"
  <2>1. /\ Go("bench_next") /\ tally' = LostTally /\ exit' = exit
        /\ held' = Destroyed({})
    BY <1>1, <1>6 DEF BenchmarkLost
  <2>2. held' \in Amounts /\ \A o \in Objects : held'[o] = 0
    BY <1>2, <2>1, StreamFacts, ObjectFacts DEF Objects, Events
  <2>3. Phase = "benchmark" /\ Fresh
    BY <1>2, <1>6, StreamFacts
  <2> QED
    BY <1>2, <1>4, <1>6, <2>1, <2>2, <2>3, LostStep
<1>7. CASE ~ ok /\ Phase = "profile"
  <2>1. exit' = "failure" /\ UNCHANGED <<at, held, tally>>
    BY <1>1, <1>7 DEF Exit
  <2>2. \A o \in Objects : held'[o] = 0
    BY <1>2, <2>1, StreamFacts DEF Objects, Events
  <2>3. file.state = "old"
    BY <1>2, StreamFacts DEF DataInv, LinesOK
  <2>4. seen'.blemish
    BY <1>4, <1>7
  <2>5. Ordered' /\ EndedInv'
    BY <1>2, <2>1, <2>2, <2>3, <2>4, Ends DEF Alive
  <2>6. DriverTypes'
    BY <1>2, <1>3, <1>4, <2>1
    DEF DriverTypes, Places, Devices, Tallies, Bests, Histories, FileLines,
        Files
  <2> QED
    BY <2>1, <2>5, <2>6 DEF Finishes
<1> QED
  BY <1>5, <1>6, <1>7

LEMMA BenchConfigStep ==
  ASSUME Alive, BenchConfig
  PROVE  Continues
<1>1. /\ at.pc = "bench_config" /\ at.i <= kGemmConfigCount /\ Supported
      /\ StartLauncher("config")
      /\ UNCHANGED <<cmd, cuda, held, report, all_ok, file, exit, seen>>
  BY DEF BenchConfig, Running
<1>2. /\ DriverTypes /\ at \in Places /\ DeviceOK /\ ControlOK /\ HeldOK
      /\ cuda \in Devices /\ seen \in Histories
  BY DEF Alive, DriverTypes, RunningInv
<1>3. /\ at' \in Places /\ at'.pc = "warmup" /\ at'.n = 0
      /\ at'.timing = "config" /\ SamePlace(at, at')
  BY <1>1, <1>2, StartFacts
<1>4. /\ Phase' = "benchmark" /\ Phase = "benchmark" /\ cmd.mode # "usage"
      /\ (Single' <=> Single) /\ (Supported' <=> Supported)
      /\ at'.phase <= Len(Phases(cmd.mode)')
  <2>1. Phase = "benchmark" /\ cmd.mode # "usage"
        /\ at.phase <= Len(Phases(cmd.mode))
    BY <1>1, <1>2 DEF ControlOK, BenchCalls
  <2> QED
    BY <1>1, <1>3, <2>1 DEF Phase, Single, Supported, SamePlace
<1>5. held' \in Amounts /\ HeldOK'
  <2>1. (HasHandle' <=> HasHandle) /\ (HasStream' <=> HasStream)
    BY <1>1, <1>3, <1>4 DEF HasHandle, HasStream, Launcher
  <2>2. ~ HasStart /\ ~ HasStart' /\ ~ HasStop /\ ~ HasStop'
    BY <1>1, <1>3 DEF HasStart, HasStop, Timing
  <2> QED
    BY <1>1, <2>1, <2>2, SameObjects
<1>6. OfConfig' /\ InBench' /\ InBench /\ Behind' = Behind /\ ~ OfCublas'
  BY <1>1, <1>3 DEF OfConfig, OfCublas, InBench, Behind, Launcher, SamePlace
<1>7. Lost' <=> Lost
  BY <1>1, <1>3, <1>4, <1>6 DEF Lost, VerifyLoop, report
<1>8. ControlOK'
  <2>1. cmd'.mode # "usage" /\ at'.i <= kGemmConfigCount /\ Supported'
    BY <1>1, <1>3, <1>4 DEF SamePlace
  <2> QED
    BY <1>3, <1>4, <2>1, ConstantFacts
    DEF ControlOK, VerifyCalls, VerifyLoop, BenchCalls, ProfileCalls,
        FileCalls, Launcher, Timing
<1>9. SameStage
  BY <1>1, <1>3, <1>4, <1>6
  DEF SameStage, Marks, FileCalls, VerifyLoop, Fresh
<1>10. DeviceOK'
  BY <1>1, <1>2, <1>3 DEF DeviceOK, Unawaited
<1>11. /\ UNCHANGED <<cmd, report, all_ok, file, exit>>
       /\ cuda' \in Devices /\ seen' \in Histories
       /\ seen'.done = seen.done /\ seen'.blemish = seen.blemish
       /\ at'.pc # "measured"
  BY <1>1, <1>2, <1>3 DEF Devices, Histories
<1> QED
  BY <1>3, <1>5, <1>7, <1>8, <1>9, <1>10, <1>11, QuietContinues

-----------------------------------------------------------------------------
(* Counting the configurations of a shape.                                 *)

LEMMA CountStart ==
  ASSUME NEW S
  PROVE  CountsFit(NoTally, {}, S, 0)
<1>1. 1 .. 0 = {} /\ Cardinality({}) = 0
  BY FS_EmptySet
<1> QED
  BY <1>1 DEF CountsFit, NoTally

LEMMA CountPassed ==
  ASSUME NEW t \in Tallies, NEW u, NEW F, NEW S, NEW b \in Nat,
         CountsFit(t, F, S, b), b + 1 \in S, u.passed = t.passed + 1,
         u.failed = t.failed, u.skipped = t.skipped
  PROVE  CountsFit(u, F \cup {b + 1}, S, b + 1)
<1> DEFINE c == b + 1
<1>1. /\ t.passed = Cardinality(F) /\ F \subseteq (1 .. b) \cap S
      /\ t.skipped = Cardinality((1 .. b) \ S)
      /\ t.passed + t.failed + t.skipped <= b
      /\ t.passed + t.skipped = b => (1 .. b) \cap S \subseteq F
  BY DEF CountsFit
<1>2. IsFiniteSet(F) /\ b + 1 \notin F
  <2>1. IsFiniteSet(1 .. b) /\ F \subseteq 1 .. b
    BY <1>1, FS_Interval
  <2>2. IsFiniteSet(F)
    BY <2>1, FS_Subset
  <2>3. b + 1 \notin F
    BY <2>1
  <2> QED
    BY <2>2, <2>3
<1>3. Cardinality(F \cup {b + 1}) = Cardinality(F) + 1
  BY <1>2, FS_AddElement
<1>4. (1 .. c) \ S = (1 .. b) \ S
  OBVIOUS
<1>5. F \cup {b + 1} \subseteq (1 .. c) \cap S
  BY <1>1
<1>6. /\ u.passed + u.failed + u.skipped <= c
      /\ u.passed + u.skipped = c => t.passed + t.skipped = b
  BY <1>1 DEF Tallies
<1>7. u.passed + u.skipped = c => (1 .. c) \cap S \subseteq F \cup {b + 1}
  <2>1. 1 .. c \subseteq (1 .. b) \cup {b + 1}
    OBVIOUS
  <2> QED
    BY <1>1, <1>6, <2>1
<1> QED
  BY <1>1, <1>3, <1>4, <1>5, <1>6, <1>7 DEF CountsFit

LEMMA CountNotPassed ==
  ASSUME NEW t \in Tallies, NEW u, NEW F, NEW S, NEW b \in Nat,
         CountsFit(t, F, S, b), b + 1 \in S, u.passed = t.passed,
         u.skipped = t.skipped,
         u.failed = t.failed \/ u.failed = t.failed + 1
  PROVE  CountsFit(u, F, S, b + 1)
<1> DEFINE c == b + 1
<1>1. /\ t.passed = Cardinality(F) /\ F \subseteq (1 .. b) \cap S
      /\ t.skipped = Cardinality((1 .. b) \ S)
      /\ t.passed + t.failed + t.skipped <= b
  BY DEF CountsFit
<1>2. (1 .. c) \ S = (1 .. b) \ S
  OBVIOUS
<1>3. F \subseteq (1 .. c) \cap S
  BY <1>1
<1>4. /\ u.passed + u.failed + u.skipped <= c
      /\ u.passed + u.skipped # c
  BY <1>1 DEF Tallies
<1> QED
  BY <1>1, <1>2, <1>3, <1>4 DEF CountsFit

LEMMA CountSkipped ==
  ASSUME NEW t \in Tallies, NEW u, NEW F, NEW S, NEW b \in Nat,
         CountsFit(t, F, S, b), b + 1 \notin S, u.passed = t.passed,
         u.failed = t.failed, u.skipped = t.skipped + 1
  PROVE  CountsFit(u, F, S, b + 1)
<1> DEFINE c == b + 1
<1>1. /\ t.passed = Cardinality(F) /\ F \subseteq (1 .. b) \cap S
      /\ t.skipped = Cardinality((1 .. b) \ S)
      /\ t.passed + t.failed + t.skipped <= b
      /\ t.passed + t.skipped = b => (1 .. b) \cap S \subseteq F
  BY DEF CountsFit
<1>2. (1 .. c) \ S = ((1 .. b) \ S) \cup {b + 1}
  <2>1. 1 .. c = (1 .. b) \cup {b + 1}
    OBVIOUS
  <2> QED
    BY <2>1
<1>3. IsFiniteSet((1 .. b) \ S) /\ b + 1 \notin (1 .. b) \ S
  <2>1. IsFiniteSet(1 .. b)
    BY FS_Interval
  <2> QED
    BY <2>1, FS_Subset
<1>4. Cardinality((1 .. c) \ S) = t.skipped + 1
  BY <1>1, <1>2, <1>3, FS_AddElement
<1>5. F \subseteq (1 .. c) \cap S
  BY <1>1
<1>6. /\ u.passed + u.failed + u.skipped <= c
      /\ u.passed + u.skipped = c => t.passed + t.skipped = b
  BY <1>1 DEF Tallies
<1>7. (1 .. c) \cap S = (1 .. b) \cap S
  OBVIOUS
<1> QED
  BY <1>1, <1>4, <1>5, <1>6, <1>7 DEF CountsFit

-----------------------------------------------------------------------------
(* The best configuration of a shape.                                      *)

LEMMA ThroughputFacts ==
  ASSUME NEW ms \in Latencies \cup {0}
  PROVE  /\ gemm_tflops(ms) \in Nat
         /\ gemm_tflops(ms) = 0 <=> ms = 0
         /\ ms # 0 => ms * gemm_tflops(ms) = Flops
<1>1. ms \in Nat /\ Flops \in Nat \ {0}
  BY ConstantFacts
<1>2. CASE ms = 0
  BY <1>1, <1>2 DEF gemm_tflops
<1>3. CASE ms # 0
  <2>1. gemm_tflops(ms) = Flops \div ms
    BY <1>1, <1>3 DEF gemm_tflops
  <2>2. /\ Flops \div ms \in Nat
        /\ Flops = ms * (Flops \div ms) + (Flops % ms)
    BY <1>1, <1>3, Division
  <2>3. Flops % ms = 0
    BY <1>3, DriverAssumption
  <2>4. Flops = ms * (Flops \div ms)
    BY <1>1, <1>3, <2>2, <2>3
  <2>5. Flops \div ms # 0
    BY <1>1, <2>4
  <2> QED
    BY <1>3, <2>1, <2>2, <2>4, <2>5
<1> QED
  BY <1>2, <1>3

\* Different latencies give different throughputs.
LEMMA ThroughputTells ==
  ASSUME NEW x \in Latencies \cup {0}, NEW y \in Latencies \cup {0},
         gemm_tflops(x) = gemm_tflops(y)
  PROVE  x = y
<1> DEFINE q == gemm_tflops(x)
<1>1. x \in Nat /\ y \in Nat /\ q \in Nat
  BY ConstantFacts, ThroughputFacts
<1>2. CASE x = 0 \/ y = 0
  BY <1>2, ThroughputFacts
<1>3. CASE x # 0 /\ y # 0
  <2>1. x * q = Flops /\ y * q = Flops /\ q # 0
    BY <1>3, ThroughputFacts
  <2> HIDE DEF q
  <2>2. q * x + 0 = q * y + 0
    BY <1>1, <2>1
  <2> QED
    BY <1>1, <2>1, <2>2, DivisionUnique
<1> QED
  BY <1>2, <1>3

LEMMA AppendFacts ==
  ASSUME NEW s \in Seq(Result), NEW r \in Result, NEW t, t = Append(s, r)
  PROVE  /\ t \in Seq(Result) /\ Len(t) = Len(s) + 1
         /\ DOMAIN t = DOMAIN s \cup {Len(s) + 1} /\ t[Len(s) + 1] = r
         /\ \A x \in DOMAIN s : t[x] = s[x]
         /\ DOMAIN s = 1 .. Len(s) /\ Len(s) \in Nat
<1>1. t \in Seq(Result) /\ Len(t) = Len(s) + 1 /\ Len(s) \in Nat
  OBVIOUS
<1>2. DOMAIN s = 1 .. Len(s) /\ DOMAIN t = 1 .. Len(t)
  BY <1>1
<1>3. DOMAIN t = DOMAIN s \cup {Len(s) + 1}
  BY <1>1, <1>2
<1>4. t[Len(s) + 1] = r /\ \A x \in DOMAIN s : t[x] = s[x]
  BY <1>2
<1> QED
  BY <1>1, <1>2, <1>3, <1>4

\* A configuration that was skipped, or whose measurement failed.
LEMMA NotRanked ==
  ASSUME DriverTypes, ResultsOK, BestOK, NEW r \in Result, ~ r.ok,
         r.throughput = gemm_tflops(r.latency),
         results' = Append(results, r), best' = best
  PROVE  ResultsOK' /\ BestOK' /\ Len(results') = Len(results) + 1
<1> DEFINE n == Len(results) + 1
<1>1. /\ results' \in Seq(Result) /\ Len(results') = n
      /\ DOMAIN results' = DOMAIN results \cup {n} /\ results'[n] = r
      /\ \A x \in DOMAIN results : results'[x] = results[x]
      /\ DOMAIN results = 1 .. Len(results) /\ Len(results) \in Nat
  BY AppendFacts DEF ResultsOK
<1> HIDE DEF n
<1>2. ResultsOK'
  BY <1>1 DEF ResultsOK
<1>3. BestOK'
  <2>1. CASE best.config = Null
    BY <1>1, <2>1 DEF BestOK
  <2>2. CASE best.config # Null
    <3>1. /\ best.config \in DOMAIN results /\ results[best.config].ok
          /\ best.throughput = results[best.config].throughput
          /\ \A x \in DOMAIN results : results[x].ok =>
               /\ results[x].throughput <= best.throughput
               /\ x < best.config => results[x].throughput < best.throughput
      BY <2>2 DEF BestOK
    <3>2. /\ best.config \in DOMAIN results' /\ results'[best.config].ok
          /\ best.throughput = results'[best.config].throughput
      BY <1>1, <3>1
    <3>3. \A x \in DOMAIN results' : results'[x].ok => x \in DOMAIN results
      BY <1>1
    <3> QED
      BY <1>1, <2>2, <3>1, <3>2, <3>3 DEF BestOK
  <2> QED
    BY <2>1, <2>2
<1> QED
  BY <1>1, <1>2, <1>3 DEF n

\* A configuration that was timed replaces the best one, or does not.
LEMMA Ranks ==
  ASSUME DriverTypes, ResultsOK, BestOK, NEW r \in Result, r.ok,
         ~ r.skipped, r.latency \in Latencies,
         r.throughput = gemm_tflops(r.latency),
         Len(results) + 1 \in ConfigIds,
         results' = Append(results, r),
         IF Replaces(r)
         THEN /\ best'.config = Len(results) + 1
              /\ best'.throughput = r.throughput
         ELSE best' = best
  PROVE  /\ ResultsOK' /\ BestOK' /\ Len(results') = Len(results) + 1
         /\ best'.config # Null
<1> DEFINE n == Len(results) + 1
<1>1. /\ results' \in Seq(Result) /\ Len(results') = n
      /\ DOMAIN results' = DOMAIN results \cup {n} /\ results'[n] = r
      /\ \A x \in DOMAIN results : results'[x] = results[x]
      /\ DOMAIN results = 1 .. Len(results) /\ Len(results) \in Nat
  BY AppendFacts DEF ResultsOK
<1>2. /\ n \in Nat \ {0} /\ \A x \in DOMAIN results : x < n
      /\ r.throughput \in Nat /\ best.throughput \in Nat
      /\ \A x \in DOMAIN results : results[x].throughput \in Nat
  <2>1. n \in Nat \ {0} /\ \A x \in DOMAIN results : x < n
    BY <1>1
  <2>2. r.throughput \in Nat /\ best.throughput \in Nat
    BY DEF Result, DriverTypes, Bests
  <2>3. \A x \in DOMAIN results : results[x] \in Result
    BY <1>1 DEF ResultsOK
  <2>4. \A x \in DOMAIN results : results[x].throughput \in Nat
    BY <2>3 DEF Result
  <2> QED
    BY <2>1, <2>2, <2>4
<1>3. IF Replaces(r)
      THEN best'.config = n /\ best'.throughput = r.throughput
      ELSE best' = best
  OBVIOUS
<1> HIDE DEF n
<1>4. ResultsOK'
  BY <1>1 DEF ResultsOK
<1>5. BestOK' /\ best'.config # Null
  <2>1. CASE Replaces(r)
    <3>1. \A x \in DOMAIN results :
            results[x].ok => results[x].throughput < r.throughput
      <4>1. CASE best.config = Null
        BY <4>1 DEF BestOK
      <4>2. CASE r.throughput > best.throughput
        <5> SUFFICES ASSUME NEW x \in DOMAIN results, results[x].ok
                     PROVE  results[x].throughput < r.throughput
          OBVIOUS
        <5>1. CASE best.config = Null
          BY <5>1 DEF BestOK
        <5>2. CASE best.config # Null
          BY <1>2, <4>2, <5>2 DEF BestOK
        <5> QED
          BY <5>1, <5>2
      <4> QED
        BY <2>1, <4>1, <4>2 DEF Replaces
    <3>2. best'.config = n /\ best'.throughput = r.throughput /\ n # Null
      BY <1>2, <1>3, <2>1 DEF Null
    <3>3. \A x \in DOMAIN results' : results'[x].ok =>
            /\ results'[x].throughput <= best'.throughput
            /\ x < n => results'[x].throughput < best'.throughput
      BY <1>1, <1>2, <3>1, <3>2
    <3> QED
      BY <1>1, <3>2, <3>3 DEF BestOK
  <2>2. CASE ~ Replaces(r)
    <3>1. best' = best /\ best.config # Null
          /\ r.throughput <= best.throughput
      BY <1>2, <1>3, <2>2 DEF Replaces
    <3>2. /\ best.config \in DOMAIN results /\ results[best.config].ok
          /\ best.throughput = results[best.config].throughput
          /\ \A x \in DOMAIN results : results[x].ok =>
               /\ results[x].throughput <= best.throughput
               /\ x < best.config => results[x].throughput < best.throughput
      BY <3>1 DEF BestOK
    <3>3. best.config < n
      BY <1>2, <3>2
    <3>4. \A x \in DOMAIN results' : results'[x].ok =>
            /\ results'[x].throughput <= best.throughput
            /\ x < best.config => results'[x].throughput < best.throughput
      BY <1>1, <1>2, <3>1, <3>2, <3>3
    <3> QED
      BY <1>1, <3>1, <3>2, <3>4 DEF BestOK
  <2> QED
    BY <2>1, <2>2
<1> QED
  BY <1>1, <1>4, <1>5 DEF n

-----------------------------------------------------------------------------
(* The loop over the configurations of a benchmark.                        *)

\* What is behind stays behind when the shape is not finished.
LEMMA SameProgress ==
  ASSUME DataInv, cmd' = cmd, SamePlace(at, at') \/ ~ Single,
         at'.phase = at.phase, at'.s = at.s,
         UNCHANGED <<best_results, all_ok, file>>,
         seen.done \subseteq seen'.done,
         at.pc \notin {"verify_destroy", "open", "write", "close"},
         at'.pc \notin {"verify_destroy", "open", "write", "close"}
  PROVE  DoneOK' /\ LinesOK'
<1>1. Phase' = Phase /\ (Single' <=> Single)
      /\ \A c, k : Supports(c, k)' <=> Supports(c, k)
  BY DEF Phase, Single, Supports
<1>2. ShapesDone' = ShapesDone
  BY DEF ShapesDone, FileCalls
<1>3. \A p, k : Recorded(p, k) => Recorded(p, k)'
  BY <1>1 DEF Recorded, SamePlace
<1>4. DoneOK'
  BY <1>1, <1>2, <1>3 DEF DataInv, DoneOK, FileCalls
<1>5. LinesOK'
  BY <1>2 DEF DataInv, LinesOK
<1> QED
  BY <1>4, <1>5

LEMMA CublasMeasuredStep ==
  ASSUME Alive, CublasMeasured
  PROVE  Continues
<1>1. /\ at.pc = "measured" /\ at.timing = "cublas"
      /\ IF at.ok
         THEN /\ at' = [at EXCEPT !.pc = "bench_config", !.ms = 0,
                                  !.i = IF Single THEN @ ELSE 1]
              /\ UNCHANGED <<held, tally>>
         ELSE BenchmarkLost({"handle", "stream"})
      /\ UNCHANGED <<cmd, cuda, results, best, best_results, all_ok, file,
                     exit, seen>>
  BY DEF CublasMeasured, Running
<1>2. /\ DriverTypes /\ Ordered /\ at \in Places /\ DeviceOK /\ ControlOK
      /\ FailuresOK /\ DataInv /\ HeldOK /\ cuda \in Devices
      /\ seen \in Histories /\ held \in [Objects -> 0 .. 1]
  BY DEF Alive, DriverTypes, RunningInv
<1>3. OfCublas /\ Fresh /\ ~ OfConfig /\ ~ InBench
  BY <1>1 DEF OfCublas, Fresh, OfConfig, InBench, Launcher
<1>4. /\ Phase = "benchmark" /\ cmd.mode # "usage"
      /\ (Single => at.i <= kGemmConfigCount)
      /\ at.phase <= Len(Phases(cmd.mode))
  BY <1>1, <1>2 DEF ControlOK, Launcher
<1>5. /\ held["handle"] = 1 /\ held["stream"] = 1
      /\ held["start"] = 0 /\ held["stop"] = 0
  <2>1. HasHandle /\ HasStream /\ ~ HasStart /\ ~ HasStop
    BY <1>1, <1>4
    DEF HasHandle, HasStream, HasStart, HasStop, Launcher, Timing
  <2> QED
    BY <1>2, <2>1 DEF HeldOK
<1>6. Lost <=> ~ at.ok
  BY <1>1, <1>3 DEF Lost, VerifyLoop
<1>7. CASE at.ok
  <2> DEFINE i == IF Single THEN at.i ELSE 1
             c == [at EXCEPT !.pc = "bench_config"]
             d == [c EXCEPT !.ms = 0]
  <2>1. at' \in Places /\ at'.pc = "bench_config" /\ at'.i = i
        /\ at'.phase = at.phase /\ at'.s = at.s
    <3>1. c \in Places
      BY <1>2, PlaceTypes DEF Calls
    <3>2. d \in Places
      <4> HIDE DEF c
      <4> QED
        BY <3>1, PlaceTypes
    <3>3. i \in 1 .. kGemmConfigCount + 1
      BY <1>2, ConstantFacts DEF Places
    <3>4. [d EXCEPT !.i = i] \in Places
      <4> HIDE DEF d, i
      <4> QED
        BY <3>2, <3>3, PlaceTypes
    <3>5. at' = [d EXCEPT !.i = i]
      BY <1>1, <1>7
    <3> QED
      BY <1>2, <3>4, <3>5 DEF Places
  <2>2. /\ Phase' = Phase /\ (Single' <=> Single)
        /\ Finished(Phase)' = Finished(Phase)
        /\ \A k, s : Supports(k, s)' <=> Supports(k, s)
    BY <1>1, <2>1 DEF Phase, Single, Finished, Supports
  <2>3. UNCHANGED <<held, tally>>
    BY <1>1, <1>7
  <2>4. tally = NoTally /\ results = << >> /\ best = NoBest
        /\ Finished(Phase) = {}
    BY <1>2, <1>3 DEF DataInv, FreshOK, RecordsOK
  <2>5. held' \in Amounts /\ HeldOK'
    <3>1. HasHandle' /\ HasStream' /\ ~ HasStart' /\ ~ HasStop'
      BY <1>4, <2>1, <2>2
      DEF HasHandle, HasStream, HasStart, HasStop, Launcher, Timing
    <3> QED
      BY <1>2, <1>5, <2>3, <3>1 DEF HeldOK, Amounts
  <2>6. /\ InBench' /\ ~ OfConfig' /\ ~ OfCublas'
        /\ (Fresh' <=> Single) /\ (Counting' <=> ~ Single)
    BY <2>1, <2>2 DEF InBench, OfConfig, OfCublas, Fresh, Counting, Launcher,
                      Timing, VerifyLoop
  <2>7. Behind' = i - 1
    BY <2>1 DEF Behind
  <2>8. ControlOK'
    <3>1. at'.phase <= Len(Phases(cmd.mode)') /\ cmd'.mode # "usage"
          /\ (Single' => at'.i <= kGemmConfigCount)
      BY <1>1, <1>4, <2>1, <2>2
    <3> QED
      BY <1>4, <2>1, <2>2, <2>6, <3>1
      DEF ControlOK, VerifyCalls, VerifyLoop, BenchCalls, ProfileCalls,
          FileCalls, Launcher, Timing
  <2>9. DeviceOK'
    BY <1>1, <1>2 DEF DeviceOK, Unawaited
  <2>10. FailuresOK'
    <3>1. ~ Lost'
      BY <2>1, <2>2, <2>3, <2>4, <2>7 DEF Lost, VerifyLoop, NoTally
    <3> QED
      BY <1>1, <1>2, <1>6, <1>7, <2>2, <3>1, SameFailures
  <2>11. DataInv'
    <3>1. FreshOK'
      BY <1>1, <2>3, <2>4 DEF FreshOK
    <3>2. CountsOK'
      <4> SUFFICES ASSUME ~ Single PROVE CountsOK'
        BY <2>6 DEF CountsOK
      <4>1. CountsFit(NoTally, {}, Served(at.s)', 0)
        BY CountStart
      <4>2. Behind' = 0 /\ at'.pc \notin VerifyLoop /\ tally' = NoTally
        BY <2>1, <2>3, <2>4, <2>7 DEF VerifyLoop
      <4> QED
        BY <2>2, <2>4, <4>1, <4>2 DEF CountsOK, NoTally
    <3>3. SummaryOK' /\ SingleOK'
      BY <2>1 DEF SummaryOK, SingleOK
    <3>4. RecordsOK'
      BY <1>1, <1>2, <2>1, <2>2, <2>4
      DEF DataInv, RecordsOK, RecordsOf
    <3>5. DoneOK' /\ LinesOK'
      <4>1. SamePlace(at, at') \/ ~ Single
        BY <2>1 DEF SamePlace
      <4> QED
        BY <1>1, <1>2, <2>1, <4>1, SameProgress
    <3>6. RankingOK'
      <4>1. results' = << >> /\ best' = NoBest /\ tally'.passed = 0
        BY <1>1, <2>3, <2>4 DEF NoTally
      <4>2. ResultsOK' /\ BestOK' /\ Len(results') = 0
        BY <4>1 DEF ResultsOK, BestOK, NoBest
      <4>3. best'.config = Null
        BY <4>1 DEF NoBest
      <4> QED
        BY <2>1, <2>2, <2>7, <4>1, <4>2, <4>3 DEF RankingOK
    <3> QED
      BY <3>1, <3>2, <3>3, <3>4, <3>5, <3>6 DEF DataInv
  <2>12. DriverTypes' /\ Ordered'
    BY <1>1, <1>2, <2>1, <2>3, <2>5, TypesStep DEF DriverTypes
  <2>13. exit' = "running"
    BY <1>1 DEF Alive
  <2> QED
    BY <2>5, <2>8, <2>9, <2>10, <2>11, <2>12, <2>13
    DEF Continues, RunningInv
<1>8. CASE ~ at.ok
  <2>1. /\ Go("bench_next") /\ tally' = LostTally
        /\ held' = Destroyed({"handle", "stream"})
    BY <1>1, <1>8 DEF BenchmarkLost
  <2>2. held' \in Amounts /\ \A o \in Objects : held'[o] = 0
    BY <1>2, <1>5, <2>1, ObjectFacts DEF Objects, Events
  <2>3. seen.blemish
    BY <1>2, <1>6, <1>8 DEF FailuresOK
  <2>4. at.pc \in Launcher
    BY <1>1 DEF Launcher
  <2> QED
    BY <1>1, <1>2, <1>3, <1>4, <2>1, <2>2, <2>3, <2>4, LostStep
<1> QED
  BY <1>7, <1>8

LEMMA ConfigMeasuredStep ==
  ASSUME Alive, ConfigMeasured
  PROVE  Continues
<1> DEFINE r == [ok |-> at.ok, skipped |-> FALSE, latency |-> at.ms,
                 throughput |-> gemm_tflops(at.ms)]
<1>1. /\ at.pc = "measured" /\ at.timing = "config"
      /\ results' = Append(results, r)
      /\ best' = IF at.ok /\ Replaces(r)
                 THEN [config |-> at.i, latency |-> r.latency,
                       throughput |-> r.throughput]
                 ELSE best
      /\ tally' = IF at.ok THEN [tally EXCEPT !.passed = @ + 1] ELSE tally
      /\ seen' = IF at.ok
                 THEN [seen EXCEPT
                        !.done = @ \cup {<<"benchmark", at.s, at.i>>}]
                 ELSE seen
      /\ at' = [at EXCEPT !.ms = 0,
                  !.pc = IF Single THEN "bench_destroy" ELSE "bench_config",
                  !.i = IF Single THEN @ ELSE @ + 1]
      /\ UNCHANGED <<cmd, cuda, held, best_results, all_ok, file, exit>>
  BY DEF ConfigMeasured, Running
<1>2. /\ DriverTypes /\ Ordered /\ at \in Places /\ DeviceOK /\ ControlOK
      /\ FailuresOK /\ DataInv /\ HeldOK /\ cuda \in Devices
      /\ seen \in Histories /\ held \in [Objects -> 0 .. 1]
      /\ tally \in Tallies /\ best \in Bests
  BY DEF Alive, DriverTypes, RunningInv
<1>3. OfConfig /\ InBench /\ ~ OfCublas /\ (Fresh <=> Single)
      /\ (Counting <=> ~ Single) /\ Behind = at.i - 1
  BY <1>1 DEF OfCublas, Fresh, OfConfig, InBench, Launcher, Counting, Behind,
              VerifyLoop
<1>4. /\ Phase = "benchmark" /\ cmd.mode # "usage"
      /\ at.i <= kGemmConfigCount /\ (Single \/ Supported)
      /\ at.phase <= Len(Phases(cmd.mode))
  BY <1>1, <1>2, <1>3 DEF ControlOK, Launcher
<1>5. /\ at.i \in ConfigIds /\ at.i \in Nat \ {0}
      /\ at.s \in 1 .. Len(cmd.shapes) /\ kGemmConfigCount \in Nat
      /\ at.ok \in BOOLEAN /\ at.ms \in Latencies \cup {0}
      /\ at.ok => at.ms \in Latencies
  <2>1. at.ok => at.ms \in Latencies
    BY <1>1, <1>2 DEF DataInv, RankingOK
  <2> QED
    BY <1>2, <1>4, <2>1, ConstantFacts DEF Places, ConfigIds
<1> DEFINE j == IF Single THEN at.i ELSE at.i + 1
           p == IF Single THEN "bench_destroy" ELSE "bench_config"
<1>6. /\ at' \in Places /\ at'.pc = p /\ at'.i = j
      /\ at'.phase = at.phase /\ at'.s = at.s
  <2> DEFINE c == [at EXCEPT !.ms = 0]
             d == [c EXCEPT !.pc = p]
  <2>1. c \in Places
    BY <1>2, PlaceTypes
  <2>2. d \in Places
    <3>1. p \in Calls
      BY DEF Calls
    <3> HIDE DEF c, p
    <3> QED
      BY <2>1, <3>1, PlaceTypes
  <2>3. j \in 1 .. kGemmConfigCount + 1
    BY <1>4, <1>5
  <2>4. [d EXCEPT !.i = j] \in Places
    <3> HIDE DEF d, j
    <3> QED
      BY <2>2, <2>3, PlaceTypes
  <2>5. at' = [d EXCEPT !.i = j]
    BY <1>1
  <2> QED
    BY <1>2, <2>4, <2>5 DEF Places
<1>7. /\ seen' \in Histories /\ seen'.blemish = seen.blemish
      /\ seen'.done = IF at.ok
                      THEN seen.done \cup {<<Phase, at.s, at.i>>}
                      ELSE seen.done
  <2>1. <<"benchmark", at.s, at.i>>
           \in {"verify", "benchmark", "profile"} \X Nat \X Nat
    BY <1>5
  <2>2. CASE at.ok
    BY <1>1, <1>2, <1>4, <2>1, <2>2 DEF Histories
  <2>3. CASE ~ at.ok
    BY <1>1, <1>2, <2>3
  <2> QED
    BY <2>2, <2>3
<1>8. /\ tally' \in Tallies /\ tally'.failed = tally.failed
      /\ tally'.skipped = tally.skipped /\ tally'.ok = tally.ok
      /\ tally'.passed = IF at.ok THEN tally.passed + 1 ELSE tally.passed
  <2>1. CASE at.ok
    BY <1>1, <1>2, <2>1 DEF Tallies
  <2>2. CASE ~ at.ok
    BY <1>1, <1>2, <2>2 DEF Tallies
  <2> QED
    BY <2>1, <2>2
<1>9. /\ r \in Result /\ r.ok = at.ok /\ ~ r.skipped /\ r.latency = at.ms
      /\ r.throughput = gemm_tflops(at.ms)
  BY <1>5, ThroughputFacts, ConstantFacts DEF Result
<1>10. /\ best' \in Bests
       /\ IF at.ok /\ Replaces(r)
          THEN best'.config = at.i /\ best'.throughput = r.throughput
          ELSE best' = best
  <2>1. [config |-> at.i, latency |-> r.latency, throughput |-> r.throughput]
           \in Bests
    BY <1>5, <1>9 DEF Bests, Result
  <2> QED
    BY <1>1, <1>2, <2>1
<1> HIDE DEF r
<1>11. /\ Phase' = Phase /\ (Single' <=> Single) /\ Served(at.s)' = Served(at.s)
       /\ Finished(Phase)' = IF at.ok THEN Finished(Phase) \cup {at.i}
                                      ELSE Finished(Phase)
  <2>1. Phase' = Phase /\ (Single' <=> Single) /\ Served(at.s)' = Served(at.s)
    BY <1>1, <1>6 DEF Phase, Single, Served, Supports
  <2>2. Finished(Phase)' = {c \in ConfigIds : <<Phase, at.s, c>> \in seen'.done}
    BY <1>6, <2>1 DEF Finished, ConfigIds
  <2>3. Finished(Phase) = {c \in ConfigIds : <<Phase, at.s, c>> \in seen.done}
    BY DEF Finished
  <2> QED
    BY <1>5, <1>7, <2>1, <2>2, <2>3
<1>12. held' \in Amounts /\ HeldOK'
  <2>1. at'.pc \in {"bench_destroy", "bench_config"}
    BY <1>6
  <2>2. HasHandle /\ HasHandle' /\ HasStream /\ HasStream'
    BY <1>1, <1>4, <1>11, <2>1 DEF HasHandle, HasStream, Launcher
  <2>3. ~ HasStart /\ ~ HasStart' /\ ~ HasStop /\ ~ HasStop'
    BY <1>1, <2>1 DEF HasStart, HasStop, Timing
  <2> QED
    BY <1>1, <2>2, <2>3, SameObjects
<1>13. /\ ~ OfConfig' /\ ~ OfCublas' /\ ~ Fresh'
       /\ (InBench' <=> ~ Single) /\ (Counting' <=> ~ Single)
       /\ Behind' = j - 1
  BY <1>6, <1>11 DEF InBench, OfConfig, OfCublas, Fresh, Counting, Launcher,
                     Timing, VerifyLoop, Behind
<1>14. ControlOK'
  <2>1. at'.phase <= Len(Phases(cmd.mode)') /\ cmd'.mode # "usage"
        /\ (Single' => at'.i <= kGemmConfigCount)
    BY <1>1, <1>4, <1>6, <1>11
  <2> QED
    BY <1>4, <1>6, <1>11, <1>13, <2>1
    DEF ControlOK, VerifyCalls, VerifyLoop, BenchCalls, ProfileCalls,
        FileCalls, Launcher, Timing
<1>15. DeviceOK'
  BY <1>1, <1>2, <1>7 DEF DeviceOK, Unawaited
<1>16. Single => tally = NoTally /\ results = << >> /\ best = NoBest
  BY <1>2, <1>3 DEF DataInv, FreshOK
<1>17. ~ Single =>
         /\ CountsFit(tally, Finished(Phase), Served(at.s), at.i - 1)
         /\ tally.failed = 0 /\ ResultsOK /\ BestOK
         /\ Len(results) = at.i - 1
         /\ (best.config = Null <=> tally.passed = 0)
  BY <1>1, <1>2, <1>3 DEF DataInv, CountsOK, RankingOK, VerifyLoop
<1>18. FailuresOK'
  <2>1. Lost <=> \/ ~ at.ok
                 \/ ~ Single /\ tally.passed + tally.skipped < at.i - 1
    BY <1>1, <1>3 DEF Lost, VerifyLoop
  <2>2. Lost' <=> \/ ~ Single /\ tally'.passed + tally'.skipped < j - 1
                  \/ Single /\ tally'.passed = 0
    BY <1>6, <1>11, <1>13 DEF Lost, VerifyLoop
  <2>3. Lost' <=> Lost
    <3>1. CASE Single
      BY <1>5, <1>8, <1>16, <2>1, <2>2, <3>1 DEF NoTally
    <3>2. CASE ~ Single
      <4>1. tally.passed + tally.skipped <= at.i - 1
        BY <1>2, <1>17, <3>2 DEF CountsFit, Tallies
      <4> QED
        BY <1>2, <1>5, <1>8, <2>1, <2>2, <3>2, <4>1 DEF Tallies
    <3> QED
      BY <3>1, <3>2
  <2> QED
    BY <1>1, <1>2, <1>7, <1>11, <2>3, SameFailures
<1>19. FreshOK' /\ SummaryOK'
  BY <1>6, <1>13 DEF FreshOK, SummaryOK
<1>20. CountsOK'
  <2> SUFFICES ASSUME ~ Single PROVE CountsOK'
    BY <1>13 DEF CountsOK
  <2> DEFINE b == at.i - 1
  <2>1. b \in Nat /\ b + 1 = at.i /\ at.i \in Served(at.s)
    BY <1>4, <1>5 DEF Served, Supports, Supported
  <2>2. CountsFit(tally', Finished(Phase)', Served(at.s), b + 1)
    <3> HIDE DEF b
    <3>1. CASE at.ok
      BY <1>2, <1>8, <1>11, <1>17, <2>1, <3>1, CountPassed DEF b
    <3>2. CASE ~ at.ok
      BY <1>2, <1>8, <1>11, <1>17, <2>1, <3>2, CountNotPassed DEF b
    <3> QED
      BY <1>5, <3>1, <3>2
  <2>3. Behind' = b + 1 /\ at'.pc \notin VerifyLoop /\ tally'.failed = 0
    BY <1>6, <1>8, <1>13, <1>17, <2>1 DEF VerifyLoop
  <2> QED
    BY <1>11, <2>2, <2>3 DEF CountsOK
<1>21. SingleOK'
  <2> SUFFICES ASSUME Single PROVE SingleOK'
    BY <1>11 DEF SingleOK
  <2>1. at.s = 1 /\ at'.i = at.i /\ at'.pc = "bench_destroy"
    BY <1>2, <1>6, PhaseOf
  <2>2. tally'.passed = IF at.ok THEN 1 ELSE 0
    BY <1>8, <1>16 DEF NoTally
  <2> QED
    BY <1>4, <1>5, <1>7, <2>1, <2>2 DEF SingleOK
<1>22. RecordsOK'
  <2>1. RecordsOf'
    <3>1. CASE at.ok
      BY <1>1, <1>2, <1>4, <1>6, <1>7, <3>1, RecordAdded
      DEF DataInv, RecordsOK
    <3>2. CASE ~ at.ok
      BY <1>1, <1>2, <1>6, <1>7, <3>2 DEF DataInv, RecordsOK, RecordsOf
    <3> QED
      BY <3>1, <3>2
  <2> QED
    BY <1>6, <1>13, <2>1 DEF RecordsOK
<1>23. DoneOK' /\ LinesOK'
  <2>1. SamePlace(at, at') \/ ~ Single
    BY <1>6 DEF SamePlace
  <2>2. seen.done \subseteq seen'.done
    BY <1>7
  <2>3. at'.pc \notin {"verify_destroy", "open", "write", "close"}
    BY <1>6
  <2> QED
    BY <1>1, <1>2, <1>6, <2>1, <2>2, <2>3, SameProgress
<1>24. RankingOK'
  <2>1. best'.config = Null <=> tally'.passed = 0
    <3>1. best.config = Null <=> tally.passed = 0
      BY <1>16, <1>17 DEF NoTally, NoBest
    <3>2. CASE ~ at.ok
      BY <1>8, <1>10, <3>1, <3>2
    <3>3. CASE at.ok /\ Replaces(r)
      BY <1>2, <1>5, <1>8, <1>10, <3>3 DEF Null, Tallies
    <3>4. CASE at.ok /\ ~ Replaces(r)
      BY <1>2, <1>8, <1>10, <3>4 DEF Tallies, Replaces
    <3> QED
      BY <3>2, <3>3, <3>4
  <2>2. ~ Single => ResultsOK' /\ BestOK' /\ Len(results') = at.i
    <3> SUFFICES ASSUME ~ Single
                 PROVE  ResultsOK' /\ BestOK' /\ Len(results') = at.i
      OBVIOUS
    <3>1. Len(results) + 1 = at.i /\ DriverTypes /\ ResultsOK /\ BestOK
      BY <1>2, <1>5, <1>17
    <3>2. CASE at.ok
      <4>1. /\ r.ok /\ ~ r.skipped /\ r.latency \in Latencies
            /\ r.throughput = gemm_tflops(r.latency)
        BY <1>5, <1>9, <3>2
      <4>2. IF Replaces(r)
            THEN /\ best'.config = Len(results) + 1
                 /\ best'.throughput = r.throughput
            ELSE best' = best
        BY <1>10, <3>1, <3>2
      <4> QED
        BY <1>1, <1>5, <1>9, <3>1, <4>1, <4>2, Ranks
    <3>3. CASE ~ at.ok
      <4>1. ~ r.ok /\ r.throughput = gemm_tflops(r.latency) /\ best' = best
        BY <1>9, <1>10, <3>3
      <4> QED
        BY <1>1, <1>9, <3>1, <4>1, NotRanked
    <3> QED
      BY <1>5, <3>2, <3>3
  <2>3. at'.pc # "measured"
    BY <1>6
  <2> QED
    BY <1>11, <1>13, <2>1, <2>2, <2>3, <1>6 DEF RankingOK
<1>25. DataInv'
  BY <1>19, <1>20, <1>21, <1>22, <1>23, <1>24 DEF DataInv
<1>26. DriverTypes' /\ Ordered'
  BY <1>1, <1>2, <1>6, <1>7, <1>8, <1>10, <1>12, TypesStep DEF DriverTypes
<1>27. exit' = "running"
  BY <1>1 DEF Alive
<1> QED
  BY <1>12, <1>14, <1>15, <1>18, <1>25, <1>26, <1>27 DEF Continues, RunningInv

LEMMA BenchDestroyHandleStep ==
  ASSUME Alive, BenchDestroyHandle
  PROVE  Continues
<1>1. PICK ok \in BOOLEAN :
        /\ CheckedCublas(ok)
        /\ at' = [at EXCEPT !.pc = "destroy_stream", !.ok = ok]
  BY DEF BenchDestroyHandle
<1>2. /\ \/ at.pc = "bench_config" /\ at.i > kGemmConfigCount
         \/ at.pc = "bench_destroy"
      /\ held' = Destroyed({"handle"})
      /\ UNCHANGED <<cmd, report, all_ok, file, exit>>
  BY DEF BenchDestroyHandle, Running
<1>3. /\ DriverTypes /\ Ordered /\ at \in Places /\ DeviceOK /\ ControlOK
      /\ FailuresOK /\ DataInv /\ HeldOK /\ cuda \in Devices
      /\ seen \in Histories /\ held \in [Objects -> 0 .. 1]
      /\ tally \in Tallies /\ kGemmConfigCount \in Nat
  BY ConstantFacts DEF Alive, DriverTypes, RunningInv
<1>4. /\ Phase = "benchmark" /\ cmd.mode # "usage"
      /\ at.phase <= Len(Phases(cmd.mode))
      /\ (Single => at.i <= kGemmConfigCount)
      /\ at.i \in 1 .. kGemmConfigCount + 1
  BY <1>2, <1>3 DEF ControlOK, BenchCalls, Places
<1>5. /\ Single <=> at.pc = "bench_destroy"
      /\ at.pc = "bench_config" <=> ~ Single
      /\ ~ Single => at.i = kGemmConfigCount + 1
  BY <1>2, <1>3, <1>4 DEF ControlOK
<1>6. /\ at' \in Places /\ at'.pc = "destroy_stream" /\ at'.ok = ok
      /\ SamePlace(at, at')
  <2> DEFINE c == [at EXCEPT !.pc = "destroy_stream"]
  <2>1. c \in Places
    BY <1>3, PlaceTypes DEF Calls
  <2>2. [c EXCEPT !.ok = ok] \in Places
    <3> HIDE DEF c
    <3> QED
      BY <2>1, PlaceTypes
  <2>3. at' = [c EXCEPT !.ok = ok]
    BY <1>1
  <2> QED
    BY <1>3, <2>2, <2>3 DEF Places, SamePlace
<1>7. CallReturns(ok, FALSE)
  BY <1>1, <1>3, CublasFacts
<1>8. cuda' \in Devices /\ seen' \in Histories /\ seen'.done = seen.done
      /\ seen'.blemish = (seen.blemish \/ ~ ok) /\ DeviceOK'
  BY <1>2, <1>3, <1>7, DeviceStep DEF CallReturns, Unawaited
<1>9. /\ Phase' = Phase /\ (Single' <=> Single)
      /\ Served(at.s)' = Served(at.s) /\ Finished(Phase)' = Finished(Phase)
  BY <1>2, <1>6, <1>8
  DEF Phase, Single, Served, Supports, Finished, SamePlace
<1>10. held' \in Amounts /\ HeldOK'
  <2>1. /\ HasHandle /\ HasStream /\ ~ HasStart /\ ~ HasStop
        /\ ~ HasHandle' /\ HasStream' /\ ~ HasStart' /\ ~ HasStop'
    BY <1>2, <1>4, <1>6 DEF HasHandle, HasStream, HasStart, HasStop,
                            Launcher, Timing, VerifyLoop
  <2>2. /\ held["handle"] = 1 /\ held["stream"] = 1
        /\ held["start"] = 0 /\ held["stop"] = 0
    BY <1>3, <2>1 DEF HeldOK
  <2>3. /\ held' \in Amounts /\ held'["handle"] = 0 /\ held'["stream"] = 1
        /\ held'["start"] = 0 /\ held'["stop"] = 0
    BY <1>2, <1>3, <2>2, ObjectFacts DEF Objects, Events
  <2> QED
    BY <2>1, <2>3 DEF HeldOK
<1>11. /\ ~ OfConfig' /\ ~ OfCublas' /\ ~ Fresh' /\ ~ InBench'
       /\ (Counting' <=> ~ Single) /\ Behind' = kGemmConfigCount
  BY <1>6, <1>9 DEF InBench, OfConfig, OfCublas, Fresh, Counting, Launcher,
                    Timing, VerifyLoop, Behind
<1>12. ~ OfConfig /\ (InBench <=> ~ Single) /\ (Counting <=> ~ Single)
       /\ (~ Single => Behind = kGemmConfigCount)
  BY <1>2, <1>3, <1>5 DEF InBench, OfConfig, Launcher, Timing, VerifyLoop,
                          Counting, Behind
<1>13. ControlOK'
  <2>1. at'.phase <= Len(Phases(cmd.mode)') /\ cmd'.mode # "usage"
        /\ (Single' => at'.i <= kGemmConfigCount)
    BY <1>2, <1>4, <1>6, <1>9 DEF SamePlace
  <2> QED
    BY <1>4, <1>6, <1>9, <1>11, <2>1
    DEF ControlOK, VerifyCalls, VerifyLoop, BenchCalls, ProfileCalls,
        FileCalls, Launcher, Timing
<1>14. FailuresOK'
  <2>1. Lost <=> \/ ~ Single /\ tally.passed + tally.skipped < kGemmConfigCount
                 \/ Single /\ tally.passed = 0
    BY <1>2, <1>5, <1>12 DEF Lost, VerifyLoop
  <2>2. Lost' <=> Lost \/ ~ ok
    BY <1>2, <1>6, <1>9, <1>11, <2>1 DEF Lost, VerifyLoop, report
  <2>3. NothingToRank' <=> NothingToRank
    BY <1>2 DEF NothingToRank, config_supports_problem
  <2> QED
    BY <1>2, <1>3, <1>8, <1>9, <2>2, <2>3 DEF FailuresOK
<1>15. DataInv'
  <2>1. FreshOK' /\ SummaryOK'
    BY <1>6, <1>11 DEF FreshOK, SummaryOK
  <2>2. CountsOK'
    <3> SUFFICES ASSUME ~ Single PROVE CountsOK'
      BY <1>11 DEF CountsOK
    <3>1. /\ CountsFit(tally, Finished(Phase), Served(at.s), kGemmConfigCount)
          /\ tally.failed = 0
      BY <1>2, <1>3, <1>5, <1>12 DEF DataInv, CountsOK, VerifyLoop
    <3>2. tally' = tally /\ at'.pc \notin VerifyLoop
      BY <1>2, <1>6 DEF report, VerifyLoop
    <3> QED
      BY <1>9, <1>11, <3>1, <3>2 DEF CountsOK
  <2>3. SingleOK'
    <3> SUFFICES ASSUME Single PROVE SingleOK'
      BY <1>9 DEF SingleOK
    <3>1. /\ tally.passed \in {0, 1}
          /\ tally.passed = 1 => <<"benchmark", 1, at.i>> \in seen.done
      BY <1>3, <1>5 DEF DataInv, SingleOK
    <3> QED
      BY <1>2, <1>6, <1>8, <3>1 DEF SingleOK, report, SamePlace
  <2>4. RecordsOK'
    BY <1>2, <1>3, <1>6, <1>8, <1>11
    DEF DataInv, RecordsOK, RecordsOf, SamePlace
  <2>5. DoneOK' /\ LinesOK'
    BY <1>2, <1>3, <1>6, <1>8, SameProgress DEF SamePlace, report
  <2>6. RankingOK'
    <3>1. /\ ~ Single => ResultsOK /\ BestOK
          /\ ~ Single => Len(results) = kGemmConfigCount
          /\ best.config = Null <=> tally.passed = 0
      BY <1>2, <1>3, <1>5, <1>12 DEF DataInv, RankingOK
    <3>2. (ResultsOK' <=> ResultsOK) /\ (BestOK' <=> BestOK)
          /\ UNCHANGED <<results, best, tally>>
      BY <1>2 DEF report, ResultsOK, BestOK
    <3> QED
      BY <1>6, <1>9, <1>11, <3>1, <3>2 DEF RankingOK
  <2> QED
    BY <2>1, <2>2, <2>3, <2>4, <2>5, <2>6 DEF DataInv
<1>16. DriverTypes' /\ Ordered' /\ exit' = "running"
  BY <1>2, <1>3, <1>6, <1>8, <1>10, TypesStep DEF DriverTypes, report, Alive
<1> QED
  BY <1>8, <1>10, <1>13, <1>14, <1>15, <1>16 DEF Continues, RunningInv

LEMMA BenchDestroyStreamStep ==
  ASSUME Alive, BenchDestroyStream
  PROVE  Continues
<1>1. PICK ok \in BOOLEAN :
        /\ Checked(ok, FALSE)
        /\ tally' = [tally EXCEPT !.ok = at.ok /\ ok, !.failed =
                       IF Single THEN 1 - tally.passed ELSE TotalFailed]
  BY DEF BenchDestroyStream
<1>2. /\ at.pc = "destroy_stream" /\ Go("bench_next")
      /\ held' = Destroyed({"stream"})
      /\ UNCHANGED <<cmd, results, best, best_results, all_ok, file, exit>>
  BY DEF BenchDestroyStream, Running
<1>3. /\ DriverTypes /\ Ordered /\ at \in Places /\ DeviceOK /\ ControlOK
      /\ FailuresOK /\ DataInv /\ HeldOK /\ cuda \in Devices
      /\ seen \in Histories /\ held \in [Objects -> 0 .. 1]
      /\ tally \in Tallies /\ kGemmConfigCount \in Nat
  BY ConstantFacts DEF Alive, DriverTypes, RunningInv
<1>4. /\ Phase = "benchmark" /\ cmd.mode # "usage"
      /\ at.phase <= Len(Phases(cmd.mode))
      /\ (Single => at.i <= kGemmConfigCount) /\ at.i \in Nat \ {0}
      /\ at.ok \in BOOLEAN
  BY <1>2, <1>3, ConstantFacts DEF ControlOK, BenchCalls, Places
<1>5. at' \in Places /\ at'.pc = "bench_next" /\ SamePlace(at, at')
  BY <1>2, <1>3, GoFacts DEF Go, Calls
<1>6. CallReturns(ok, FALSE)
  BY <1>1, <1>3, CheckedFacts
<1>7. cuda' \in Devices /\ seen' \in Histories /\ seen'.done = seen.done
      /\ seen'.blemish = (seen.blemish \/ ~ ok) /\ DeviceOK'
  BY <1>2, <1>3, <1>6, DeviceStep DEF CallReturns, Unawaited
<1>8. /\ Phase' = Phase /\ (Single' <=> Single)
      /\ Served(at.s)' = Served(at.s) /\ Finished(Phase)' = Finished(Phase)
  BY <1>2, <1>5, <1>7
  DEF Phase, Single, Served, Supports, Finished, SamePlace
<1>9. /\ Single => tally.passed \in {0, 1}
      /\ Single /\ tally.passed = 1 => <<"benchmark", 1, at.i>> \in seen.done
  BY <1>2, <1>3 DEF DataInv, SingleOK
<1>10. Counting <=> ~ Single
  BY <1>2 DEF Counting, InBench, OfConfig, Launcher, Timing, VerifyLoop
<1>11. Behind = kGemmConfigCount
  BY <1>2 DEF Behind, OfConfig, Launcher, Timing, VerifyLoop
<1>12. ~ Single =>
         /\ CountsFit(tally, Finished(Phase), Served(at.s), kGemmConfigCount)
         /\ tally.passed + tally.skipped <= kGemmConfigCount
  <2>1. ~ Single =>
          CountsFit(tally, Finished(Phase), Served(at.s), kGemmConfigCount)
    BY <1>3, <1>10, <1>11 DEF DataInv, CountsOK
  <2> QED
    BY <1>3, <2>1 DEF CountsFit, Tallies
<1> DEFINE f == IF Single THEN 1 - tally.passed
                ELSE kGemmConfigCount - tally.passed - tally.skipped
<1>13. f \in 0 .. kGemmConfigCount
  BY <1>3, <1>4, <1>9, <1>12 DEF Tallies
<1>14. /\ tally' \in Tallies /\ tally'.passed = tally.passed
       /\ tally'.skipped = tally.skipped /\ tally'.failed = f
       /\ tally'.ok = (at.ok /\ ok)
  <2>1. tally' = [tally EXCEPT !.ok = at.ok /\ ok, !.failed = f]
    BY <1>1 DEF TotalFailed
  <2>2. (at.ok /\ ok) \in BOOLEAN
    OBVIOUS
  <2> HIDE DEF f
  <2> QED
    BY <1>3, <1>13, <2>1, <2>2 DEF Tallies
<1> HIDE DEF f
<1>15. held' \in Amounts /\ HeldOK'
  <2>1. /\ ~ HasHandle /\ HasStream /\ ~ HasStart /\ ~ HasStop
        /\ ~ HasHandle' /\ ~ HasStream' /\ ~ HasStart' /\ ~ HasStop'
    BY <1>2, <1>5 DEF HasHandle, HasStream, HasStart, HasStop, Launcher,
                      Timing, VerifyLoop, ProfileCalls
  <2>2. /\ held["handle"] = 0 /\ held["stream"] = 1
        /\ held["start"] = 0 /\ held["stop"] = 0
    BY <1>3, <2>1 DEF HeldOK
  <2>3. /\ held' \in Amounts /\ held'["handle"] = 0 /\ held'["stream"] = 0
        /\ held'["start"] = 0 /\ held'["stop"] = 0
    BY <1>2, <1>3, <2>2, ObjectFacts DEF Objects, Events
  <2> QED
    BY <2>1, <2>3 DEF HeldOK
<1>16. ~ OfConfig' /\ ~ Fresh' /\ ~ InBench' /\ ~ Counting'
  BY <1>5 DEF InBench, OfConfig, OfCublas, Fresh, Counting, Launcher,
              Timing, VerifyLoop
<1>17. ControlOK'
  <2>1. at'.phase <= Len(Phases(cmd.mode)') /\ cmd'.mode # "usage"
        /\ (Single' => at'.i <= kGemmConfigCount)
    BY <1>2, <1>4, <1>5, <1>8 DEF SamePlace
  <2> QED
    BY <1>4, <1>5, <1>8, <1>16, <2>1
    DEF ControlOK, VerifyCalls, VerifyLoop, BenchCalls, ProfileCalls,
        FileCalls, Launcher, Timing
<1>18. FailuresOK'
  <2>1. Lost <=> \/ ~ at.ok
                 \/ ~ Single /\ tally.passed + tally.skipped < kGemmConfigCount
                 \/ Single /\ tally.passed = 0
    BY <1>2, <1>11 DEF Lost, VerifyLoop
  <2>2. Lost' <=> ~ at.ok \/ ~ ok \/ f # 0
    BY <1>5, <1>14, <1>16 DEF Lost, VerifyLoop
  <2>3. f # 0 <=> \/ ~ Single
                     /\ tally.passed + tally.skipped < kGemmConfigCount
                  \/ Single /\ tally.passed = 0
    BY <1>3, <1>9, <1>12 DEF f, Tallies
  <2>4. NothingToRank' <=> NothingToRank
    BY <1>2 DEF NothingToRank, config_supports_problem
  <2> QED
    BY <1>2, <1>3, <1>7, <1>8, <2>1, <2>2, <2>3, <2>4 DEF FailuresOK
<1>19. DataInv'
  <2>1. FreshOK' /\ CountsOK'
    BY <1>16 DEF FreshOK, CountsOK
  <2>2. SummaryOK'
    <3> SUFFICES ASSUME ~ Single PROVE SummaryOK'
      BY <1>8 DEF SummaryOK
    <3>1. /\ tally.passed = Cardinality(Finished(Phase))
          /\ tally.skipped = Cardinality((1 .. kGemmConfigCount) \ Served(at.s))
          /\ tally.passed + tally.skipped = kGemmConfigCount =>
               (1 .. kGemmConfigCount) \cap Served(at.s) \subseteq Finished(Phase)
      BY <1>12 DEF CountsFit
    <3>2. f = kGemmConfigCount - tally.passed - tally.skipped
      BY DEF f
    <3>3. /\ tally'.passed + tally'.failed + tally'.skipped = kGemmConfigCount
          /\ f = 0 => tally.passed + tally.skipped = kGemmConfigCount
      BY <1>3, <1>14, <3>2 DEF Tallies
    <3>4. Unsupported' = (1 .. kGemmConfigCount) \ Served(at.s)
      BY <1>2, <1>5
      DEF Unsupported, Served, Supports, ConfigIds, SamePlace
    <3>5. CountersAddUp'
      BY <1>8, <1>14, <3>1, <3>3, <3>4 DEF CountersAddUp
    <3>6. tally'.failed = 0 => Served(at.s)' \subseteq Finished(Phase)'
      BY <1>8, <1>14, <3>1, <3>3 DEF Served, ConfigIds
    <3> QED
      BY <3>5, <3>6 DEF SummaryOK
  <2>3. SingleOK'
    <3> SUFFICES ASSUME Single PROVE SingleOK'
      BY <1>8 DEF SingleOK
    <3>1. f = 0 => tally.passed = 1
      BY <1>9 DEF f
    <3> QED
      BY <1>5, <1>7, <1>9, <1>14, <3>1 DEF SingleOK, SamePlace
  <2>4. RecordsOK'
    BY <1>2, <1>3, <1>5, <1>7, <1>16
    DEF DataInv, RecordsOK, RecordsOf, SamePlace
  <2>5. DoneOK' /\ LinesOK'
    BY <1>2, <1>3, <1>5, <1>7, SameProgress DEF SamePlace
  <2>6. RankingOK'
    <3>1. /\ ~ Single => ResultsOK /\ BestOK
          /\ best.config = Null <=> tally.passed = 0
      BY <1>2, <1>3 DEF DataInv, RankingOK
    <3>2. (ResultsOK' <=> ResultsOK) /\ (BestOK' <=> BestOK) /\ best' = best
      BY <1>2 DEF ResultsOK, BestOK
    <3> QED
      BY <1>5, <1>8, <1>14, <1>16, <3>1, <3>2 DEF RankingOK
  <2> QED
    BY <2>1, <2>2, <2>3, <2>4, <2>5, <2>6 DEF DataInv
<1>20. DriverTypes' /\ Ordered' /\ exit' = "running"
  BY <1>2, <1>3, <1>5, <1>7, <1>14, <1>15, TypesStep DEF DriverTypes, Alive
<1> QED
  BY <1>7, <1>15, <1>17, <1>18, <1>19, <1>20 DEF Continues, RunningInv

-----------------------------------------------------------------------------
(* The end of a phase, and with the last one of the process.               *)

LEMMA PhasesDistinct ==
  ASSUME DriverTypes, ControlOK
  PROVE  /\ \A q \in 1 .. at.phase : Phases(cmd.mode)[q] = Phase =>
              q = at.phase
         /\ Phase = "benchmark" => at.phase = Len(Phases(cmd.mode))
         /\ at.phase < Len(Phases(cmd.mode)) =>
              /\ at.phase = 1 /\ Phase = "verify"
              /\ Phases(cmd.mode)[2] = "benchmark"
              /\ Len(Phases(cmd.mode)) = 2 /\ cmd.mode \in TwoPhases
<1>1. /\ cmd.mode \in Modes /\ at.phase \in 1 .. Len(Phases(cmd.mode))
  BY PhaseOf
<1>2. /\ Len(Phases(cmd.mode)) = IF cmd.mode \in TwoPhases THEN 2 ELSE 1
      /\ cmd.mode \in VerifyFirst => Phases(cmd.mode)[1] = "verify"
      /\ cmd.mode \in TwoPhases => Phases(cmd.mode)[2] = "benchmark"
  BY <1>1, PhaseFacts
<1>3. TwoPhases \subseteq VerifyFirst /\ Phase = Phases(cmd.mode)[at.phase]
  BY DEF TwoPhases, VerifyFirst, Phase
<1>4. CASE cmd.mode \notin TwoPhases
  BY <1>1, <1>2, <1>4
<1>5. CASE cmd.mode \in TwoPhases
  <2>1. Len(Phases(cmd.mode)) = 2 /\ Phases(cmd.mode)[1] = "verify"
        /\ Phases(cmd.mode)[2] = "benchmark"
    BY <1>2, <1>3, <1>5
  <2>2. at.phase = 1 \/ at.phase = 2
    BY <1>1, <2>1
  <2> QED
    BY <1>3, <1>5, <2>1, <2>2
<1> QED
  BY <1>4, <1>5

\* The results of a phase that has been gone through.
PhaseResults(ok) ==
  /\ all_ok /\ ok =>
       /\ ~ seen'.blemish
       /\ \A k \in 1 .. Len(cmd.shapes) : \A c \in ConfigIds :
            Supports(c, k) /\ (Single => c = at.i) =>
              <<Phase, k, c>> \in seen'.done
  /\ ~ (all_ok /\ ok) => seen'.blemish \/ NothingToRank

LEMMA EndedStep ==
  ASSUME Alive, NEW ok \in BOOLEAN, Ended(ok), PhaseResults(ok),
         Phase \in {"verify", "benchmark"}, at.pc # "main",
         UNCHANGED <<cmd, best_results, file>>, file.state = "old",
         held' \in Amounts, \A o \in Objects : held'[o] = 0,
         cuda' \in Devices, seen' \in Histories,
         ~ seen'.blemish => cuda'.ctx = "live",
         \/ seen'.done = seen.done
         \/ /\ seen'.done = seen.done \cup {<<Phase, at.s, at.i>>}
            /\ at.i <= kGemmConfigCount,
         tally' \in Tallies, best' \in Bests,
         Phase = "verify" /\ Single =>
           tally' = NoTally /\ results' = << >> /\ best' = NoBest
  PROVE  Continues \/ Finishes
<1>1. /\ DriverTypes /\ Ordered /\ at \in Places /\ ControlOK
      /\ FailuresOK /\ DataInv /\ RecordsOf /\ exit = "running"
      /\ all_ok \in BOOLEAN /\ all_ok' = (all_ok /\ ok)
  BY DEF Alive, DriverTypes, RunningInv, DataInv, RecordsOK, Ended
<1>2. /\ cmd.mode # "usage" /\ (Single => at.i <= kGemmConfigCount)
  BY <1>1, PhaseOf, PhaseFacts, PhasesDistinct DEF ControlOK
<1>3. CASE at.phase < Len(Phases(cmd.mode))
  <2> DEFINE p == IF Single THEN "stream" ELSE "problem"
             c == [at EXCEPT !.phase = 2]
             d == [c EXCEPT !.s = 1]
  <2>1. /\ at.phase = 1 /\ Phase = "verify" /\ cmd.mode \in TwoPhases
        /\ Phases(cmd.mode)[1] = "verify"
        /\ Phases(cmd.mode)[2] = "benchmark" /\ Len(Phases(cmd.mode)) = 2
    BY <1>1, <1>3, PhasesDistinct DEF Phase
  <2>2. /\ at' \in Places /\ at'.pc = p /\ at'.phase = 2 /\ at'.s = 1
        /\ at'.i = at.i
    <3>1. c \in Places
      <4>1. 2 \in 1 .. 2
        OBVIOUS
      <4> QED
        BY <1>1, <4>1, PlaceTypes
    <3>2. d \in Places
      <4>1. 1 \in 1 .. Len(cmd.shapes)
        BY <1>1, PhaseOf
      <4> HIDE DEF c
      <4> QED
        BY <3>1, <4>1, PlaceTypes
    <3>3. [d EXCEPT !.pc = p] \in Places
      <4>1. p \in Calls
        BY DEF Calls
      <4> HIDE DEF d, p
      <4> QED
        BY <3>2, <4>1, PlaceTypes
    <3>4. at' = [d EXCEPT !.pc = p]
      BY <1>3, <2>1 DEF Ended
    <3> QED
      BY <1>1, <3>3, <3>4 DEF Places
  <2>3. exit' = "running"
    BY <1>1, <1>3 DEF Ended
  <2>4. /\ Phase' = "benchmark" /\ (Single' <=> Single)
        /\ \A x, k : Supports(x, k)' <=> Supports(x, k)
        /\ Phases(cmd.mode)' = Phases(cmd.mode)
    BY <2>1, <2>2 DEF Phase, Single, Supports
  <2>5. HeldOK'
    <3>1. ~ HasHandle' /\ ~ HasStream' /\ ~ HasStart' /\ ~ HasStop'
      BY <2>2, <2>4
      DEF HasHandle, HasStream, HasStart, HasStop, Launcher, VerifyLoop,
          Timing, ProfileCalls
    <3> QED
      BY <3>1 DEF HeldOK, Objects, Events
  <2>6. DeviceOK'
    BY DEF DeviceOK
  <2>7. /\ ~ OfConfig' /\ ~ InBench' /\ ~ Counting' /\ ~ Lost'
        /\ (Fresh' => Single)
    BY <2>2, <2>4 DEF OfConfig, OfCublas, InBench, Counting, Lost, Fresh,
                      Launcher, Timing, VerifyLoop
  <2>8. ControlOK'
    BY <1>2, <2>1, <2>2, <2>4, <2>7
    DEF ControlOK, VerifyCalls, VerifyLoop, BenchCalls, ProfileCalls,
        FileCalls, Launcher, Timing
  <2>9. FailuresOK'
    <3>1. NothingToRank' <=> NothingToRank
      BY DEF NothingToRank, config_supports_problem
    <3> QED
      BY <1>1, <2>4, <2>7, <3>1 DEF FailuresOK, PhaseResults
  <2>10. FreshOK' /\ CountsOK' /\ SummaryOK' /\ SingleOK' /\ RankingOK'
    BY <2>1, <2>2, <2>7
    DEF FreshOK, CountsOK, SummaryOK, SingleOK, RankingOK
  <2>11. RecordsOK'
    <3>1. \A e \in seen'.done :
            /\ e \in {"verify", "benchmark", "profile"}
                       \X (1 .. Len(cmd.shapes)) \X ConfigIds
            /\ e[1] = "verify"
      <4>1. \A e \in seen.done :
              /\ e \in {"verify", "benchmark", "profile"}
                         \X (1 .. Len(cmd.shapes)) \X ConfigIds
              /\ e[1] = "verify"
        BY <1>1, <2>1 DEF RecordsOf
      <4>2. at.i <= kGemmConfigCount =>
              <<Phase, at.s, at.i>> \in {"verify", "benchmark", "profile"}
                         \X (1 .. Len(cmd.shapes)) \X ConfigIds
        BY <1>1, <2>1, ConstantFacts DEF Places, ConfigIds
      <4> QED
        BY <2>1, <4>1, <4>2
    <3>2. RecordsOf'
      <4>1. cmd' = cmd /\ ConfigIds' = ConfigIds
        BY DEF ConfigIds
      <4> SUFFICES ASSUME NEW e \in seen'.done
                   PROVE  /\ e \in {"verify", "benchmark", "profile"}
                                     \X (1 .. Len(cmd.shapes)) \X ConfigIds
                          /\ \E q \in 1 .. 2 :
                               /\ e[1] = Phases(cmd.mode)[q]
                               /\ q = 2 => e[2] <= 1
        BY <2>2, <4>1 DEF RecordsOf
      <4>2. 1 \in 1 .. 2 /\ e[1] = Phases(cmd.mode)[1]
        BY <2>1, <3>1
      <4> QED
        BY <3>1, <4>2
    <3>3. Finished(Phase)' = {}
      <4>1. Finished(Phase)' = {x \in ConfigIds :
                                  <<"benchmark", 1, x>> \in seen'.done}
        BY <2>2, <2>4 DEF Finished, ConfigIds
      <4>2. \A x \in ConfigIds : <<"benchmark", 1, x>> \notin seen'.done
        BY <3>1
      <4> QED
        BY <4>1, <4>2
    <3> QED
      BY <3>2, <3>3 DEF RecordsOK
  <2>12. DoneOK'
    <3>1. ShapesDone' = 0 /\ at'.pc \notin {"verify_destroy"} \cup FileCalls
      BY <2>2 DEF ShapesDone, FileCalls
    <3>2. all_ok' => \A k \in 1 .. Len(cmd.shapes) : Recorded("verify", k)'
      BY <1>1, <2>1, <2>2, <2>4 DEF PhaseResults, Recorded, ConfigIds
    <3> QED
      BY <2>1, <2>2, <2>4, <3>1, <3>2 DEF DoneOK
  <2>13. LinesOK'
    <3>1. cmd.mode # "benchmark" /\ best_results = << >>
      BY <1>1, <2>1 DEF TwoPhases, DataInv, LinesOK
    <3>2. at'.pc \notin {"write", "close"}
      BY <2>2
    <3> QED
      BY <3>1, <3>2 DEF LinesOK
  <2>14. DriverTypes' /\ Ordered'
    BY <1>1, <2>2, <2>3, <2>5, TypesStep
  <2> QED
    BY <2>3, <2>5, <2>6, <2>8, <2>9, <2>10, <2>11, <2>12, <2>13, <2>14
    DEF Continues, RunningInv, DataInv
<1>4. CASE ~ (at.phase < Len(Phases(cmd.mode)))
  <2>1. /\ exit' = (IF all_ok' THEN "success" ELSE "failure") /\ at' = at
        /\ at.phase = Len(Phases(cmd.mode))
    BY <1>1, <1>4, PhaseOf DEF Ended, Exit
  <2>2. all_ok' => ~ seen'.blemish /\ cuda'.ctx = "live"
                   /\ Wanted' \subseteq seen'.done
    <3> SUFFICES ASSUME all_ok, ok
                 PROVE  ~ seen'.blemish /\ cuda'.ctx = "live"
                        /\ Wanted' \subseteq seen'.done
      BY <1>1
    <3>1. ~ seen'.blemish /\ cuda'.ctx = "live"
      BY DEF PhaseResults
    <3>2. \A q \in 1 .. at.phase : \A k \in 1 .. Len(cmd.shapes) :
            \A x \in ConfigIds : Supports(x, k) /\ (Single => x = at.i) =>
              <<Phases(cmd.mode)[q], k, x>> \in seen'.done
      <4> SUFFICES ASSUME NEW q \in 1 .. at.phase,
                          NEW k \in 1 .. Len(cmd.shapes), NEW x \in ConfigIds,
                          Supports(x, k), Single => x = at.i
                   PROVE  <<Phases(cmd.mode)[q], k, x>> \in seen'.done
        OBVIOUS
      <4>1. CASE q = at.phase
        BY <4>1 DEF PhaseResults, Phase
      <4>2. CASE q # at.phase
        <5>1. q \in 1 .. at.phase - 1
          BY <1>1, <4>2 DEF Places
        <5>2. Recorded(Phases(cmd.mode)[q], k)
          BY <1>1, <5>1 DEF DataInv, DoneOK
        <5> QED
          BY <5>2 DEF Recorded
      <4> QED
        BY <4>1, <4>2
    <3>3. Wanted' \subseteq seen'.done
      BY <1>1, <2>1, <3>2, Wanting
    <3> QED
      BY <3>1, <3>3
  <2>3. ~ all_ok' => seen'.blemish \/ NothingToRank'
    <3>1. NothingToRank' <=> NothingToRank
      BY DEF NothingToRank, config_supports_problem
    <3> QED
      BY <1>1, <3>1 DEF PhaseResults
  <2>4. exit' \in {"success", "failure"} /\ (exit' = "success" <=> all_ok')
    BY <2>1
  <2>5. Ordered' /\ EndedInv'
    BY <1>1, <2>2, <2>3, <2>4, Ends
  <2>6. DriverTypes'
    <3>1. held' \in [Objects -> 0 .. 1]
      BY DEF Amounts
    <3> QED
      BY <1>1, <2>1, <2>4, <3>1
      DEF DriverTypes, Places, Devices, Tallies, Bests, Histories, FileLines,
          Files
  <2> QED
    BY <2>4, <2>5, <2>6 DEF Finishes
<1> QED
  BY <1>3, <1>4

\* The result of a shape says whether its configurations were all timed.
LEMMA ShapeFacts ==
  ASSUME Alive, at.pc = "bench_next"
  PROVE  /\ Phase = "benchmark" /\ cmd.mode # "usage"
         /\ (Single => at.i <= kGemmConfigCount)
         /\ at.s \in 1 .. Len(cmd.shapes)
         /\ \A o \in Objects : held[o] = 0
         /\ all_ok /\ ShapeOk =>
              /\ ~ seen.blemish
              /\ Recorded("benchmark", at.s) /\ best.config # Null
         /\ ~ (all_ok /\ ShapeOk) => seen.blemish \/ NothingToRank
         /\ ~ seen.blemish => cuda.ctx = "live"
         /\ ShapeOk \in BOOLEAN
<1>1. /\ DriverTypes /\ at \in Places /\ ControlOK /\ DeviceOK /\ HeldOK
      /\ FailuresOK /\ DataInv /\ tally \in Tallies /\ all_ok \in BOOLEAN
  BY DEF Alive, DriverTypes, RunningInv
<1>2. /\ Phase = "benchmark" /\ cmd.mode # "usage"
      /\ (Single => at.i <= kGemmConfigCount)
      /\ at.s \in 1 .. Len(cmd.shapes)
  BY <1>1, PhaseOf DEF ControlOK, BenchCalls
<1>3. \A o \in Objects : held[o] = 0
  <2>1. ~ HasHandle /\ ~ HasStream /\ ~ HasStart /\ ~ HasStop
    BY DEF HasHandle, HasStream, HasStart, HasStop, Launcher, Timing,
           VerifyLoop, ProfileCalls
  <2> QED
    BY <1>1, <2>1 DEF HeldOK, Objects, Events
<1>4. Lost <=> ~ (tally.ok /\ tally.failed = 0)
  BY DEF Lost, InBench, OfConfig, Launcher, Timing, VerifyLoop
<1>5. all_ok /\ ShapeOk => ~ seen.blemish
  BY <1>1, <1>4 DEF FailuresOK, ShapeOk
<1>6. best.config = Null <=> tally.passed = 0
  BY <1>1 DEF DataInv, RankingOK
<1>7. CASE Single
  <2>1. /\ tally.passed \in {0, 1} /\ at.s = 1
        /\ tally.passed = 1 => <<"benchmark", 1, at.i>> \in seen.done
        /\ tally.failed = 0 => tally.passed = 1
    BY <1>1, <1>7, PhaseOf DEF DataInv, SingleOK
  <2>2. ShapeOk => Recorded("benchmark", at.s)
    BY <1>7, <2>1 DEF Recorded, ShapeOk
  <2>3. ~ (all_ok /\ ShapeOk) => seen.blemish \/ NothingToRank
    BY <1>1, <1>4, <1>6, <2>1 DEF FailuresOK, ShapeOk
  <2> QED
    BY <1>1, <1>2, <1>3, <1>5, <2>2, <2>3 DEF DeviceOK, Unawaited, ShapeOk
<1>8. CASE ~ Single
  <2>1. /\ CountersAddUp
        /\ tally.failed = 0 => Served(at.s) \subseteq Finished(Phase)
    BY <1>1, <1>8 DEF DataInv, SummaryOK
  <2>2. ShapeOk => Recorded("benchmark", at.s)
    BY <1>2, <1>8, <2>1 DEF ShapeOk, Recorded, Served, Finished
  <2>3. tally.failed = 0 /\ best.config = Null => NothingToRank
    <3> SUFFICES ASSUME tally.failed = 0, best.config = Null
                 PROVE  NothingToRank
      OBVIOUS
    <3>1. Cardinality(Finished(Phase)) = 0
      BY <1>6, <1>8, <2>1 DEF CountersAddUp, Alive
    <3>2. IsFiniteSet(Finished(Phase))
      <4>1. 1 \in Int /\ kGemmConfigCount \in Int
        BY ConstantFacts
      <4>2. IsFiniteSet(ConfigIds)
        BY <4>1, FS_Interval DEF ConfigIds
      <4>3. Finished(Phase) \subseteq ConfigIds
        BY DEF Finished
      <4> QED
        BY <4>2, <4>3, FS_Subset
    <3>3. Finished(Phase) = {}
      BY <3>1, <3>2, FS_EmptySet
    <3>4. \A c \in ConfigIds :
            ~ config_supports_problem(c, cmd.shapes[at.s])
      BY <2>1, <3>3 DEF Served, Supports
    <3>5. /\ DOMAIN Phases(cmd.mode) = 1 .. Len(Phases(cmd.mode))
          /\ at.phase \in 1 .. Len(Phases(cmd.mode))
      BY <1>1, PhaseOf, PhaseDomain
    <3>6. at.s \in DOMAIN cmd.shapes
      <4>1. DOMAIN cmd.shapes = 1 .. Len(cmd.shapes)
        BY <1>1, CommandFacts DEF DriverTypes
      <4> QED
        BY <1>2, <4>1
    <3> QED
      BY <1>2, <3>4, <3>5, <3>6 DEF NothingToRank, Phase
  <2>4. ~ (all_ok /\ ShapeOk) => seen.blemish \/ NothingToRank
    BY <1>1, <1>4, <2>3 DEF FailuresOK, ShapeOk
  <2> QED
    BY <1>1, <1>2, <1>3, <1>5, <2>2, <2>4 DEF DeviceOK, Unawaited, ShapeOk
<1> QED
  BY <1>7, <1>8

\* One more line for BEST.txt.
LEMMA LineFacts ==
  ASSUME NEW s \in Seq(FileLines), NEW e \in FileLines, NEW t,
         t = Append(s, e)
  PROVE  /\ t \in Seq(FileLines) /\ Len(t) = Len(s) + 1 /\ Len(s) \in Nat
         /\ DOMAIN t = DOMAIN s \cup {Len(s) + 1} /\ t[Len(s) + 1] = e
         /\ \A x \in DOMAIN s : t[x] = s[x] /\ t[x] \in FileLines
         /\ DOMAIN s = 1 .. Len(s)
<1>1. t \in Seq(FileLines) /\ Len(t) = Len(s) + 1 /\ Len(s) \in Nat
  OBVIOUS
<1>2. DOMAIN s = 1 .. Len(s) /\ DOMAIN t = 1 .. Len(t)
  BY <1>1
<1>3. DOMAIN t = DOMAIN s \cup {Len(s) + 1}
  BY <1>1, <1>2
<1>4. t[Len(s) + 1] = e /\ \A x \in DOMAIN s : t[x] = s[x] /\ t[x] \in FileLines
  BY <1>2
<1> QED
  BY <1>1, <1>2, <1>3, <1>4

LEMMA BenchNextStep ==
  ASSUME Alive, BenchNext
  PROVE  Continues \/ Finishes
<1>1. /\ at.pc = "bench_next"
      /\ IF Phase = "benchmark" /\ cmd.mode = "benchmark"
         THEN /\ all_ok' = (all_ok /\ ShapeOk)
              /\ best_results' = IF best.config = Null THEN best_results
                   ELSE Append(best_results, [shape |-> at.s, best |-> best])
              /\ at' = IF at.s < Len(cmd.shapes)
                       THEN [at EXCEPT !.pc = "problem", !.s = @ + 1]
                       ELSE [at EXCEPT !.pc = "open"]
              /\ UNCHANGED exit
         ELSE Ended(ShapeOk) /\ UNCHANGED best_results
      /\ UNCHANGED <<cmd, cuda, held, tally, results, best, file, seen>>
  BY DEF BenchNext, Running
<1>2. /\ DriverTypes /\ Ordered /\ at \in Places /\ ControlOK /\ DataInv
      /\ FailuresOK /\ HeldOK /\ cuda \in Devices /\ seen \in Histories
      /\ tally \in Tallies /\ best \in Bests /\ all_ok \in BOOLEAN
      /\ held \in [Objects -> 0 .. 1] /\ best_results \in Seq(FileLines)
      /\ exit = "running"
  BY DEF Alive, DriverTypes, RunningInv
<1>3. /\ file.state = "old" /\ ShapesDone = at.s - 1
      /\ \A k \in DOMAIN best_results : best_results[k].shape <= at.s - 1
      /\ cmd.mode = "benchmark" /\ all_ok => Len(best_results) = at.s - 1
      /\ cmd.mode # "benchmark" => best_results = << >>
  BY <1>1, <1>2 DEF DataInv, LinesOK, ShapesDone, FileCalls
<1>4. CASE cmd.mode # "benchmark"
  <2>1. Ended(ShapeOk) /\ best_results' = best_results
    BY <1>1, <1>4
  <2>2. PhaseResults(ShapeOk)
    <3>1. Len(cmd.shapes) = 1 /\ at.s = 1
      <4>1. cmd.mode \in {"shape_benchmark", "func_benchmark", "shape_test",
                          "func"}
        <5>1. Phase = "benchmark" /\ cmd.mode \in Modes
          BY <1>1, <1>2, ShapeFacts, PhaseOf
        <5> QED
          BY <1>2, <1>4, <5>1, PhaseOf, PhaseFacts
          DEF Phase, BenchmarkOnly, VerifyFirst, TwoPhases, Modes,
              AllConfigModes, SingleModes
      <4>2. Len(cmd.shapes) = 1
        BY <1>2, <4>1, CommandFacts DEF DriverTypes
      <4> QED
        BY <1>1, <4>2, ShapeFacts
    <3>2. all_ok /\ ShapeOk =>
            ~ seen.blemish /\ Recorded("benchmark", at.s)
      BY <1>1, ShapeFacts
    <3>3. ~ (all_ok /\ ShapeOk) => seen.blemish \/ NothingToRank
      BY <1>1, ShapeFacts
    <3>4. seen' = seen /\ Phase = "benchmark"
      BY <1>1, ShapeFacts
    <3> QED
      BY <3>1, <3>2, <3>3, <3>4 DEF PhaseResults, Recorded
  <2>3. /\ held' \in Amounts /\ \A o \in Objects : held'[o] = 0
        /\ cuda' \in Devices /\ seen' \in Histories
        /\ ~ seen'.blemish => cuda'.ctx = "live"
        /\ seen'.done = seen.done /\ tally' \in Tallies /\ best' \in Bests
    BY <1>1, <1>2, ShapeFacts DEF Amounts, Devices, Histories, Tallies, Bests
  <2>4. Phase = "benchmark" /\ ShapeOk \in BOOLEAN
    BY <1>1, ShapeFacts
  <2> QED
    BY <1>1, <1>3, <2>1, <2>2, <2>3, <2>4, EndedStep
<1>5. CASE cmd.mode = "benchmark"
  <2>1. /\ all_ok' = (all_ok /\ ShapeOk)
        /\ best_results' = IF best.config = Null THEN best_results
             ELSE Append(best_results, [shape |-> at.s, best |-> best])
        /\ at' = IF at.s < Len(cmd.shapes)
                 THEN [at EXCEPT !.pc = "problem", !.s = @ + 1]
                 ELSE [at EXCEPT !.pc = "open"]
        /\ UNCHANGED exit
    BY <1>1, <1>5, ShapeFacts
  <2>2. /\ Phase = "benchmark" /\ ~ Single /\ at.s \in 1 .. Len(cmd.shapes)
        /\ Len(cmd.shapes) \in Nat \ {0} /\ at.phase = 1 /\ at.s \in Nat
        /\ at.phase <= Len(Phases(cmd.mode)) /\ Phases(cmd.mode)[1] = Phase
    <3>1. /\ Phase = "benchmark" /\ at.s \in 1 .. Len(cmd.shapes)
          /\ Len(cmd.shapes) \in Nat \ {0} /\ ~ Single
      BY <1>1, <1>2, <1>5, ShapeFacts, PhaseOf DEF Single, SingleModes
    <3>2. at.phase = 1 /\ at.phase <= Len(Phases(cmd.mode))
      BY <1>2, <1>5, PhaseOf
    <3> QED
      BY <3>1, <3>2 DEF Phase
  <2>3. /\ at' \in Places /\ at'.phase = 1 /\ at'.i = at.i
        /\ IF at.s < Len(cmd.shapes)
           THEN at'.pc = "problem" /\ at'.s = at.s + 1
           ELSE at'.pc = "open" /\ at'.s = at.s
    <3>1. CASE at.s < Len(cmd.shapes)
      <4> DEFINE c == [at EXCEPT !.pc = "problem"]
                 s == at.s + 1
      <4>1. c \in Places
        BY <1>2, PlaceTypes DEF Calls
      <4>2. s \in 1 .. Len(cmd.shapes)
        BY <2>2, <3>1
      <4>3. [c EXCEPT !.s = s] \in Places
        <5> HIDE DEF c, s
        <5> QED
          BY <4>1, <4>2, PlaceTypes
      <4>4. at' = [c EXCEPT !.s = s]
        BY <2>1, <3>1
      <4> QED
        BY <1>2, <2>2, <3>1, <4>3, <4>4 DEF Places
    <3>2. CASE ~ (at.s < Len(cmd.shapes))
      <4>1. at' = [at EXCEPT !.pc = "open"]
        BY <2>1, <3>2
      <4>2. at' \in Places /\ at'.pc = "open" /\ SamePlace(at, at')
        BY <1>2, <4>1, GoFacts DEF Calls
      <4> QED
        BY <2>2, <3>2, <4>2 DEF SamePlace
    <3> QED
      BY <3>1, <3>2
  <2>4. /\ Phase' = Phase /\ (Single' <=> Single)
        /\ \A x, k : Supports(x, k)' <=> Supports(x, k)
        /\ Phases(cmd.mode)' = Phases(cmd.mode)
    BY <1>1, <2>2, <2>3 DEF Phase, Single, Supports
  <2>5. /\ at'.pc \in {"problem", "open"} /\ ShapesDone' = at.s
        /\ at'.s >= at.s
        /\ at'.pc = "open" => at.s = Len(cmd.shapes) /\ at'.s = at.s
        /\ at'.pc = "problem" => at'.s = at.s + 1
    BY <2>2, <2>3 DEF ShapesDone, FileCalls
  <2>6. held' \in Amounts /\ HeldOK'
    <3>1. ~ HasHandle' /\ ~ HasStream' /\ ~ HasStart' /\ ~ HasStop'
      BY <2>2, <2>4, <2>5
      DEF HasHandle, HasStream, HasStart, HasStop, Launcher, VerifyLoop,
          Timing, ProfileCalls
    <3>2. \A o \in Objects : held'[o] = 0
      BY <1>1, ShapeFacts
    <3> QED
      BY <1>1, <1>2, <3>1, <3>2 DEF HeldOK, Objects, Events, Amounts
  <2>7. DeviceOK'
    <3>1. ~ seen.blemish => cuda.ctx = "live"
      BY <1>1, ShapeFacts
    <3> QED
      BY <1>1, <3>1 DEF DeviceOK
  <2>8. /\ ~ OfConfig' /\ ~ OfCublas' /\ ~ InBench' /\ ~ Counting' /\ ~ Lost'
        /\ ~ Fresh'
    BY <2>4, <2>5 DEF OfConfig, OfCublas, InBench, Counting, Lost, Fresh,
                      Launcher, Timing, VerifyLoop
  <2>9. ControlOK'
    BY <1>1, <1>5, <2>2, <2>3, <2>4, <2>5, <2>8
    DEF ControlOK, VerifyCalls, VerifyLoop, BenchCalls, ProfileCalls,
        FileCalls, Launcher, Timing
  <2>10. FailuresOK'
    <3>1. NothingToRank' <=> NothingToRank
      BY <1>1 DEF NothingToRank, config_supports_problem
    <3>2. /\ all_ok' => ~ seen'.blemish
          /\ ~ all_ok' => seen'.blemish \/ NothingToRank
      BY <1>1, <2>1, ShapeFacts
    <3>3. Phase' # "profile"
      BY <2>2, <2>4
    <3> QED
      BY <2>8, <3>1, <3>2, <3>3 DEF FailuresOK
  <2>11. FreshOK' /\ CountsOK' /\ SummaryOK' /\ SingleOK' /\ RankingOK'
    BY <2>5, <2>8 DEF FreshOK, CountsOK, SummaryOK, SingleOK, RankingOK
  <2>12. RecordsOK'
    <3>1. RecordsOf
      BY <1>2 DEF DataInv, RecordsOK
    <3>2. RecordsOf'
      <4>1. ConfigIds' = ConfigIds
        BY DEF ConfigIds
      <4> SUFFICES ASSUME NEW e \in seen.done
                   PROVE  /\ e \in {"verify", "benchmark", "profile"}
                                     \X (1 .. Len(cmd.shapes)) \X ConfigIds
                          /\ \E q \in 1 .. 1 :
                               /\ e[1] = Phases(cmd.mode)[q]
                               /\ q = 1 => e[2] <= at'.s
        BY <1>1, <2>3, <4>1 DEF RecordsOf
      <4>2. /\ e \in {"verify", "benchmark", "profile"}
                       \X (1 .. Len(cmd.shapes)) \X ConfigIds
            /\ e[1] = Phases(cmd.mode)[1] /\ e[2] <= at.s
        BY <2>2, <3>1 DEF RecordsOf
      <4>3. e[2] \in Nat /\ at'.s \in Nat
        BY <2>2, <2>3, <4>2
      <4>4. 1 \in 1 .. 1 /\ e[2] <= at'.s
        BY <2>2, <2>5, <4>2, <4>3
      <4> QED
        BY <4>2, <4>4
    <3>3. at'.pc = "problem" => Finished(Phase)' = {}
      <4> SUFFICES ASSUME at'.s = at.s + 1 PROVE Finished(Phase)' = {}
        BY <2>5
      <4>1. Finished(Phase)' = {x \in ConfigIds :
                                  <<Phase, at.s + 1, x>> \in seen.done}
        BY <1>1, <2>4 DEF Finished, ConfigIds
      <4>2. \A x \in ConfigIds : <<Phase, at.s + 1, x>> \notin seen.done
        <5>1. \A e \in seen.done : e[2] <= at.s
          BY <2>2, <3>1 DEF RecordsOf
        <5>2. ~ (at.s + 1 <= at.s)
          BY <2>2
        <5> QED
          BY <5>1, <5>2
      <4> QED
        BY <4>1, <4>2
    <3> QED
      BY <2>5, <2>8, <3>2, <3>3 DEF RecordsOK
  <2>13. DoneOK'
    <3>1. at'.pc \in {"verify_destroy"} \cup FileCalls =>
            at'.s = Len(cmd'.shapes)
      BY <1>1, <2>5 DEF FileCalls
    <3>2. \A p, k : Recorded(p, k)' <=> Recorded(p, k)
      BY <1>1, <2>3, <2>4 DEF Recorded, ConfigIds
    <3>3. all_ok' => \A k \in 1 .. at.s : Recorded(Phase, k)
      <4> SUFFICES ASSUME all_ok, ShapeOk, NEW k \in 1 .. at.s
                   PROVE  Recorded(Phase, k)
        BY <2>1
      <4>1. CASE k = at.s
        BY <1>1, <2>2, <4>1, ShapeFacts
      <4>2. CASE k # at.s
        BY <1>2, <1>3, <2>2, <4>2 DEF DataInv, DoneOK
      <4> QED
        BY <4>1, <4>2
    <3> QED
      BY <2>3, <2>4, <2>5, <3>1, <3>2, <3>3 DEF DoneOK
  <2> DEFINE e == [shape |-> at.s, best |-> best]
  <2>14. /\ best_results' \in Seq(FileLines)
         /\ \A k \in DOMAIN best_results' : best_results'[k].shape <= at.s
         /\ all_ok' => Len(best_results') = at.s
         /\ Ordered'
    <3>1. CASE best.config = Null
      <4>1. best_results' = best_results /\ ~ all_ok'
        BY <2>1, <3>1 DEF ShapeOk
      <4>2. \A k \in DOMAIN best_results : best_results[k].shape <= at.s
        <5> SUFFICES ASSUME NEW k \in DOMAIN best_results
                     PROVE  best_results[k].shape <= at.s
          OBVIOUS
        <5>1. best_results[k] \in FileLines
          BY <1>2
        <5>2. best_results[k].shape \in Nat
          BY <5>1 DEF FileLines
        <5>3. best_results[k].shape <= at.s - 1 /\ at.s \in Nat
          BY <1>3, <2>2
        <5> QED
          BY <5>2, <5>3
      <4> QED
        BY <1>2, <4>1, <4>2 DEF Ordered
    <3>2. CASE best.config # Null
      <4>1. e \in FileLines
        BY <1>2, <2>2 DEF FileLines
      <4>2. e.shape = at.s
        OBVIOUS
      <4>3. best_results' = Append(best_results, e)
        BY <2>1, <3>2
      <4> HIDE DEF e
      <4>4. /\ best_results' \in Seq(FileLines)
            /\ Len(best_results') = Len(best_results) + 1
            /\ Len(best_results) \in Nat
            /\ DOMAIN best_results' =
                 DOMAIN best_results \cup {Len(best_results) + 1}
            /\ best_results'[Len(best_results) + 1] = e
            /\ \A x \in DOMAIN best_results :
                 /\ best_results'[x] = best_results[x]
                 /\ best_results'[x] \in FileLines
            /\ DOMAIN best_results = 1 .. Len(best_results)
        BY <1>2, <4>1, <4>3, LineFacts
      <4>5. \A x \in DOMAIN best_results :
              /\ best_results'[x].shape \in Nat
              /\ best_results'[x].shape <= at.s - 1
        <5> SUFFICES ASSUME NEW x \in DOMAIN best_results
                     PROVE  /\ best_results'[x].shape \in Nat
                            /\ best_results'[x].shape <= at.s - 1
          OBVIOUS
        <5>1. best_results'[x] = best_results[x] /\ best_results'[x] \in FileLines
          BY <4>4
        <5>2. best_results'[x].shape \in Nat
          BY <5>1 DEF FileLines
        <5> QED
          BY <1>3, <5>1, <5>2
      <4>6. \A k \in DOMAIN best_results' : best_results'[k].shape <= at.s
        BY <2>2, <4>2, <4>4, <4>5
      <4>7. Ordered'
        <5> SUFFICES ASSUME NEW k \in 2 .. Len(best_results')
                     PROVE  best_results'[k - 1].shape < best_results'[k].shape
          BY DEF Ordered
        <5>1. k - 1 \in DOMAIN best_results
          BY <4>4
        <5>2. CASE k = Len(best_results) + 1
          BY <2>2, <4>2, <4>4, <4>5, <5>1, <5>2
        <5>3. CASE k # Len(best_results) + 1
          <6>1. k \in 2 .. Len(best_results) /\ k \in DOMAIN best_results
            BY <4>4, <5>3
          <6> QED
            BY <1>2, <4>4, <5>1, <6>1 DEF Ordered
        <5> QED
          BY <5>2, <5>3
      <4>8. all_ok' => Len(best_results') = at.s
        <5> SUFFICES ASSUME all_ok' PROVE Len(best_results') = at.s
          OBVIOUS
        <5>1. all_ok
          BY <2>1
        <5>2. Len(best_results) = at.s - 1 /\ at.s \in Nat
          BY <1>3, <1>5, <2>2, <5>1
        <5> QED
          BY <4>4, <5>2
      <4> QED
        BY <4>4, <4>6, <4>7, <4>8
    <3> QED
      BY <3>1, <3>2
  <2>15. LinesOK'
    <3>1. at'.pc \notin {"write", "close"}
      BY <2>5
    <3> QED
      BY <1>1, <1>3, <1>5, <2>5, <2>14, <3>1 DEF LinesOK
  <2>16. DriverTypes'
    <3>1. held' \in [Objects -> 0 .. 1]
      BY <2>6, HeldTypes
    <3>2. at' \in Places' /\ all_ok' \in BOOLEAN
      BY <1>1, <2>1, <2>3 DEF Places
    <3>3. best_results' \in Seq(FileLines)'
      BY <2>14 DEF FileLines, Bests, ConfigIds
    <3> QED
      BY <1>1, <1>2, <2>1, <3>1, <3>2, <3>3
      DEF DriverTypes, Devices, Tallies, Bests, Histories, FileLines, Files
  <2> QED
    BY <1>2, <2>1, <2>6, <2>7, <2>9, <2>10, <2>11, <2>12, <2>13, <2>14,
       <2>15, <2>16
    DEF Continues, RunningInv, DataInv
<1> QED
  BY <1>4, <1>5

-----------------------------------------------------------------------------
(* Verification.                                                           *)

VerifyPart == (VerifyCalls \ {"verify_destroy"}) \cup {"problem"}

LEMMA VerifyFacts ==
  ASSUME Alive, at.pc \in VerifyCalls \cup {"problem"}, Phase = "verify"
  PROVE  /\ DriverTypes /\ Ordered /\ at \in Places /\ ControlOK /\ DataInv
         /\ FailuresOK /\ HeldOK /\ DeviceOK /\ cuda \in Devices
         /\ seen \in Histories /\ tally \in Tallies /\ best \in Bests
         /\ held \in [Objects -> 0 .. 1] /\ all_ok \in BOOLEAN
         /\ exit = "running" /\ cmd.mode # "usage" /\ file.state = "old"
         /\ Single => at.i <= kGemmConfigCount /\ at.s = 1
                      /\ Len(cmd.shapes) = 1
         /\ at.phase <= Len(Phases(cmd.mode)) /\ at.s \in 1 .. Len(cmd.shapes)
         /\ held["handle"] = IF HasHandle THEN 1 ELSE 0
         /\ \A o \in Objects \ {"handle"} : held[o] = 0
         /\ held \in Amounts
<1>1. /\ DriverTypes /\ Ordered /\ at \in Places /\ ControlOK /\ DataInv
      /\ FailuresOK /\ HeldOK /\ DeviceOK /\ cuda \in Devices
      /\ seen \in Histories /\ tally \in Tallies /\ best \in Bests
      /\ held \in [Objects -> 0 .. 1] /\ all_ok \in BOOLEAN
      /\ exit = "running"
  BY DEF Alive, DriverTypes, RunningInv
<1>2. at.pc \notin {"main", "write", "close"}
  BY DEF VerifyCalls, VerifyLoop
<1>3. /\ cmd.mode # "usage" /\ file.state = "old"
      /\ Single => at.i <= kGemmConfigCount
      /\ at.phase <= Len(Phases(cmd.mode))
  BY <1>1, <1>2 DEF ControlOK, DataInv, LinesOK
<1>4. /\ Single => at.s = 1 /\ Len(cmd.shapes) = 1
      /\ at.s \in 1 .. Len(cmd.shapes)
  BY <1>1, PhaseOf
<1>5. ~ HasStream /\ ~ HasStart /\ ~ HasStop
  BY DEF HasStream, HasStart, HasStop, VerifyCalls, VerifyLoop, Launcher,
         Timing, ProfileCalls
<1>6. /\ held["handle"] = IF HasHandle THEN 1 ELSE 0
      /\ \A o \in Objects \ {"handle"} : held[o] = 0
  BY <1>1, <1>5 DEF HeldOK, Objects, Events
<1>7. held \in Amounts
  BY <1>1 DEF Amounts
<1> QED
  BY <1>1, <1>3, <1>4, <1>6, <1>7

\* The verification goes on, in the same phase and with the same shape.
LEMMA VerifyContinues ==
  ASSUME Alive, UNCHANGED <<cmd, best_results, all_ok, file, exit>>,
         Phase = "verify", at.pc \in VerifyPart,
         at' \in Places, at'.pc \in VerifyPart,
         at'.phase = at.phase, at'.s = at.s, Single => at'.i = at.i,
         at'.pc = "reference_destroy" => Single,
         at'.pc = "verify_next" => ~ Single,
         at'.pc \in {"verify_sync", "verify_compare"} =>
           at'.i <= kGemmConfigCount /\ (Single \/ Supported'),
         cuda' \in Devices, DeviceOK', held' \in Amounts,
         held'["handle"] = IF HasHandle' THEN 1 ELSE 0,
         \A o \in Objects \ {"handle"} : held'[o] = held[o],
         tally' \in Tallies, best' \in Bests, seen' \in Histories,
         seen.done \subseteq seen'.done, RecordsOf',
         seen.blemish => seen'.blemish,
         seen'.blemish => seen.blemish \/ Lost',
         Lost => Lost', Lost' => seen'.blemish,
         FreshOK', CountsOK', SummaryOK',
         Fresh' \/ at'.pc \in {"handle", "problem"} => Finished(Phase)' = {}
  PROVE  Continues
<1>1. at.pc \in VerifyCalls \cup {"problem"}
  BY DEF VerifyPart
<1>2. /\ DriverTypes /\ Ordered /\ ControlOK /\ DataInv /\ FailuresOK
      /\ cmd.mode # "usage"
      /\ Single => at.i <= kGemmConfigCount
      /\ at.phase <= Len(Phases(cmd.mode))
      /\ \A o \in Objects \ {"handle"} : held[o] = 0
      /\ all_ok \in BOOLEAN /\ exit = "running"
  BY <1>1, VerifyFacts
<1>3. /\ Phase' = "verify" /\ (Single' <=> Single)
      /\ Phases(cmd.mode)' = Phases(cmd.mode)
  BY DEF Phase, Single
<1>4. at'.pc \in {"handle", "reference", "reference_sync", "verify_next",
                  "reference_destroy", "verify_config", "verify_sync",
                  "verify_compare", "problem"}
  BY DEF VerifyPart, VerifyCalls, VerifyLoop
<1>5. at.pc \notin {"verify_destroy", "open", "write", "close"}
  BY DEF VerifyPart, VerifyCalls, VerifyLoop
<1>6. HeldOK'
  <2>1. ~ HasStream' /\ ~ HasStart' /\ ~ HasStop'
    BY <1>4 DEF HasStream, HasStart, HasStop, Launcher, Timing, ProfileCalls
  <2> QED
    BY <1>2, <2>1 DEF HeldOK, Objects, Events
<1>7. ~ OfConfig' /\ ~ OfCublas' /\ ~ InBench'
  BY <1>4 DEF OfConfig, OfCublas, InBench, Launcher, Timing
<1>8. ControlOK'
  <2>1. at'.phase <= Len(Phases(cmd.mode)') /\ cmd'.mode # "usage"
        /\ (Single' => at'.i <= kGemmConfigCount)
    BY <1>2, <1>3
  <2> QED
    BY <1>3, <1>4, <1>7, <2>1
    DEF ControlOK, VerifyCalls, VerifyLoop, BenchCalls, ProfileCalls,
        FileCalls, Launcher, Timing
<1>9. FailuresOK'
  <2>1. NothingToRank' <=> NothingToRank
    BY DEF NothingToRank, config_supports_problem
  <2> QED
    BY <1>2, <1>3, <2>1 DEF FailuresOK
<1>10. SingleOK' /\ RankingOK'
  BY <1>4, <1>7 DEF SingleOK, RankingOK
<1>11. RecordsOK'
  BY <1>4 DEF RecordsOK
<1>12. DoneOK' /\ LinesOK'
  <2>1. SamePlace(at, at') \/ ~ Single
    BY DEF SamePlace
  <2>2. at'.pc \notin {"verify_destroy", "open", "write", "close"}
    BY <1>4
  <2> QED
    BY <1>2, <1>5, <2>1, <2>2, SameProgress
<1>13. DriverTypes' /\ Ordered'
  BY <1>2, <1>6, TypesStep
<1> QED
  BY <1>2, <1>6, <1>8, <1>9, <1>10, <1>11, <1>12, <1>13
  DEF Continues, RunningInv, DataInv

LEMMA SameRecordsOf ==
  ASSUME RecordsOf, cmd' = cmd, at'.phase = at.phase, at'.s = at.s,
         seen'.done = seen.done
  PROVE  RecordsOf'
BY DEF RecordsOf, ConfigIds

LEMMA SameFinished ==
  ASSUME cmd' = cmd, at'.phase = at.phase, at'.s = at.s,
         seen'.done = seen.done
  PROVE  Phase' = Phase /\ Finished(Phase)' = Finished(Phase)
<1>1. Phase' = Phase
  BY DEF Phase
<1> QED
  BY <1>1 DEF Finished, ConfigIds

\* A shape without a reference is lost: all its configurations count as
\* failed.
LEMMA LostShape ==
  ASSUME Alive, UNCHANGED <<cmd, results, best, best_results, all_ok, file,
                            exit, held>>,
         Phase = "verify", at.pc \in {"reference", "reference_sync"},
         ~ Single, ReferenceReturns(FALSE), cuda' \in Devices,
         seen' \in Histories, seen'.done = seen.done, seen'.blemish
  PROVE  Continues
<1>1. at.pc \in VerifyCalls \cup {"problem"} /\ at.pc \in VerifyPart
  BY DEF VerifyPart, VerifyCalls, VerifyLoop
<1>2. /\ DriverTypes /\ at \in Places /\ DataInv /\ best \in Bests
      /\ held \in [Objects -> 0 .. 1] /\ held["handle"] = 1
      /\ held \in Amounts
  BY <1>1, VerifyFacts DEF HasHandle
<1>3. /\ at' = [at EXCEPT !.pc = "verify_next", !.i = 1]
      /\ tally' = LostTally
  BY DEF ReferenceReturns
<1>4. /\ at' \in Places /\ at'.pc = "verify_next" /\ at'.phase = at.phase
      /\ at'.s = at.s
  <2> DEFINE c == [at EXCEPT !.pc = "verify_next"]
  <2>1. c \in Places
    BY <1>2, PlaceTypes DEF Calls
  <2>2. [c EXCEPT !.i = 1] \in Places
    <3>1. 1 \in 1 .. kGemmConfigCount + 1
      BY ConstantFacts
    <3> HIDE DEF c
    <3> QED
      BY <2>1, <3>1, PlaceTypes
  <2>3. at' = [c EXCEPT !.i = 1]
    BY <1>3
  <2> QED
    BY <1>2, <2>2, <2>3 DEF Places
<1>5. Phase' = Phase /\ Finished(Phase)' = Finished(Phase) /\ RecordsOf'
      /\ (Single' <=> Single)
  BY <1>2, <1>4, SameFinished, SameRecordsOf
  DEF DataInv, RecordsOK, Single
<1>6. /\ tally'.passed = 0 /\ tally'.failed = kGemmConfigCount
      /\ tally'.skipped = 0 /\ tally'.ok = FALSE /\ tally' \in Tallies
  BY <1>3, ConstantFacts DEF LostTally, Tallies
<1>7. Lost' /\ ~ Fresh' /\ ~ Counting'
  BY <1>4, <1>5, <1>6 DEF Lost, Fresh, Counting, OfCublas, InBench, OfConfig,
                          Launcher, Timing, VerifyLoop
<1>8. Fresh
  BY DEF Fresh
<1>9. SummaryOK'
  <2>1. Cardinality({}) = 0
    BY FS_EmptySet
  <2>2. Finished(Phase)' = {}
    BY <1>2, <1>5, <1>8 DEF DataInv, RecordsOK
  <2>3. CountersAddUp'
    BY <1>6, <2>1, <2>2, ConstantFacts DEF CountersAddUp
  <2>4. tally'.failed = 0 => ConfigIds = {}
    BY <1>6, ConstantFacts DEF ConfigIds
  <2> QED
    BY <2>3, <2>4 DEF SummaryOK, ConfigIds, Served
<1>10. HasHandle'
  BY <1>4, <1>5 DEF HasHandle, Single
<1>11. /\ at'.pc \in VerifyPart /\ FreshOK' /\ CountsOK' /\ DeviceOK'
  BY <1>4, <1>7 DEF VerifyPart, VerifyCalls, FreshOK, CountsOK, DeviceOK
<1> QED
  BY <1>1, <1>2, <1>4, <1>5, <1>6, <1>7, <1>9, <1>10, <1>11, VerifyContinues

\* A call of the verification that counts nothing.
LEMMA VerifyQuiet ==
  ASSUME Alive, UNCHANGED <<cmd, report, all_ok, file, exit>>,
         Phase = "verify", at.pc \in VerifyPart \ {"verify_next"},
         at' \in Places, at'.pc \in VerifyPart \ {"verify_next"},
         SamePlace(at, at'),
         at'.pc = "reference_destroy" => Single,
         at'.pc \in {"verify_sync", "verify_compare"} =>
           at.i <= kGemmConfigCount /\ (Single \/ Supported),
         Fresh' => Fresh,
         at'.pc \in {"handle", "problem"} => at.pc \in {"handle", "problem"},
         ~ Single => (at'.pc \in VerifyLoop <=> at.pc \in VerifyLoop),
         cuda' \in Devices, DeviceOK', held' \in Amounts,
         held'["handle"] = IF HasHandle' THEN 1 ELSE 0,
         \A o \in Objects \ {"handle"} : held'[o] = held[o],
         seen' \in Histories, seen'.done = seen.done,
         seen.blemish => seen'.blemish,
         seen'.blemish => seen.blemish \/ Lost',
         Lost => Lost', Lost' => seen'.blemish
  PROVE  Continues
<1>1. at.pc \in VerifyCalls \cup {"problem"}
  BY DEF VerifyPart
<1>2. /\ DriverTypes /\ DataInv /\ tally \in Tallies /\ best \in Bests
  BY <1>1, VerifyFacts
<1>3. /\ at'.phase = at.phase /\ at'.s = at.s /\ at'.i = at.i
  BY DEF SamePlace
<1>4. Phase' = Phase /\ Finished(Phase)' = Finished(Phase) /\ RecordsOf'
      /\ (Single' <=> Single) /\ (Supported' <=> Supported)
  BY <1>2, <1>3, SameFinished, SameRecordsOf
  DEF DataInv, RecordsOK, Single, Supported
<1>5. FreshOK'
  BY <1>2 DEF DataInv, FreshOK, report
<1>6. CountsOK'
  <2> SUFFICES ASSUME Counting' PROVE CountsOK'
    BY DEF CountsOK
  <2>1. /\ at'.pc \notin {"bench_config", "destroy_stream"} \cup Launcher
        /\ at.pc \notin {"bench_config", "destroy_stream"} \cup Launcher
    BY DEF VerifyPart, VerifyCalls, VerifyLoop, Launcher, Timing
  <2>2. /\ ~ Single /\ at.pc \in VerifyLoop /\ at'.pc \in VerifyLoop
    BY <1>4, <2>1 DEF Counting, InBench, OfConfig
  <2>3. Counting /\ Behind' = at.i - 1 /\ Behind = at.i - 1
    BY <1>3, <2>2 DEF Counting, Behind
  <2>4. Served(at.s)' = Served(at.s)
    BY <1>3 DEF Served, Supports, ConfigIds
  <2> QED
    BY <1>2, <1>4, <2>2, <2>3, <2>4 DEF DataInv, CountsOK, CountsFit, report
<1>7. SummaryOK'
  BY DEF SummaryOK, VerifyPart, VerifyCalls, VerifyLoop
<1>8. Fresh' \/ at'.pc \in {"handle", "problem"} => Finished(Phase)' = {}
  BY <1>2, <1>4 DEF DataInv, RecordsOK
<1>9. tally' = tally /\ best' = best /\ best_results' = best_results
  BY DEF report
<1> QED
  BY <1>2, <1>3, <1>4, <1>5, <1>6, <1>7, <1>8, <1>9, VerifyContinues
  DEF VerifyPart

LEMMA VerifyHandleStep ==
  ASSUME Alive, VerifyHandle
  PROVE  Continues \/ Finishes
<1>1. PICK ok \in BOOLEAN :
        /\ CheckedCublas(ok)
        /\ held' = Created(IF ok THEN {"handle"} ELSE {})
        /\ CASE ok -> /\ Go(IF Single THEN "reference" ELSE "problem")
                      /\ UNCHANGED <<exit, all_ok>>
             [] ~ ok /\ Single -> Ended(FALSE)
             [] OTHER -> Exit(FALSE) /\ UNCHANGED <<at, all_ok>>
  BY DEF VerifyHandle
<1>2. /\ at.pc = "handle" /\ Phase = "verify"
      /\ UNCHANGED <<cmd, report, file>>
  BY DEF VerifyHandle, Running
<1>3. /\ at.pc \in VerifyCalls \cup {"problem"}
      /\ at.pc \in VerifyPart \ {"verify_next"}
  BY <1>2 DEF VerifyPart, VerifyCalls
<1>4. /\ DriverTypes /\ DeviceOK /\ DataInv /\ FailuresOK /\ at \in Places
      /\ Ordered /\ held \in [Objects -> 0 .. 1] /\ file.state = "old"
      /\ tally \in Tallies /\ best \in Bests
      /\ \A o \in Objects : held[o] = 0
  <2>1. ~ HasHandle
    BY <1>2 DEF HasHandle, VerifyLoop, Launcher, Timing
  <2> QED
    BY <1>2, <1>3, <2>1, VerifyFacts
<1>5. CallReturns(ok, FALSE)
  BY <1>1, <1>4, CublasFacts
<1>6. cuda' \in Devices /\ seen' \in Histories /\ seen'.done = seen.done
      /\ seen'.blemish = (seen.blemish \/ ~ ok) /\ DeviceOK'
  BY <1>2, <1>4, <1>5, DeviceStep DEF CallReturns, Unawaited
<1>7. /\ held' \in Amounts
      /\ \A o \in Objects : held'[o] =
           IF o = "handle" /\ ok THEN 1 ELSE 0
  BY <1>1, <1>4, ObjectFacts
<1>8. CASE ok
  <2>1. /\ Go(IF Single THEN "reference" ELSE "problem")
        /\ UNCHANGED <<exit, all_ok>>
    BY <1>1, <1>8
  <2>2. /\ at' \in Places /\ SamePlace(at, at')
        /\ at'.pc = IF Single THEN "reference" ELSE "problem"
    <3> DEFINE p == IF Single THEN "reference" ELSE "problem"
    <3>1. p \in Calls
      BY DEF Calls
    <3>2. at' = [at EXCEPT !.pc = p]
      BY <2>1 DEF Go
    <3> HIDE DEF p
    <3>3. at' \in Places /\ SamePlace(at, at') /\ at'.pc = p
      BY <1>4, <3>1, <3>2, GoFacts
    <3> QED
      BY <3>3 DEF p
  <2>3. Phase' = Phase /\ (Single' <=> Single)
    BY <1>2, <2>2 DEF Phase, Single, SamePlace
  <2>4. HasHandle'
    BY <1>2, <2>2, <2>3 DEF HasHandle
  <2>5. ~ Lost /\ ~ Lost'
    BY <1>2, <2>2 DEF Lost, VerifyLoop, InBench, OfConfig, Launcher, Timing
  <2>6. Fresh' => Fresh
    BY <1>2, <2>2, <2>3 DEF Fresh, OfCublas, InBench, OfConfig, Launcher,
                            Timing, VerifyLoop
  <2>7. /\ held'["handle"] = IF HasHandle' THEN 1 ELSE 0
        /\ \A o \in Objects \ {"handle"} : held'[o] = held[o]
    BY <1>4, <1>7, <1>8, <2>4 DEF Objects
  <2>8. /\ at'.pc \in VerifyPart \ {"verify_next"}
        /\ at'.pc \notin {"reference_destroy", "verify_sync",
                          "verify_compare"}
        /\ at.pc \in {"handle", "problem"}
        /\ at.pc \notin VerifyLoop /\ at'.pc \notin VerifyLoop
    BY <1>2, <2>2 DEF VerifyPart, VerifyCalls, VerifyLoop
  <2>9. (seen.blemish => seen'.blemish) /\ (seen'.blemish => seen.blemish)
    BY <1>6, <1>8
  <2> QED
    BY <1>2, <1>3, <1>6, <1>7, <2>1, <2>2, <2>5, <2>6, <2>7, <2>8, <2>9,
       VerifyQuiet
<1>9. CASE ~ ok
  <2>1. seen'.blemish /\ \A o \in Objects : held'[o] = 0
    BY <1>6, <1>7, <1>9
  <2>2. CASE Single
    <3>1. Ended(FALSE)
      BY <1>1, <1>9, <2>2
    <3>2. PhaseResults(FALSE)
      BY <2>1 DEF PhaseResults
    <3>3. tally' = NoTally /\ results' = << >> /\ best' = NoBest
      BY <1>2, <1>4, <2>2 DEF DataInv, FreshOK, Fresh, report
    <3>4. /\ tally' \in Tallies /\ best' \in Bests
          /\ UNCHANGED <<cmd, best_results, file>>
      BY <1>2, <1>4 DEF report
    <3> QED
      BY <1>2, <1>4, <1>6, <1>7, <2>1, <3>1, <3>2, <3>3, <3>4, EndedStep
  <2>3. CASE ~ Single
    <3>1. exit' = "failure" /\ UNCHANGED <<at, all_ok>>
      BY <1>1, <1>9, <2>3 DEF Exit
    <3>2. UNCHANGED <<tally, results, best, best_results>>
      BY <1>2 DEF report
    <3>3. Ordered' /\ EndedInv'
      BY <1>2, <1>4, <2>1, <3>1, <3>2, Ends
    <3>4. held' \in [Objects -> 0 .. 1]
      BY <1>7, <2>1 DEF Amounts
    <3>5. DriverTypes'
      BY <1>2, <1>4, <1>6, <3>1, <3>2, <3>4
      DEF DriverTypes, Places, Devices, Tallies, Bests, Histories, FileLines,
          Files
    <3> QED
      BY <3>1, <3>3, <3>5 DEF Finishes
  <2> QED
    BY <2>2, <2>3
<1> QED
  BY <1>8, <1>9

LEMMA ReferenceReturned ==
  ASSUME at \in Places, Single, NEW ok \in BOOLEAN, ReferenceReturns(ok)
  PROVE  /\ at' \in Places /\ at'.pc = "reference_destroy" /\ at'.ok = ok
         /\ SamePlace(at, at') /\ tally' = tally
<1> DEFINE c == [at EXCEPT !.pc = "reference_destroy"]
<1>1. c \in Places
  BY PlaceTypes DEF Calls
<1>2. [c EXCEPT !.ok = ok] \in Places
  <2> HIDE DEF c
  <2> QED
    BY <1>1, PlaceTypes
<1>3. at' = [c EXCEPT !.ok = ok] /\ tally' = tally
  BY DEF ReferenceReturns
<1> QED
  BY <1>2, <1>3 DEF Places, SamePlace

\* The single verification goes on to give its handle back.
LEMMA ReferenceSingle ==
  ASSUME Alive, Phase = "verify", at.pc \in {"reference", "reference_sync"},
         Single, NEW ok \in BOOLEAN, ReferenceReturns(ok),
         UNCHANGED <<cmd, held, results, best, best_results, all_ok, file,
                     exit>>,
         cuda' \in Devices, DeviceOK', seen' \in Histories,
         seen'.done = seen.done, seen'.blemish = (seen.blemish \/ ~ ok)
  PROVE  Continues
<1>1. /\ at.pc \in VerifyCalls \cup {"problem"}
      /\ at.pc \in VerifyPart \ {"verify_next"}
  BY DEF VerifyPart, VerifyCalls
<1>2. /\ at \in Places /\ held["handle"] = 1 /\ held \in Amounts
      /\ FailuresOK /\ all_ok \in BOOLEAN
  BY <1>1, VerifyFacts DEF HasHandle
<1>3. /\ at' \in Places /\ at'.pc = "reference_destroy" /\ at'.ok = ok
      /\ SamePlace(at, at') /\ tally' = tally
  BY <1>2, ReferenceReturned
<1>4. Fresh /\ HasHandle' /\ ~ Lost /\ (Lost' <=> ~ ok)
  BY <1>3 DEF Fresh, HasHandle, Lost, VerifyLoop, InBench, OfConfig,
              Launcher, Timing
<1>5. /\ at'.pc \in VerifyPart \ {"verify_next"}
      /\ at'.pc \notin {"verify_sync", "verify_compare", "handle", "problem"}
  BY <1>3 DEF VerifyPart, VerifyCalls
<1>6. UNCHANGED <<cmd, report, all_ok, file, exit>>
  BY <1>3 DEF report
<1>7. /\ held' \in Amounts /\ held'["handle"] = IF HasHandle' THEN 1 ELSE 0
      /\ \A o \in Objects \ {"handle"} : held'[o] = held[o]
  BY <1>2, <1>4
<1> QED
  BY <1>1, <1>3, <1>4, <1>5, <1>6, <1>7, VerifyQuiet

LEMMA ReferenceStep ==
  ASSUME Alive, Reference
  PROVE  Continues
<1>1. PICK ok \in BOOLEAN :
        /\ CheckedCublas(ok)
        /\ IF ok THEN Go("reference_sync") /\ UNCHANGED tally
                 ELSE ReferenceReturns(FALSE)
  BY DEF Reference
<1>2. /\ at.pc = "reference"
      /\ UNCHANGED <<cmd, held, results, best, best_results, all_ok, file,
                     exit>>
  BY DEF Reference, Running
<1>3. /\ at.pc \in VerifyCalls \cup {"problem"} /\ Phase = "verify"
      /\ at.pc \in VerifyPart \ {"verify_next"}
  BY <1>2 DEF VerifyPart, VerifyCalls, Alive, RunningInv, ControlOK
<1>4. /\ DriverTypes /\ DeviceOK /\ at \in Places /\ held \in Amounts
      /\ held["handle"] = 1
  BY <1>2, <1>3, VerifyFacts DEF HasHandle
<1>5. CallReturns(ok, FALSE)
  BY <1>1, <1>4, CublasFacts
<1>6. cuda' \in Devices /\ seen' \in Histories /\ seen'.done = seen.done
      /\ seen'.blemish = (seen.blemish \/ ~ ok) /\ DeviceOK'
  BY <1>2, <1>4, <1>5, DeviceStep DEF CallReturns, Unawaited
<1>7. CASE ok
  <2>1. at' = [at EXCEPT !.pc = "reference_sync"] /\ tally' = tally
    BY <1>1, <1>7 DEF Go
  <2>2. at' \in Places /\ SamePlace(at, at') /\ at'.pc = "reference_sync"
    BY <1>4, <2>1, GoFacts DEF Calls
  <2>3. Fresh /\ HasHandle' /\ ~ Lost /\ ~ Lost'
    BY <1>2, <2>2 DEF Fresh, HasHandle, Lost, VerifyLoop, InBench, OfConfig,
                      Launcher, Timing
  <2>4. /\ at'.pc \in VerifyPart \ {"verify_next"}
        /\ at'.pc \notin {"reference_destroy", "verify_sync",
                          "verify_compare", "handle", "problem"}
        /\ at.pc \notin VerifyLoop /\ at'.pc \notin VerifyLoop
    BY <1>2, <2>2 DEF VerifyPart, VerifyCalls, VerifyLoop
  <2>5. UNCHANGED <<cmd, report, all_ok, file, exit>>
    BY <1>2, <2>1 DEF report
  <2>6. /\ held' \in Amounts /\ held'["handle"] = IF HasHandle' THEN 1 ELSE 0
        /\ \A o \in Objects \ {"handle"} : held'[o] = held[o]
        /\ (seen.blemish => seen'.blemish) /\ (seen'.blemish => seen.blemish)
    BY <1>2, <1>4, <1>6, <1>7, <2>3
  <2> QED
    BY <1>3, <1>6, <2>2, <2>3, <2>4, <2>5, <2>6, VerifyQuiet
<1>8. CASE ~ ok
  <2>1. ReferenceReturns(FALSE) /\ seen'.blemish
    BY <1>1, <1>6, <1>8
  <2>2. CASE Single
    BY <1>2, <1>3, <1>6, <1>8, <2>1, <2>2, ReferenceSingle
  <2>3. CASE ~ Single
    BY <1>2, <1>3, <1>6, <2>1, <2>3, LostShape
  <2> QED
    BY <2>2, <2>3
<1> QED
  BY <1>7, <1>8

LEMMA ReferenceSyncStep ==
  ASSUME Alive, ReferenceSync
  PROVE  Continues
<1>1. PICK ok \in BOOLEAN : Checked(ok, TRUE) /\ ReferenceReturns(ok)
  BY DEF ReferenceSync
<1>2. /\ at.pc = "reference_sync"
      /\ UNCHANGED <<cmd, held, results, best, best_results, all_ok, file,
                     exit>>
  BY DEF ReferenceSync, Running
<1>3. /\ at.pc \in VerifyCalls \cup {"problem"} /\ Phase = "verify"
      /\ at.pc \in VerifyPart
  BY <1>2 DEF VerifyPart, VerifyCalls, VerifyLoop, Alive, RunningInv,
              ControlOK
<1>4. /\ DriverTypes /\ DeviceOK /\ DataInv /\ at \in Places
      /\ held \in Amounts /\ held["handle"] = 1
      /\ tally \in Tallies /\ best \in Bests
  BY <1>2, <1>3, VerifyFacts DEF HasHandle
<1>5. CallReturns(ok, TRUE)
  BY <1>1, <1>4, CheckedFacts
<1>6. cuda' \in Devices /\ seen' \in Histories /\ seen'.done = seen.done
      /\ seen'.blemish = (seen.blemish \/ ~ ok) /\ DeviceOK'
  BY <1>2, <1>4, <1>5, DeviceStep DEF CallReturns, Unawaited
<1>7. CASE Single
  BY <1>1, <1>2, <1>3, <1>6, <1>7, ReferenceSingle
<1>8. CASE ~ Single /\ ~ ok
  <2>1. ReferenceReturns(FALSE) /\ seen'.blemish
    BY <1>1, <1>6, <1>8
  <2> QED
    BY <1>2, <1>3, <1>6, <1>8, <2>1, LostShape
<1>9. CASE ~ Single /\ ok
  <2>1. /\ at' = [at EXCEPT !.pc = "verify_config", !.i = 1]
        /\ tally' = tally
    BY <1>1, <1>9 DEF ReferenceReturns
  <2>2. /\ at' \in Places /\ at'.pc = "verify_config" /\ at'.i = 1
        /\ at'.phase = at.phase /\ at'.s = at.s
    <3> DEFINE c == [at EXCEPT !.pc = "verify_config"]
    <3>1. c \in Places
      BY <1>4, PlaceTypes DEF Calls
    <3>2. [c EXCEPT !.i = 1] \in Places
      <4>1. 1 \in 1 .. kGemmConfigCount + 1
        BY ConstantFacts
      <4> HIDE DEF c
      <4> QED
        BY <3>1, <4>1, PlaceTypes
    <3>3. at' = [c EXCEPT !.i = 1]
      BY <2>1
    <3> QED
      BY <1>4, <3>2, <3>3 DEF Places
  <2>3. Phase' = Phase /\ Finished(Phase)' = Finished(Phase) /\ RecordsOf'
        /\ (Single' <=> Single)
    BY <1>2, <1>4, <1>6, <2>2, SameFinished, SameRecordsOf
    DEF DataInv, RecordsOK, Single
  <2>4. /\ Fresh /\ ~ Fresh' /\ HasHandle' /\ ~ Lost
        /\ Behind' = 0
    BY <1>2, <1>3, <1>9, <2>2, <2>3
    DEF Fresh, HasHandle, Lost, VerifyLoop, InBench, OfConfig, OfCublas,
        Launcher, Timing, Behind
  <2>5. tally' = NoTally /\ Finished(Phase)' = {}
    BY <1>4, <2>1, <2>3, <2>4 DEF DataInv, FreshOK, RecordsOK
  <2>6. ~ Lost'
    BY <2>2, <2>5 DEF Lost, VerifyLoop, InBench, OfConfig, Launcher, Timing,
                      NoTally
  <2>7. FreshOK' /\ SummaryOK'
    BY <2>2, <2>4 DEF FreshOK, SummaryOK
  <2>8. CountsOK'
    <3>1. CountsFit(tally', Finished(Phase)', Served(at.s)', 0)
      BY <2>5, CountStart
    <3>2. tally'.passed + tally'.failed + tally'.skipped = 0 /\ tally'.ok
      BY <2>5 DEF NoTally
    <3> QED
      BY <2>2, <2>4, <3>1, <3>2 DEF CountsOK, VerifyLoop, CountsFit
  <2>9. /\ at'.pc \in VerifyPart
        /\ at'.pc \notin {"reference_destroy", "verify_next", "verify_sync",
                          "verify_compare", "handle", "problem"}
    BY <2>2 DEF VerifyPart, VerifyCalls, VerifyLoop
  <2>10. /\ held' \in Amounts /\ held'["handle"] = IF HasHandle' THEN 1 ELSE 0
         /\ \A o \in Objects \ {"handle"} : held'[o] = held[o]
         /\ (seen.blemish => seen'.blemish) /\ (seen'.blemish => seen.blemish)
         /\ tally' \in Tallies /\ best' \in Bests
         /\ seen.done \subseteq seen'.done
         /\ UNCHANGED <<cmd, best_results, all_ok, file, exit>>
    BY <1>2, <1>4, <1>6, <1>9, <2>1, <2>4
  <2> QED
    BY <1>3, <1>6, <1>9, <2>2, <2>3, <2>4, <2>6, <2>7, <2>8, <2>9, <2>10,
       VerifyContinues
<1> QED
  BY <1>7, <1>8, <1>9

LEMMA ReferenceDestroyStep ==
  ASSUME Alive, ReferenceDestroy
  PROVE  Continues \/ Finishes
<1>1. PICK ok \in BOOLEAN :
        /\ CheckedCublas(ok)
        /\ IF at.ok /\ ok
           THEN Go("verify_config") /\ UNCHANGED <<exit, all_ok>>
           ELSE Ended(FALSE)
  BY DEF ReferenceDestroy
<1>2. /\ at.pc = "reference_destroy" /\ held' = Destroyed({"handle"})
      /\ UNCHANGED <<cmd, report, file>>
  BY DEF ReferenceDestroy, Running
<1>3. /\ at.pc \in VerifyCalls \cup {"problem"}
      /\ at.pc \in VerifyPart \ {"verify_next"}
      /\ Phase = "verify" /\ Single
  BY <1>2 DEF VerifyPart, VerifyCalls, Alive, RunningInv, ControlOK
<1>4. /\ DriverTypes /\ DeviceOK /\ DataInv /\ FailuresOK /\ at \in Places
      /\ held \in [Objects -> 0 .. 1] /\ file.state = "old"
      /\ tally \in Tallies /\ best \in Bests /\ held["handle"] = 1
      /\ \A o \in Objects \ {"handle"} : held[o] = 0
  BY <1>2, <1>3, VerifyFacts DEF HasHandle
<1>5. CallReturns(ok, FALSE)
  BY <1>1, <1>4, CublasFacts
<1>6. cuda' \in Devices /\ seen' \in Histories /\ seen'.done = seen.done
      /\ seen'.blemish = (seen.blemish \/ ~ ok) /\ DeviceOK'
  BY <1>2, <1>4, <1>5, DeviceStep DEF CallReturns, Unawaited
<1>7. held' \in Amounts /\ \A o \in Objects : held'[o] = 0
  BY <1>2, <1>4, ObjectFacts
<1>8. Fresh /\ (Lost <=> ~ at.ok)
  BY <1>2 DEF Fresh, Lost, VerifyLoop, InBench, OfConfig, Launcher, Timing
<1>9. CASE at.ok /\ ok
  <2>1. at' = [at EXCEPT !.pc = "verify_config"] /\ UNCHANGED <<exit, all_ok>>
    BY <1>1, <1>9 DEF Go
  <2>2. at' \in Places /\ SamePlace(at, at') /\ at'.pc = "verify_config"
    BY <1>4, <2>1, GoFacts DEF Calls
  <2>3. Single' /\ ~ HasHandle' /\ ~ Lost'
    BY <1>2, <1>3, <2>2
    DEF HasHandle, Lost, VerifyLoop, InBench, OfConfig, Launcher, Timing,
        Single
  <2>4. /\ at'.pc \in VerifyPart \ {"verify_next"}
        /\ at'.pc \notin {"reference_destroy", "verify_sync",
                          "verify_compare", "handle", "problem"}
    BY <2>2 DEF VerifyPart, VerifyCalls, VerifyLoop
  <2>5. /\ held'["handle"] = IF HasHandle' THEN 1 ELSE 0
        /\ \A o \in Objects \ {"handle"} : held'[o] = held[o]
        /\ (seen.blemish => seen'.blemish) /\ (seen'.blemish => seen.blemish)
    BY <1>4, <1>6, <1>7, <1>9, <2>3 DEF Objects
  <2>6. UNCHANGED <<cmd, report, all_ok, file, exit>> /\ ~ Lost
    BY <1>2, <1>8, <1>9, <2>1
  <2> QED
    BY <1>3, <1>6, <1>7, <1>8, <2>2, <2>3, <2>4, <2>5, <2>6, VerifyQuiet
<1>10. CASE ~ (at.ok /\ ok)
  <2>1. Ended(FALSE)
    BY <1>1, <1>10
  <2>2. seen'.blemish
    BY <1>4, <1>6, <1>8, <1>10 DEF FailuresOK
  <2>3. PhaseResults(FALSE)
    BY <2>2 DEF PhaseResults
  <2>4. /\ tally' = NoTally /\ results' = << >> /\ best' = NoBest
        /\ tally' \in Tallies /\ best' \in Bests
        /\ UNCHANGED <<cmd, best_results, file>>
    BY <1>2, <1>4, <1>8 DEF DataInv, FreshOK, report
  <2> QED
    BY <1>2, <1>3, <1>4, <1>6, <1>7, <2>1, <2>2, <2>3, <2>4, EndedStep
<1> QED
  BY <1>9, <1>10

\* A configuration is verified, or has failed.
LEMMA VerifiedStep ==
  ASSUME Alive, Phase = "verify", at.pc \in VerifyLoop,
         at.i <= kGemmConfigCount, Single \/ Supported,
         NEW passed \in BOOLEAN, Verified(passed),
         UNCHANGED <<cmd, held, results, best, best_results, file>>,
         cuda' \in Devices, DeviceOK', ~ seen'.blemish => cuda'.ctx = "live",
         seen' \in Histories,
         seen'.blemish = (seen.blemish \/ ~ passed),
         seen'.done = IF passed THEN seen.done \cup {<<Phase, at.s, at.i>>}
                                ELSE seen.done
  PROVE  Continues \/ Finishes
<1>1. /\ at.pc \in VerifyCalls \cup {"problem"} /\ at.pc \in VerifyPart
      /\ at.pc # "main"
  BY DEF VerifyPart, VerifyCalls, VerifyLoop
<1>2. /\ DriverTypes /\ DataInv /\ FailuresOK /\ at \in Places /\ ControlOK
      /\ tally \in Tallies /\ best \in Bests /\ all_ok \in BOOLEAN
      /\ held \in Amounts /\ file.state = "old" /\ cmd.mode # "usage"
      /\ held["handle"] = IF HasHandle THEN 1 ELSE 0
      /\ \A o \in Objects \ {"handle"} : held[o] = 0
      /\ Single => at.s = 1 /\ Len(cmd.shapes) = 1
      /\ at.s \in 1 .. Len(cmd.shapes)
  BY <1>1, VerifyFacts
<1>3. HasHandle <=> ~ Single
  BY DEF HasHandle, VerifyLoop, Launcher, Timing
<1>4. Lost <=> ~ Single /\ tally.failed > 0
  BY DEF Lost, VerifyLoop, InBench, OfConfig, Launcher, Timing
<1>5. at.i \in Nat \ {0} /\ kGemmConfigCount \in Nat /\ at.i \in ConfigIds
  BY <1>2, ConstantFacts DEF Places, ConfigIds
<1>6. CASE Single
  <2>1. Ended(passed) /\ tally' = tally
    BY <1>6 DEF Verified
  <2>2. \A o \in Objects : held'[o] = 0
    BY <1>2, <1>3, <1>6 DEF Objects
  <2>3. PhaseResults(passed)
    <3>1. all_ok /\ passed => ~ seen'.blemish
      BY <1>2, <1>4, <1>6 DEF FailuresOK
    <3>2. ~ (all_ok /\ passed) => seen'.blemish \/ NothingToRank
      BY <1>2 DEF FailuresOK
    <3>3. passed => <<Phase, 1, at.i>> \in seen'.done
      BY <1>2, <1>6
    <3>4. \A k \in 1 .. Len(cmd.shapes) : k = 1
      <4>1. Len(cmd.shapes) = 1
        BY <1>2, <1>6
      <4> QED
        BY <4>1
    <3>5. all_ok /\ passed =>
            \A k \in 1 .. Len(cmd.shapes) : \A c \in ConfigIds :
              Supports(c, k) /\ (Single => c = at.i) =>
                <<Phase, k, c>> \in seen'.done
      BY <1>6, <3>3, <3>4
    <3> QED
      BY <3>1, <3>2, <3>5 DEF PhaseResults
  <2>4. /\ tally' = NoTally /\ results' = << >> /\ best' = NoBest
        /\ tally' \in Tallies /\ best' \in Bests /\ held' \in Amounts
    BY <1>2, <1>6, <2>1 DEF DataInv, FreshOK, Fresh
  <2>5. \/ seen'.done = seen.done
        \/ /\ seen'.done = seen.done \cup {<<Phase, at.s, at.i>>}
           /\ at.i <= kGemmConfigCount
    OBVIOUS
  <2> QED
    BY <1>1, <1>2, <2>1, <2>2, <2>3, <2>4, <2>5, EndedStep
<1>7. CASE ~ Single
  <2>1. /\ at' = [at EXCEPT !.pc = "verify_config", !.i = @ + 1]
        /\ tally' = IF passed THEN [tally EXCEPT !.passed = @ + 1]
                              ELSE [tally EXCEPT !.failed = @ + 1]
        /\ UNCHANGED <<exit, all_ok>>
    BY <1>7 DEF Verified
  <2>2. /\ at' \in Places /\ at'.pc = "verify_config" /\ at'.i = at.i + 1
        /\ at'.phase = at.phase /\ at'.s = at.s
    <3> DEFINE c == [at EXCEPT !.pc = "verify_config"]
               j == at.i + 1
    <3>1. c \in Places
      BY <1>2, PlaceTypes DEF Calls
    <3>2. j \in 1 .. kGemmConfigCount + 1
      BY <1>5
    <3>3. [c EXCEPT !.i = j] \in Places
      <4> HIDE DEF c, j
      <4> QED
        BY <3>1, <3>2, PlaceTypes
    <3>4. at' = [c EXCEPT !.i = j]
      BY <2>1
    <3> QED
      BY <1>2, <3>3, <3>4 DEF Places
  <2>3. /\ CountsFit(tally, Finished(Phase), Served(at.s), at.i - 1)
        /\ tally.passed + tally.failed + tally.skipped = at.i - 1
        /\ tally.ok
    BY <1>2, <1>7 DEF DataInv, CountsOK, Counting, Behind
  <2>4. /\ tally' \in Tallies /\ tally'.skipped = tally.skipped
        /\ tally'.ok = tally.ok
        /\ tally'.passed = IF passed THEN tally.passed + 1 ELSE tally.passed
        /\ tally'.failed = IF passed THEN tally.failed ELSE tally.failed + 1
    <3>1. CASE passed
      BY <1>2, <2>1, <3>1 DEF Tallies
    <3>2. CASE ~ passed
      <4>1. tally.failed + 1 \in 0 .. kGemmConfigCount
        BY <1>2, <1>5, <2>3 DEF Tallies
      <4> QED
        BY <1>2, <2>1, <3>2, <4>1 DEF Tallies
    <3> QED
      BY <3>1, <3>2
  <2>5. /\ Phase' = Phase /\ (Single' <=> Single)
        /\ Served(at.s)' = Served(at.s)
        /\ Finished(Phase)' = IF passed THEN Finished(Phase) \cup {at.i}
                                        ELSE Finished(Phase)
    <3>1. /\ Phase' = Phase /\ (Single' <=> Single)
          /\ Served(at.s)' = Served(at.s)
      BY <2>2 DEF Phase, Single, Served, Supports, ConfigIds
    <3>2. Finished(Phase)' =
            {c \in ConfigIds : <<Phase, at.s, c>> \in seen'.done}
      BY <2>2, <3>1 DEF Finished, ConfigIds
    <3>3. Finished(Phase) = {c \in ConfigIds : <<Phase, at.s, c>> \in seen.done}
      BY DEF Finished
    <3> QED
      BY <1>5, <3>1, <3>2, <3>3
  <2>6. /\ ~ Fresh' /\ HasHandle' /\ Behind' = at.i
        /\ (Lost' <=> tally'.failed > 0)
    BY <1>5, <1>7, <2>2, <2>5
    DEF Fresh, HasHandle, Lost, VerifyLoop, InBench, OfConfig, OfCublas,
        Launcher, Timing, Behind
  <2>7. CountsOK'
    <3> DEFINE b == at.i - 1
    <3>1. b \in Nat /\ b + 1 = at.i /\ at.i \in Served(at.s)
      BY <1>5, <1>7 DEF Served, Supports, Supported
    <3>2. CountsFit(tally', Finished(Phase)', Served(at.s), b + 1)
      <4> HIDE DEF b
      <4>1. CASE passed
        BY <1>2, <2>3, <2>4, <2>5, <3>1, <4>1, CountPassed DEF b
      <4>2. CASE ~ passed
        BY <1>2, <2>3, <2>4, <2>5, <3>1, <4>2, CountNotPassed DEF b
      <4> QED
        BY <4>1, <4>2
    <3>3. tally'.passed + tally'.failed + tally'.skipped = at.i /\ tally'.ok
      BY <1>2, <1>5, <2>3, <2>4 DEF Tallies
    <3>4. Behind' = b + 1
      BY <2>6, <3>1
    <3> QED
      BY <2>2, <2>5, <2>6, <3>2, <3>3, <3>4 DEF CountsOK, VerifyLoop
  <2>8. RecordsOf'
    <3>1. RecordsOf
      BY <1>2 DEF DataInv, RecordsOK
    <3>2. CASE passed
      BY <1>2, <2>2, <3>1, <3>2, RecordAdded
    <3>3. CASE ~ passed
      BY <2>2, <3>1, <3>3, SameRecordsOf
    <3> QED
      BY <3>2, <3>3
  <2>9. /\ seen.blemish => seen'.blemish
        /\ seen'.blemish => seen.blemish \/ Lost'
        /\ Lost => Lost'
        /\ Lost' => seen'.blemish
    <3>1. tally.failed \in Nat /\ tally'.failed \in Nat
      BY <1>2, <2>4 DEF Tallies
    <3>2. Lost => seen.blemish
      BY <1>2 DEF FailuresOK
    <3>3. CASE passed
      <4>1. tally'.failed = tally.failed /\ seen'.blemish = seen.blemish
        BY <1>2, <2>4, <3>3 DEF DriverTypes, Histories
      <4> QED
        BY <1>4, <1>7, <2>6, <3>2, <4>1
    <3>4. CASE ~ passed
      <4>1. tally'.failed = tally.failed + 1
        BY <2>4, <3>4
      <4>2. tally'.failed > 0
        BY <3>1, <4>1
      <4>3. seen'.blemish
        BY <3>4
      <4> QED
        BY <2>6, <4>2, <4>3
    <3> QED
      BY <3>3, <3>4
  <2>10. /\ FreshOK' /\ SummaryOK' /\ seen.done \subseteq seen'.done
         /\ at'.pc \in VerifyPart /\ best' \in Bests /\ held' \in Amounts
         /\ at'.pc \notin {"reference_destroy", "verify_next", "verify_sync",
                           "verify_compare", "handle", "problem"}
    BY <1>2, <2>2, <2>6 DEF FreshOK, SummaryOK, VerifyPart, VerifyCalls,
                            VerifyLoop
  <2>11. /\ held'["handle"] = IF HasHandle' THEN 1 ELSE 0
         /\ \A o \in Objects \ {"handle"} : held'[o] = held[o]
         /\ UNCHANGED <<cmd, best_results, all_ok, file, exit>>
    BY <1>2, <1>3, <1>7, <2>1, <2>6
  <2>12. Continues
    BY <1>1, <1>7, <2>2, <2>4, <2>6, <2>7, <2>8, <2>9, <2>10, <2>11,
       VerifyContinues
  <2> QED
    BY <2>12
<1> QED
  BY <1>6, <1>7

\* From one call on a configuration to the next one.
LEMMA VerifyOnward ==
  ASSUME Alive, Phase = "verify", at.pc \in VerifyLoop,
         at.i <= kGemmConfigCount, Single \/ Supported,
         NEW p \in {"verify_sync", "verify_compare"}, Go(p),
         UNCHANGED <<cmd, held, report, all_ok, file, exit>>,
         cuda' \in Devices, DeviceOK', seen' \in Histories,
         seen'.done = seen.done, seen'.blemish = seen.blemish
  PROVE  Continues
<1>1. /\ at.pc \in VerifyCalls \cup {"problem"}
      /\ at.pc \in VerifyPart \ {"verify_next"}
  BY DEF VerifyPart, VerifyCalls, VerifyLoop
<1>2. /\ at \in Places /\ held \in Amounts
      /\ held["handle"] = IF HasHandle THEN 1 ELSE 0
  BY <1>1, VerifyFacts
<1>3. at' \in Places /\ SamePlace(at, at') /\ at'.pc = p
  BY <1>2, GoFacts DEF Go, Calls
<1>4. Phase' = Phase /\ (Single' <=> Single)
  BY <1>3 DEF Phase, Single, SamePlace
<1>5. at'.pc \in VerifyLoop
  BY <1>3 DEF VerifyLoop
<1>6. (HasHandle' <=> HasHandle) /\ (Fresh' <=> Fresh) /\ (Lost' <=> Lost)
  <2>1. tally' = tally
    BY DEF report
  <2> QED
    BY <1>4, <1>5, <2>1
    DEF HasHandle, Fresh, Lost, VerifyLoop, InBench, OfConfig, OfCublas,
        Launcher, Timing
<1>7. /\ at'.pc \in VerifyPart \ {"verify_next"}
      /\ at'.pc \notin {"reference_destroy", "handle", "problem"}
  BY <1>3 DEF VerifyPart, VerifyCalls, VerifyLoop
<1>8. Lost => seen.blemish
  BY DEF Alive, RunningInv, FailuresOK
<1> QED
  BY <1>1, <1>2, <1>3, <1>5, <1>6, <1>7, <1>8, VerifyQuiet

LEMMA VerifyLaunchStep ==
  ASSUME Alive, VerifyLaunch
  PROVE  Continues \/ Finishes
<1>1. PICK ok \in BOOLEAN :
        /\ Launch(ok)
        /\ IF ok THEN Go("verify_sync") /\ UNCHANGED <<tally, exit, all_ok>>
                 ELSE Verified(FALSE)
  BY DEF VerifyLaunch
<1>2. /\ at.pc = "verify_config" /\ at.i <= kGemmConfigCount /\ Supported
      /\ UNCHANGED <<cmd, held, results, best, best_results, file>>
  BY DEF VerifyLaunch, Running
<1>3. DriverTypes /\ DeviceOK /\ Phase = "verify" /\ at \in Places
  BY <1>2 DEF Alive, DriverTypes, RunningInv, ControlOK, VerifyCalls,
              VerifyLoop
<1>4. LaunchReturns(ok) /\ at.pc \in VerifyLoop
  BY <1>1, <1>2, <1>3, LaunchFacts DEF VerifyLoop
<1>5. cuda' \in Devices /\ seen' \in Histories /\ seen'.done = seen.done
      /\ seen'.blemish = (seen.blemish \/ ~ ok)
  BY <1>4 DEF LaunchReturns
<1>6. CASE ok
  <2>1. Go("verify_sync") /\ UNCHANGED <<cmd, held, report, all_ok, file, exit>>
    BY <1>1, <1>2, <1>6 DEF report
  <2>2. at'.pc \in Unawaited
    BY <1>3, <2>1, GoFacts DEF Go, Calls, Unawaited
  <2>3. DeviceOK'
    BY <1>3, <1>4, <2>2, LaunchedStep
  <2>4. seen'.blemish = seen.blemish
    BY <1>3, <1>5, <1>6 DEF DriverTypes, Histories
  <2>5. Continues
    BY <1>2, <1>3, <1>4, <1>5, <2>1, <2>3, <2>4, VerifyOnward
  <2> QED
    BY <2>5
<1>7. CASE ~ ok
  <2>1. Verified(FALSE) /\ seen'.blemish /\ DeviceOK'
    BY <1>1, <1>5, <1>7 DEF DeviceOK
  <2>2. seen'.blemish = (seen.blemish \/ ~ FALSE)
    BY <1>5, <1>7
  <2> QED
    BY <1>2, <1>3, <1>4, <1>5, <2>1, <2>2, VerifiedStep
<1> QED
  BY <1>6, <1>7

LEMMA VerifySyncStep ==
  ASSUME Alive, VerifySync
  PROVE  Continues \/ Finishes
<1>1. PICK ok \in BOOLEAN :
        /\ Checked(ok, TRUE)
        /\ IF ok THEN Go("verify_compare") /\ UNCHANGED <<tally, exit, all_ok>>
                 ELSE Verified(FALSE)
  BY DEF VerifySync
<1>2. /\ at.pc = "verify_sync"
      /\ UNCHANGED <<cmd, held, results, best, best_results, file>>
  BY DEF VerifySync, Running
<1>3. /\ DriverTypes /\ DeviceOK /\ Phase = "verify" /\ at \in Places
      /\ at.i <= kGemmConfigCount /\ (Single \/ Supported)
  BY <1>2 DEF Alive, DriverTypes, RunningInv, ControlOK, VerifyCalls,
              VerifyLoop
<1>4. CallReturns(ok, TRUE) /\ at.pc \in VerifyLoop
  BY <1>1, <1>2, <1>3, CheckedFacts DEF VerifyLoop
<1>5. cuda' \in Devices /\ seen' \in Histories /\ seen'.done = seen.done
      /\ seen'.blemish = (seen.blemish \/ ~ ok) /\ DeviceOK'
  BY <1>3, <1>4, DeviceStep DEF CallReturns
<1>6. CASE ok
  <2>1. /\ Go("verify_compare")
        /\ UNCHANGED <<cmd, held, report, all_ok, file, exit>>
    BY <1>1, <1>2, <1>6 DEF report
  <2>2. seen'.blemish = seen.blemish
    BY <1>3, <1>5, <1>6 DEF DriverTypes, Histories
  <2>3. Continues
    BY <1>3, <1>4, <1>5, <2>1, <2>2, VerifyOnward
  <2> QED
    BY <2>3
<1>7. CASE ~ ok
  <2>1. Verified(FALSE) /\ seen'.blemish
    BY <1>1, <1>5, <1>7
  <2>2. seen'.blemish = (seen.blemish \/ ~ FALSE)
    BY <1>5, <1>7
  <2> QED
    BY <1>2, <1>3, <1>4, <1>5, <2>1, <2>2, VerifiedStep
<1> QED
  BY <1>6, <1>7

LEMMA VerifyCompareStep ==
  ASSUME Alive, VerifyCompare
  PROVE  Continues \/ Finishes
<1>1. PICK output \in SUBSET Differences \ {{}} :
        /\ Verified(verify_result(output))
        /\ seen' = [seen EXCEPT
             !.blemish = @ \/ "far" \in output,
             !.done = IF verify_result(output)
                      THEN @ \cup {<<"verify", at.s, at.i>>} ELSE @,
             !.accepted = IF verify_result(output) THEN @ \cup output ELSE @]
  BY DEF VerifyCompare
<1>2. /\ at.pc = "verify_compare" /\ cuda.ctx = "live"
      /\ UNCHANGED <<cmd, cuda, held, results, best, best_results, file>>
  BY DEF VerifyCompare, Running
<1>3. /\ DriverTypes /\ DeviceOK /\ Phase = "verify" /\ at \in Places
      /\ at.i <= kGemmConfigCount /\ (Single \/ Supported)
      /\ seen \in Histories /\ cuda \in Devices
  BY <1>2 DEF Alive, DriverTypes, RunningInv, ControlOK, VerifyCalls,
              VerifyLoop
<1> DEFINE passed == verify_result(output)
<1>4. passed \in BOOLEAN /\ (passed <=> "far" \notin output)
  BY DEF verify_result, Mismatch
<1>5. <<"verify", at.s, at.i>> \in {"verify", "benchmark", "profile"}
                                     \X Nat \X Nat
  <2>1. at.s \in Nat /\ at.i \in Nat
    BY <1>3, CommandFacts, ConstantFacts DEF Places, DriverTypes
  <2> QED
    BY <2>1
<1>6. /\ seen' \in Histories
      /\ seen'.blemish = (seen.blemish \/ ~ passed)
      /\ seen'.done = IF passed THEN seen.done \cup {<<Phase, at.s, at.i>>}
                                ELSE seen.done
  <2>1. CASE passed
    BY <1>1, <1>3, <1>4, <1>5, <2>1 DEF Histories
  <2>2. CASE ~ passed
    BY <1>1, <1>3, <1>4, <2>2 DEF Histories
  <2> QED
    BY <1>4, <2>1, <2>2
<1>7. Verified(passed) /\ at.pc \in VerifyLoop
  BY <1>1, <1>2 DEF VerifyLoop
<1>8. /\ cuda' \in Devices /\ cuda'.ctx = "live" /\ DeviceOK'
  BY <1>2, <1>3 DEF DeviceOK
<1> HIDE DEF passed
<1> QED
  BY <1>2, <1>3, <1>4, <1>6, <1>7, <1>8, VerifiedStep

LEMMA VerifySummaryStep ==
  ASSUME Alive, VerifySummary
  PROVE  Continues
<1>1. /\ at.pc = "verify_config" /\ at.i > kGemmConfigCount
      /\ Go("verify_next") /\ tally' = [tally EXCEPT !.failed = TotalFailed]
      /\ UNCHANGED <<cmd, cuda, held, results, best, best_results, all_ok,
                     file, exit, seen>>
  BY DEF VerifySummary, Running
<1>2. /\ at.pc \in VerifyCalls \cup {"problem"} /\ at.pc \in VerifyPart
      /\ at.pc \in VerifyLoop /\ Phase = "verify"
  BY <1>1 DEF VerifyPart, VerifyCalls, VerifyLoop, Alive, RunningInv,
              ControlOK
<1>3. /\ DriverTypes /\ DataInv /\ DeviceOK /\ FailuresOK /\ at \in Places
      /\ held \in Amounts /\ tally \in Tallies /\ best \in Bests
      /\ cuda \in Devices /\ seen \in Histories
      /\ held["handle"] = IF HasHandle THEN 1 ELSE 0
      /\ Single => at.i <= kGemmConfigCount
      /\ kGemmConfigCount \in Nat /\ at.i \in Nat
      /\ at.i <= kGemmConfigCount + 1
  BY <1>2, VerifyFacts, ConstantFacts DEF Places
<1>4. ~ Single /\ at.i - 1 = kGemmConfigCount
  BY <1>1, <1>3
<1>5. at' \in Places /\ SamePlace(at, at') /\ at'.pc = "verify_next"
  BY <1>1, <1>3, GoFacts DEF Go, Calls
<1>6. /\ CountsFit(tally, Finished(Phase), Served(at.s), kGemmConfigCount)
      /\ tally.passed + tally.failed + tally.skipped = kGemmConfigCount
      /\ tally.ok
  BY <1>2, <1>3, <1>4 DEF DataInv, CountsOK, Counting, Behind
<1>7. tally' = tally
  <2>1. TotalFailed = tally.failed
    BY <1>3, <1>6 DEF TotalFailed, Tallies
  <2> QED
    BY <1>1, <1>3, <2>1 DEF Tallies
<1>8. /\ Phase' = Phase /\ (Single' <=> Single)
      /\ Served(at.s)' = Served(at.s) /\ Finished(Phase)' = Finished(Phase)
  BY <1>1, <1>5
  DEF Phase, Single, Served, Supports, Finished, SamePlace, ConfigIds
<1>9. /\ HasHandle /\ HasHandle' /\ ~ Fresh' /\ ~ Counting'
  BY <1>2, <1>4, <1>5, <1>8
  DEF HasHandle, Fresh, Counting, VerifyLoop, InBench, OfConfig, OfCublas,
      Launcher, Timing
<1>10. Lost' <=> Lost
  <2>1. Lost <=> tally.failed > 0
    BY <1>2, <1>4 DEF Lost, VerifyLoop, InBench, OfConfig, Launcher, Timing
  <2>2. Lost' <=> tally.failed # 0
    BY <1>5, <1>6, <1>7 DEF Lost, VerifyLoop, InBench, OfConfig, Launcher,
                            Timing
  <2> QED
    BY <1>3, <2>1, <2>2 DEF Tallies
<1>11. SummaryOK'
  <2>1. /\ tally.passed = Cardinality(Finished(Phase))
        /\ tally.skipped = Cardinality((1 .. kGemmConfigCount) \ Served(at.s))
        /\ tally.passed + tally.skipped = kGemmConfigCount =>
             (1 .. kGemmConfigCount) \cap Served(at.s) \subseteq Finished(Phase)
    BY <1>6 DEF CountsFit
  <2>2. Unsupported' = (1 .. kGemmConfigCount) \ Served(at.s)
    BY <1>1, <1>5 DEF Unsupported, Served, Supports, ConfigIds, SamePlace
  <2>3. CountersAddUp'
    BY <1>6, <1>7, <1>8, <2>1, <2>2 DEF CountersAddUp
  <2>4. tally.failed = 0 => tally.passed + tally.skipped = kGemmConfigCount
    BY <1>3, <1>6 DEF Tallies
  <2>5. tally'.failed = 0 => Served(at.s)' \subseteq Finished(Phase)'
    BY <1>7, <1>8, <2>1, <2>4 DEF Served, ConfigIds
  <2> QED
    BY <2>3, <2>5 DEF SummaryOK
<1>12. DeviceOK'
  BY <1>1, <1>2, <1>3 DEF DeviceOK, VerifyLoop, Unawaited
<1>13. /\ FreshOK' /\ CountsOK' /\ RecordsOf' /\ at'.pc \in VerifyPart
  BY <1>1, <1>3, <1>5, <1>9, SameRecordsOf
  DEF FreshOK, CountsOK, DataInv, RecordsOK, VerifyPart, VerifyCalls,
      SamePlace
<1>14. (Lost => seen.blemish) /\ at'.phase = at.phase /\ at'.s = at.s
       /\ at'.i = at.i
  BY <1>3, <1>5 DEF FailuresOK, SamePlace
<1> QED
  BY <1>1, <1>2, <1>3, <1>4, <1>5, <1>7, <1>8, <1>9, <1>10, <1>11, <1>12,
     <1>13, <1>14, VerifyContinues

LEMMA ProblemStep ==
  ASSUME Alive, Problem
  PROVE  Continues
<1> DEFINE p == CASE Phase # "verify" -> "stream"
                  [] Phase = "verify" /\ Single -> "handle"
                  [] OTHER -> "reference"
<1>1. /\ at.pc = "problem" /\ cuda.ctx = "live" /\ cuda' = cuda
      /\ at' = [at EXCEPT !.pc = p]
      /\ tally' = NoTally /\ results' = << >> /\ best' = NoBest
      /\ UNCHANGED <<cmd, held, best_results, all_ok, file, exit, seen>>
  BY DEF Problem, Running, Succeeds, Go
<1>2. /\ p \in Calls
      /\ p = IF Phase # "verify" THEN "stream"
             ELSE IF Single THEN "handle" ELSE "reference"
  BY DEF Calls
<1> HIDE DEF p
<1>3. /\ DriverTypes /\ Ordered /\ at \in Places /\ ControlOK /\ DataInv
      /\ FailuresOK /\ HeldOK /\ cuda \in Devices /\ seen \in Histories
      /\ held \in [Objects -> 0 .. 1] /\ all_ok \in BOOLEAN
      /\ exit = "running" /\ cmd.mode # "usage"
  BY <1>1 DEF Alive, DriverTypes, RunningInv, ControlOK
<1>4. at' \in Places /\ SamePlace(at, at') /\ at'.pc = p
  BY <1>1, <1>2, <1>3, GoFacts
<1>5. /\ at'.phase = at.phase /\ at'.s = at.s /\ at'.i = at.i
      /\ Phase' = Phase /\ (Single' <=> Single)
      /\ Finished(Phase)' = Finished(Phase) /\ RecordsOf'
  BY <1>1, <1>3, <1>4, SameFinished, SameRecordsOf
  DEF SamePlace, Single, DataInv, RecordsOK
<1>6. tally' \in Tallies /\ best' \in Bests
  BY <1>1, ConstantFacts DEF NoTally, NoBest, Tallies, Bests
<1>7. Finished(Phase)' = {}
  BY <1>1, <1>3, <1>5 DEF DataInv, RecordsOK
<1>8. ~ Lost /\ ~ Lost' /\ ~ Counting'
  BY <1>1, <1>2, <1>4 DEF Lost, Counting, VerifyLoop, InBench, OfConfig,
                          Launcher, Timing
<1>9. FreshOK' /\ CountsOK' /\ SummaryOK'
  BY <1>1, <1>2, <1>4, <1>8 DEF FreshOK, CountsOK, SummaryOK
<1>10. DeviceOK' /\ held \in Amounts
  BY <1>1, <1>3 DEF DeviceOK, Amounts
<1>11. CASE Phase = "verify"
  <2>1. /\ at.pc \in VerifyCalls \cup {"problem"} /\ at.pc \in VerifyPart
        /\ at'.pc \in VerifyPart
        /\ at'.pc \notin {"reference_destroy", "verify_next", "verify_sync",
                          "verify_compare"}
    BY <1>1, <1>2, <1>4, <1>11 DEF VerifyPart, VerifyCalls, VerifyLoop
  <2>2. HasHandle' <=> HasHandle
    BY <1>1, <1>2, <1>4, <1>5, <1>11
    DEF HasHandle, VerifyLoop, Launcher, Timing
  <2>3. held["handle"] = IF HasHandle THEN 1 ELSE 0
    BY <2>1, <1>11, VerifyFacts
  <2> QED
    BY <1>1, <1>3, <1>4, <1>5, <1>6, <1>7, <1>8, <1>9, <1>10, <1>11, <2>1,
       <2>2, <2>3, VerifyContinues
<1>12. CASE Phase # "verify"
  <2>1. /\ at'.pc = "stream" /\ Phase \in {"benchmark", "profile"}
        /\ Single => at.i <= kGemmConfigCount
        /\ at.phase <= Len(Phases(cmd.mode))
    BY <1>1, <1>2, <1>3, <1>4, <1>12, PhaseOf DEF ControlOK
  <2>2. HeldOK'
    <3>1. /\ ~ HasHandle /\ ~ HasStream /\ ~ HasStart /\ ~ HasStop
          /\ ~ HasHandle' /\ ~ HasStream' /\ ~ HasStart' /\ ~ HasStop'
      BY <1>1, <1>12, <2>1
      DEF HasHandle, HasStream, HasStart, HasStop, VerifyLoop, Launcher,
          Timing, ProfileCalls
    <3> QED
      BY <1>1, <1>3, <3>1 DEF HeldOK
  <2>3. ~ OfConfig' /\ ~ OfCublas' /\ ~ InBench'
    BY <2>1 DEF OfConfig, OfCublas, InBench, Launcher, Timing
  <2>4. ControlOK'
    <3>1. at'.phase <= Len(Phases(cmd.mode)') /\ cmd'.mode # "usage"
          /\ (Single' => at'.i <= kGemmConfigCount)
      BY <1>1, <1>3, <1>5, <2>1
    <3> QED
      BY <1>5, <2>1, <2>3, <3>1
      DEF ControlOK, VerifyCalls, VerifyLoop, BenchCalls, ProfileCalls,
          FileCalls, Launcher, Timing
  <2>5. FailuresOK'
    BY <1>1, <1>3, <1>5, <1>8, SameFailures
  <2>6. SingleOK' /\ RankingOK'
    BY <2>1, <2>3 DEF SingleOK, RankingOK
  <2>7. RecordsOK'
    BY <1>5, <1>7 DEF RecordsOK
  <2>8. DoneOK' /\ LinesOK'
    BY <1>1, <1>3, <1>4, <1>5, <2>1, SameProgress
  <2>9. DriverTypes' /\ Ordered'
    BY <1>1, <1>3, <1>4, <1>6, <1>10, <2>2, TypesStep
  <2> QED
    BY <1>1, <1>3, <1>9, <1>10, <2>2, <2>4, <2>5, <2>6, <2>7, <2>8, <2>9
    DEF Continues, RunningInv, DataInv
<1> QED
  BY <1>11, <1>12

LEMMA VerifyNextStep ==
  ASSUME Alive, VerifyNext
  PROVE  Continues
<1>1. /\ at.pc = "verify_next"
      /\ all_ok' = (all_ok /\ tally.ok /\ tally.failed = 0)
      /\ at' = IF at.s < Len(cmd.shapes)
               THEN [at EXCEPT !.pc = "problem", !.s = @ + 1]
               ELSE [at EXCEPT !.pc = "verify_destroy"]
      /\ UNCHANGED <<cmd, cuda, held, tally, results, best, best_results,
                     file, exit, seen>>
  BY DEF VerifyNext, Running, report
<1>2. at.pc \in VerifyCalls \cup {"problem"} /\ Phase = "verify" /\ ~ Single
  BY <1>1 DEF VerifyCalls, Alive, RunningInv, ControlOK
<1>3. /\ DriverTypes /\ Ordered /\ at \in Places /\ ControlOK /\ DataInv
      /\ FailuresOK /\ HeldOK /\ DeviceOK /\ cuda \in Devices
      /\ seen \in Histories /\ tally \in Tallies /\ best \in Bests
      /\ held \in [Objects -> 0 .. 1] /\ all_ok \in BOOLEAN
      /\ exit = "running" /\ cmd.mode # "usage" /\ file.state = "old"
      /\ at.phase <= Len(Phases(cmd.mode)) /\ at.s \in 1 .. Len(cmd.shapes)
  BY <1>2, VerifyFacts
<1>4. /\ at.phase = 1 /\ Phases(cmd.mode)[1] = Phase
      /\ Len(cmd.shapes) \in Nat \ {0} /\ at.s \in Nat
  <2>1. Len(cmd.shapes) \in Nat \ {0} /\ at.s \in Nat
    BY <1>3, PhaseOf
  <2>2. at.phase \in 1 .. 2 /\ at.phase # 2
    BY <1>2, <1>3, PhaseOf DEF Places
  <2>3. at.phase = 1
    BY <2>2
  <2> QED
    BY <2>1, <2>3 DEF Phase
<1>5. /\ at' \in Places /\ at'.phase = 1 /\ at'.i = at.i
      /\ IF at.s < Len(cmd.shapes)
         THEN at'.pc = "problem" /\ at'.s = at.s + 1
         ELSE at'.pc = "verify_destroy" /\ at'.s = at.s
  <2>1. CASE at.s < Len(cmd.shapes)
    <3> DEFINE c == [at EXCEPT !.pc = "problem"]
               s == at.s + 1
    <3>1. c \in Places
      BY <1>3, PlaceTypes DEF Calls
    <3>2. s \in 1 .. Len(cmd.shapes)
      BY <1>4, <2>1
    <3>3. [c EXCEPT !.s = s] \in Places
      <4> HIDE DEF c, s
      <4> QED
        BY <3>1, <3>2, PlaceTypes
    <3>4. at' = [c EXCEPT !.s = s]
      BY <1>1, <2>1
    <3> QED
      BY <1>3, <1>4, <2>1, <3>3, <3>4 DEF Places
  <2>2. CASE ~ (at.s < Len(cmd.shapes))
    <3>1. at' = [at EXCEPT !.pc = "verify_destroy"]
      BY <1>1, <2>2
    <3>2. at' \in Places /\ at'.pc = "verify_destroy" /\ SamePlace(at, at')
      BY <1>3, <3>1, GoFacts DEF Calls
    <3> QED
      BY <1>4, <2>2, <3>2 DEF SamePlace
  <2> QED
    BY <2>1, <2>2
<1>6. /\ Phase' = Phase /\ (Single' <=> Single)
      /\ \A x, k : Supports(x, k)' <=> Supports(x, k)
      /\ Phases(cmd.mode)' = Phases(cmd.mode)
  BY <1>1, <1>4, <1>5 DEF Phase, Single, Supports
<1>7. /\ at'.pc \in {"problem", "verify_destroy"} /\ ShapesDone' = at.s
      /\ at'.s >= at.s /\ ShapesDone = at.s - 1
      /\ at'.pc = "verify_destroy" => at.s = Len(cmd.shapes) /\ at'.s = at.s
      /\ at'.pc = "problem" => at'.s = at.s + 1
  BY <1>1, <1>3, <1>4, <1>5 DEF ShapesDone, FileCalls
<1>8. HeldOK' /\ held' \in Amounts
  <2>1. /\ HasHandle /\ ~ HasStream /\ ~ HasStart /\ ~ HasStop
        /\ HasHandle' /\ ~ HasStream' /\ ~ HasStart' /\ ~ HasStop'
    BY <1>1, <1>2, <1>6, <1>7
    DEF HasHandle, HasStream, HasStart, HasStop, VerifyLoop, Launcher,
        Timing, ProfileCalls
  <2> QED
    BY <1>1, <1>3, <2>1 DEF HeldOK, Amounts
<1>9. DeviceOK'
  BY <1>1, <1>3 DEF DeviceOK, Unawaited
<1>10. /\ ~ OfConfig' /\ ~ OfCublas' /\ ~ InBench' /\ ~ Counting'
       /\ ~ Lost' /\ ~ Fresh' /\ (Lost <=> ~ (tally.ok /\ tally.failed = 0))
  BY <1>1, <1>2, <1>6, <1>7
  DEF OfConfig, OfCublas, InBench, Counting, Lost, Fresh, Launcher, Timing,
      VerifyLoop
<1>11. ControlOK'
  BY <1>1, <1>2, <1>3, <1>4, <1>5, <1>6, <1>7, <1>10
  DEF ControlOK, VerifyCalls, VerifyLoop, BenchCalls, ProfileCalls,
      FileCalls, Launcher, Timing
<1>12. FailuresOK'
  <2>1. NothingToRank' <=> NothingToRank
    BY <1>1 DEF NothingToRank, config_supports_problem
  <2>2. seen' = seen /\ (all_ok' <=> all_ok /\ ~ Lost)
    BY <1>1, <1>10
  <2>3. Phase' # "profile"
    BY <1>2, <1>6
  <2> QED
    BY <1>3, <1>10, <2>1, <2>2, <2>3 DEF FailuresOK
<1>13. FreshOK' /\ CountsOK' /\ SummaryOK' /\ SingleOK' /\ RankingOK'
  BY <1>7, <1>10 DEF FreshOK, CountsOK, SummaryOK, SingleOK, RankingOK
<1>14. RecordsOK'
  <2>1. RecordsOf
    BY <1>3 DEF DataInv, RecordsOK
  <2>2. RecordsOf'
    <3>1. ConfigIds' = ConfigIds
      BY DEF ConfigIds
    <3> SUFFICES ASSUME NEW e \in seen.done
                 PROVE  /\ e \in {"verify", "benchmark", "profile"}
                                   \X (1 .. Len(cmd.shapes)) \X ConfigIds
                        /\ \E q \in 1 .. 1 :
                             /\ e[1] = Phases(cmd.mode)[q]
                             /\ q = 1 => e[2] <= at'.s
      BY <1>1, <1>5, <3>1 DEF RecordsOf
    <3>2. /\ e \in {"verify", "benchmark", "profile"}
                     \X (1 .. Len(cmd.shapes)) \X ConfigIds
          /\ e[1] = Phases(cmd.mode)[1] /\ e[2] <= at.s
      BY <1>4, <2>1 DEF RecordsOf
    <3>3. e[2] \in Nat /\ at'.s \in Nat
      BY <1>4, <1>5, <3>2
    <3>4. 1 \in 1 .. 1 /\ e[2] <= at'.s
      BY <1>4, <1>7, <3>2, <3>3
    <3> QED
      BY <3>2, <3>4
  <2>3. at'.pc = "problem" => Finished(Phase)' = {}
    <3> SUFFICES ASSUME at'.s = at.s + 1 PROVE Finished(Phase)' = {}
      BY <1>7
    <3>1. Finished(Phase)' = {x \in ConfigIds :
                                <<Phase, at.s + 1, x>> \in seen.done}
      BY <1>1, <1>6 DEF Finished, ConfigIds
    <3>2. \A x \in ConfigIds : <<Phase, at.s + 1, x>> \notin seen.done
      <4>1. \A e \in seen.done : e[2] <= at.s
        BY <1>4, <2>1 DEF RecordsOf
      <4>2. ~ (at.s + 1 <= at.s)
        BY <1>4
      <4> QED
        BY <4>1, <4>2
    <3> QED
      BY <3>1, <3>2
  <2> QED
    BY <1>7, <1>10, <2>2, <2>3 DEF RecordsOK
<1>15. DoneOK'
  <2>1. at'.pc \in {"verify_destroy"} \cup FileCalls =>
          at'.s = Len(cmd'.shapes)
    BY <1>1, <1>7 DEF FileCalls
  <2>2. \A q, k : Recorded(q, k)' <=> Recorded(q, k)
    BY <1>1, <1>5, <1>6 DEF Recorded, ConfigIds
  <2>3. all_ok' => \A k \in 1 .. at.s : Recorded(Phase, k)
    <3> SUFFICES ASSUME all_ok, tally.failed = 0, NEW k \in 1 .. at.s
                 PROVE  Recorded(Phase, k)
      BY <1>1
    <3>1. CASE k = at.s
      <4>1. Served(at.s) \subseteq Finished(Phase)
        BY <1>1, <1>2, <1>3 DEF DataInv, SummaryOK
      <4> QED
        BY <3>1, <4>1 DEF Served, Finished, Recorded
    <3>2. CASE k # at.s
      <4>1. k \in 1 .. at.s - 1
        BY <1>4, <3>2
      <4> QED
        BY <1>3, <1>7, <4>1 DEF DataInv, DoneOK
    <3> QED
      BY <3>1, <3>2
  <2> QED
    BY <1>5, <1>6, <1>7, <2>1, <2>2, <2>3 DEF DoneOK
<1>16. LinesOK'
  <2>1. cmd.mode # "benchmark"
    BY <1>2, <1>3, PhaseOf, PhaseFacts DEF Phase, VerifyFirst, BenchmarkOnly
  <2>2. best_results = << >> /\ DOMAIN best_results = {}
    BY <1>3, <2>1 DEF DataInv, LinesOK
  <2>3. at'.pc \notin {"write", "close"}
    BY <1>7
  <2> QED
    BY <1>1, <1>3, <2>1, <2>2, <2>3 DEF LinesOK
<1>17. DriverTypes' /\ Ordered'
  BY <1>1, <1>3, <1>5, <1>8, TypesStep
<1> QED
  BY <1>1, <1>3, <1>8, <1>9, <1>11, <1>12, <1>13, <1>14, <1>15, <1>16, <1>17
  DEF Continues, RunningInv, DataInv

LEMMA VerifyDestroyStep ==
  ASSUME Alive, VerifyDestroy
  PROVE  Continues \/ Finishes
<1>1. PICK ok \in BOOLEAN :
        /\ CheckedCublas(ok)
        /\ IF ok THEN Ended(TRUE)
                 ELSE Exit(FALSE) /\ UNCHANGED <<at, all_ok>>
  BY DEF VerifyDestroy
<1>2. /\ at.pc = "verify_destroy" /\ held' = Destroyed({"handle"})
      /\ UNCHANGED <<cmd, tally, results, best, best_results, file>>
  BY DEF VerifyDestroy, Running, report
<1>3. at.pc \in VerifyCalls \cup {"problem"} /\ Phase = "verify" /\ ~ Single
  BY <1>2 DEF VerifyCalls, Alive, RunningInv, ControlOK
<1>4. /\ DriverTypes /\ Ordered /\ at \in Places /\ DeviceOK /\ DataInv
      /\ FailuresOK /\ held \in [Objects -> 0 .. 1] /\ file.state = "old"
      /\ tally \in Tallies /\ best \in Bests /\ all_ok \in BOOLEAN
      /\ held["handle"] = 1 /\ cuda \in Devices /\ seen \in Histories
      /\ \A o \in Objects \ {"handle"} : held[o] = 0
  <2>1. HasHandle
    BY <1>2, <1>3 DEF HasHandle
  <2> QED
    BY <1>3, <2>1, VerifyFacts
<1>5. CallReturns(ok, FALSE)
  BY <1>1, <1>4, CublasFacts
<1>6. /\ cuda' \in Devices /\ seen' \in Histories /\ seen'.done = seen.done
      /\ seen'.blemish = (seen.blemish \/ ~ ok) /\ (ok => cuda' = cuda)
  BY <1>5 DEF CallReturns
<1>7. held' \in Amounts /\ \A o \in Objects : held'[o] = 0
  BY <1>2, <1>4, ObjectFacts
<1>8. CASE ok
  <2>1. Ended(TRUE) /\ (seen'.blemish <=> seen.blemish)
    BY <1>1, <1>6, <1>8
  <2>2. ~ Lost
    BY <1>2 DEF Lost, VerifyLoop, InBench, OfConfig, Launcher, Timing
  <2>3. ~ seen'.blemish => cuda'.ctx = "live"
    BY <1>2, <1>4, <1>6, <1>8, <2>1 DEF DeviceOK, Unawaited
  <2>4. PhaseResults(TRUE)
    <3>1. at.s = Len(cmd.shapes) /\ ShapesDone = at.s
      BY <1>2, <1>4 DEF DataInv, DoneOK, ShapesDone
    <3>2. all_ok => \A k \in 1 .. Len(cmd.shapes) : Recorded(Phase, k)
      BY <1>4, <3>1 DEF DataInv, DoneOK
    <3> QED
      BY <1>4, <1>6, <2>1, <2>2, <3>2 DEF PhaseResults, Recorded, FailuresOK
  <2>5. tally' \in Tallies /\ best' \in Bests /\ at.pc # "main"
    BY <1>2, <1>4
  <2> QED
    BY <1>2, <1>3, <1>4, <1>6, <1>7, <2>1, <2>3, <2>4, <2>5, EndedStep
<1>9. CASE ~ ok
  <2>1. exit' = "failure" /\ UNCHANGED <<at, all_ok>>
    BY <1>1, <1>9 DEF Exit
  <2>2. seen'.blemish
    BY <1>6, <1>9
  <2>3. Ordered' /\ EndedInv'
    BY <1>2, <1>4, <1>7, <2>1, <2>2, Ends
  <2>4. held' \in [Objects -> 0 .. 1]
    BY <1>7 DEF Amounts
  <2>5. DriverTypes'
    BY <1>2, <1>4, <1>6, <2>1, <2>4
    DEF DriverTypes, Places, Devices, Tallies, Bests, Histories, FileLines,
        Files
  <2> QED
    BY <2>1, <2>3, <2>5 DEF Finishes
<1> QED
  BY <1>8, <1>9

-----------------------------------------------------------------------------
(* A configuration that does not divide the shape, in both loops.          *)

LEMMA SkipConfigStep ==
  ASSUME Alive, SkipConfig
  PROVE  Continues
<1>1. /\ at.pc \in {"verify_config", "bench_config"}
      /\ at.i <= kGemmConfigCount /\ ~ Single /\ ~ Supported
      /\ at' = [at EXCEPT !.i = @ + 1]
      /\ tally' = [tally EXCEPT !.skipped = @ + 1]
      /\ results' = IF at.pc = "bench_config"
                    THEN Append(results, SkippedResult) ELSE results
      /\ UNCHANGED <<cmd, cuda, held, best, best_results, all_ok, file, exit,
                     seen>>
  BY DEF SkipConfig, SkippedTally
<1>2. /\ DriverTypes /\ Ordered /\ at \in Places /\ ControlOK /\ DataInv
      /\ FailuresOK /\ HeldOK /\ DeviceOK /\ cuda \in Devices
      /\ seen \in Histories /\ tally \in Tallies /\ best \in Bests
      /\ held \in [Objects -> 0 .. 1] /\ all_ok \in BOOLEAN
      /\ exit = "running" /\ held \in Amounts
  BY DEF Alive, DriverTypes, RunningInv, Amounts
<1>3. /\ at.i \in Nat \ {0} /\ kGemmConfigCount \in Nat /\ at.i \in ConfigIds
  BY <1>1, <1>2, ConstantFacts DEF Places, ConfigIds
<1>4. /\ at' \in Places /\ at'.pc = at.pc /\ at'.i = at.i + 1
      /\ at'.phase = at.phase /\ at'.s = at.s
  <2> DEFINE j == at.i + 1
  <2>1. j \in 1 .. kGemmConfigCount + 1
    BY <1>1, <1>3
  <2>2. at' = [at EXCEPT !.i = j]
    BY <1>1
  <2>3. at' \in Places
    <3> HIDE DEF j
    <3> QED
      BY <1>2, <2>1, <2>2, PlaceTypes
  <2> QED
    BY <1>1, <1>2, <2>3 DEF Places
<1>5. /\ tally' \in Tallies /\ tally'.passed = tally.passed
      /\ tally'.failed = tally.failed /\ tally'.ok = tally.ok
      /\ tally'.skipped = tally.skipped + 1
  BY <1>1, <1>2 DEF Tallies
<1>6. /\ Phase' = Phase /\ (Single' <=> Single)
      /\ Served(at.s)' = Served(at.s) /\ Finished(Phase)' = Finished(Phase)
      /\ RecordsOf'
  BY <1>1, <1>2, <1>4, SameFinished, SameRecordsOf
  DEF Single, Served, Supports, ConfigIds, DataInv, RecordsOK
<1>7. /\ ~ OfConfig /\ ~ OfConfig' /\ ~ OfCublas /\ ~ OfCublas'
      /\ ~ Fresh /\ ~ Fresh' /\ Counting
      /\ Behind = at.i - 1 /\ Behind' = at.i
  BY <1>1, <1>3, <1>4, <1>6
  DEF OfConfig, OfCublas, Fresh, InBench, Counting, Launcher, Timing,
      VerifyLoop, Behind
<1>8. /\ CountsFit(tally, Finished(Phase), Served(at.s), at.i - 1)
      /\ IF at.pc = "verify_config"
         THEN /\ tally.passed + tally.failed + tally.skipped = at.i - 1
              /\ tally.ok
         ELSE tally.failed = 0
  BY <1>1, <1>2, <1>7 DEF DataInv, CountsOK, VerifyLoop
<1>9. CountsOK'
  <2> DEFINE b == at.i - 1
  <2>1. b \in Nat /\ b + 1 = at.i /\ at.i \notin Served(at.s)
    BY <1>1, <1>3 DEF Served, Supports, Supported
  <2>2. CountsFit(tally', Finished(Phase)', Served(at.s), b + 1)
    <3> HIDE DEF b
    <3> QED
      BY <1>2, <1>5, <1>6, <1>8, <2>1, CountSkipped DEF b
  <2>3. IF at.pc = "verify_config"
        THEN /\ tally'.passed + tally'.failed + tally'.skipped = at.i
             /\ tally'.ok
        ELSE tally'.failed = 0
    BY <1>2, <1>3, <1>5, <1>8 DEF Tallies
  <2>4. Behind' = b + 1
    BY <1>7, <2>1
  <2>5. at'.pc \in VerifyLoop <=> at.pc = "verify_config"
    BY <1>1, <1>4 DEF VerifyLoop
  <2> QED
    BY <1>4, <1>6, <1>7, <2>2, <2>3, <2>4, <2>5 DEF CountsOK
<1>10. FreshOK' /\ SummaryOK'
  BY <1>1, <1>4, <1>7 DEF FreshOK, SummaryOK
<1>11. DeviceOK'
  BY <1>1, <1>2, <1>4 DEF DeviceOK, Unawaited
<1>12. Lost => seen.blemish
  BY <1>2 DEF FailuresOK
<1>13. CASE at.pc = "verify_config"
  <2>1. /\ at.pc \in VerifyCalls \cup {"problem"} /\ at.pc \in VerifyPart
        /\ Phase = "verify" /\ at'.pc \in VerifyPart
    BY <1>2, <1>4, <1>13 DEF VerifyPart, VerifyCalls, VerifyLoop, ControlOK
  <2>2. /\ held["handle"] = IF HasHandle THEN 1 ELSE 0
        /\ HasHandle /\ HasHandle' /\ (Lost' <=> Lost)
    BY <1>1, <1>4, <1>5, <1>6, <1>13, <2>1, VerifyFacts
    DEF HasHandle, Lost, VerifyLoop, InBench, OfConfig, Launcher, Timing
  <2> QED
    BY <1>1, <1>2, <1>4, <1>5, <1>6, <1>7, <1>9, <1>10, <1>11, <1>12, <1>13,
       <2>1, <2>2, VerifyContinues
<1>14. CASE at.pc = "bench_config"
  <2>1. /\ Phase = "benchmark" /\ cmd.mode # "usage"
        /\ at.phase <= Len(Phases(cmd.mode)) /\ InBench /\ InBench'
    BY <1>2, <1>4, <1>14 DEF ControlOK, BenchCalls, InBench
  <2>2. HeldOK'
    <3>1. /\ HasHandle /\ HasStream /\ ~ HasStart /\ ~ HasStop
          /\ HasHandle' /\ HasStream' /\ ~ HasStart' /\ ~ HasStop'
      BY <1>4, <1>6, <1>14, <2>1
      DEF HasHandle, HasStream, HasStart, HasStop, Timing
    <3> QED
      BY <1>1, <1>2, <3>1 DEF HeldOK
  <2>3. ControlOK'
    <3>1. at'.phase <= Len(Phases(cmd.mode)') /\ cmd'.mode # "usage"
          /\ ~ Single'
      BY <1>1, <1>4, <1>6, <2>1
    <3> QED
      BY <1>4, <1>6, <1>7, <1>14, <2>1, <3>1
      DEF ControlOK, VerifyCalls, VerifyLoop, BenchCalls, ProfileCalls,
          FileCalls, Launcher, Timing
  <2>4. FailuresOK'
    <3>1. /\ Lost <=> tally.passed + tally.skipped < at.i - 1
          /\ Lost' <=> tally'.passed + tally'.skipped < at.i
      BY <1>1, <1>4, <1>6, <1>7, <1>14, <2>1 DEF Lost, VerifyLoop, Launcher
    <3>2. Lost' <=> Lost
      BY <1>2, <1>3, <1>5, <3>1 DEF Tallies
    <3> QED
      BY <1>1, <1>2, <1>6, <3>2, SameFailures
  <2>5. SingleOK'
    BY <1>1, <1>6 DEF SingleOK
  <2>6. RecordsOK'
    BY <1>4, <1>6, <1>7, <1>14 DEF RecordsOK
  <2>7. DoneOK' /\ LinesOK'
    BY <1>1, <1>2, <1>4, <1>14, SameProgress
  <2>8. RankingOK'
    <3>1. /\ ResultsOK /\ BestOK /\ Len(results) = at.i - 1
          /\ best.config = Null <=> tally.passed = 0
      BY <1>1, <1>2, <1>7, <2>1 DEF DataInv, RankingOK
    <3> DEFINE r == SkippedResult
    <3>2. /\ r \in Result /\ ~ r.ok /\ r.throughput = gemm_tflops(r.latency)
          /\ results' = Append(results, r) /\ best' = best
      BY <1>1, <1>14 DEF SkippedResult, Result, gemm_tflops
    <3> HIDE DEF r
    <3>3. ResultsOK' /\ BestOK' /\ Len(results') = Len(results) + 1
      BY <1>2, <3>1, <3>2, NotRanked
    <3>4. Len(results') = at.i
      BY <1>3, <3>1, <3>3
    <3> QED
      BY <1>4, <1>5, <1>6, <1>7, <1>14, <2>1, <3>1, <3>2, <3>3, <3>4
      DEF RankingOK
  <2>9. DriverTypes' /\ Ordered'
    BY <1>1, <1>2, <1>4, <1>5, <2>2, TypesStep
  <2> QED
    BY <1>1, <1>2, <1>9, <1>10, <1>11, <2>2, <2>3, <2>4, <2>5, <2>6, <2>7,
       <2>8, <2>9
    DEF Continues, RunningInv, DataInv
<1> QED
  BY <1>1, <1>13, <1>14

-----------------------------------------------------------------------------
(* The beginning of main.                                                  *)

LEMMA Found ==
  ASSUME NEW S \in SUBSET ConfigIds, find_config(S) # Null
  PROVE  find_config(S) \in ConfigIds
<1>1. Cardinality(S) = 1 /\ find_config(S) = CHOOSE c \in S : TRUE
  BY DEF find_config
<1>2. S # {}
  BY <1>1, FS_EmptySet
<1> QED
  BY <1>1, <1>2

\* The configurations are to be verified or measured next.
LEMMA MainContinues ==
  ASSUME Alive, at.pc = "main", cmd.mode # "usage",
         UNCHANGED <<cmd, cuda, held, report, all_ok, file, exit, seen>>,
         at' \in Places, at'.pc \in {"handle", "problem"},
         at'.phase = at.phase, at'.s = at.s,
         IF Single THEN at'.pc = "problem" /\ at'.i <= kGemmConfigCount
         ELSE /\ at'.i = at.i
              /\ at'.pc = "handle" <=> Phase = "verify"
  PROVE  Continues
<1>1. /\ DriverTypes /\ Ordered /\ at \in Places /\ ControlOK /\ DataInv
      /\ FailuresOK /\ HeldOK /\ DeviceOK /\ cuda \in Devices
      /\ seen \in Histories /\ tally \in Tallies /\ best \in Bests
      /\ held \in [Objects -> 0 .. 1] /\ all_ok \in BOOLEAN
      /\ exit = "running" /\ held \in Amounts
  BY DEF Alive, DriverTypes, RunningInv, Amounts
<1>2. UNCHANGED <<tally, results, best, best_results>>
  BY DEF report
<1>3. /\ Phase' = Phase /\ (Single' <=> Single) /\ at.phase = 1
      /\ Finished(Phase)' = Finished(Phase) /\ RecordsOf'
      /\ at.phase <= Len(Phases(cmd.mode)) /\ Finished(Phase) = {}
  BY <1>1, SameFinished, SameRecordsOf
  DEF Single, DataInv, RecordsOK, ControlOK
<1>4. /\ ~ OfConfig' /\ ~ OfCublas' /\ ~ InBench' /\ ~ Counting'
      /\ ~ Lost /\ ~ Lost' /\ ~ Fresh'
  BY <1>3 DEF OfConfig, OfCublas, InBench, Counting, Lost, Fresh, Launcher,
              Timing, VerifyLoop
<1>5. HeldOK'
  <2>1. /\ ~ HasHandle /\ ~ HasStream /\ ~ HasStart /\ ~ HasStop
        /\ ~ HasHandle' /\ ~ HasStream' /\ ~ HasStart' /\ ~ HasStop'
    BY <1>3 DEF HasHandle, HasStream, HasStart, HasStop, VerifyLoop, Launcher,
                Timing, ProfileCalls
  <2> QED
    BY <1>1, <2>1 DEF HeldOK
<1>6. DeviceOK'
  BY <1>1 DEF DeviceOK, Unawaited
<1>7. ControlOK'
  <2>1. at'.phase <= Len(Phases(cmd.mode)') /\ cmd'.mode # "usage"
        /\ (Single' => at'.i <= kGemmConfigCount)
    BY <1>3
  <2> QED
    BY <1>3, <1>4, <2>1
    DEF ControlOK, VerifyCalls, VerifyLoop, BenchCalls, ProfileCalls,
        FileCalls, Launcher, Timing
<1>8. FailuresOK'
  BY <1>1, <1>3, <1>4, SameFailures
<1>9. /\ FreshOK' /\ CountsOK' /\ SummaryOK' /\ SingleOK' /\ RankingOK'
      /\ RecordsOK'
  BY <1>3, <1>4 DEF FreshOK, CountsOK, SummaryOK, SingleOK, RankingOK,
                    RecordsOK
<1>10. ShapesDone' = at.s - 1 /\ ShapesDone = at.s - 1
  BY DEF ShapesDone, FileCalls
<1>11. DoneOK'
  <2>1. at'.pc \notin {"verify_destroy"} \cup FileCalls
    BY DEF FileCalls
  <2>2. at'.phase = 1 /\ \A q \in 1 .. at'.phase - 1 : FALSE
    BY <1>3
  <2>3. all_ok' => \A k \in 1 .. at.s - 1 : Recorded(Phase, k)'
    <3>1. CASE Single
      <4>1. at.s = 1
        BY <1>1, <3>1, PhaseOf
      <4> QED
        BY <4>1
    <3>2. CASE ~ Single
      <4>1. \A k : Recorded(Phase, k)' <=> Recorded(Phase, k)
        BY <1>3, <3>2 DEF Recorded, Supports, config_supports_problem,
                          ConfigIds
      <4> QED
        BY <1>1, <1>10, <4>1 DEF DataInv, DoneOK
    <3> QED
      BY <3>1, <3>2
  <2> QED
    BY <1>10, <2>1, <2>2, <2>3 DEF DoneOK
<1>12. LinesOK'
  BY <1>1, <1>2, <1>10 DEF DataInv, LinesOK
<1>13. DriverTypes' /\ Ordered'
  BY <1>1, <1>2, <1>5, TypesStep
<1> QED
  BY <1>1, <1>5, <1>6, <1>7, <1>8, <1>9, <1>11, <1>12, <1>13
  DEF Continues, RunningInv, DataInv

LEMMA MainStep ==
  ASSUME Alive, Main
  PROVE  Continues \/ Finishes
<1>1. /\ at.pc = "main"
      /\ UNCHANGED <<cmd, cuda, held, report, all_ok, file>>
  BY DEF Main, Running
<1>2. /\ DriverTypes /\ Ordered /\ at \in Places /\ HeldOK
      /\ held \in [Objects -> 0 .. 1] /\ file.state = "old"
      /\ cmd.mode \in Modes /\ exit = "running" /\ seen \in Histories
  BY <1>1, CommandFacts
  DEF Alive, DriverTypes, RunningInv, DataInv, LinesOK
<1>3. \A o \in Objects : held[o] = 0
  <2>1. ~ HasHandle /\ ~ HasStream /\ ~ HasStart /\ ~ HasStop
    BY <1>1 DEF HasHandle, HasStream, HasStart, HasStop, VerifyLoop, Launcher,
                Timing, ProfileCalls
  <2> QED
    BY <1>2, <2>1 DEF HeldOK, Objects, Events
<1>4. ASSUME exit' = "failure", at' = at, seen' \in Histories,
             seen'.blemish \/ cmd.mode = "usage"
      PROVE  Finishes
  <2>1. UNCHANGED <<tally, results, best, best_results>>
    BY <1>1 DEF report
  <2>2. Ordered' /\ EndedInv'
    BY <1>1, <1>2, <1>3, <1>4, <2>1, Ends
  <2>3. DriverTypes'
    BY <1>1, <1>2, <1>4, <2>1
    DEF DriverTypes, Places, Devices, Tallies, Bests, Histories, FileLines,
        Files
  <2> QED
    BY <1>4, <2>2, <2>3 DEF Finishes
<1>5. CASE cmd.mode \in AllConfigModes
  <2> DEFINE p == IF Phase = "verify" THEN "handle" ELSE "problem"
  <2>1. at' = [at EXCEPT !.pc = p] /\ UNCHANGED <<exit, seen>>
    <3>1. /\ Go(IF Phase = "verify" THEN "handle" ELSE "problem")
          /\ UNCHANGED <<exit, seen>>
      BY <1>5 DEF Main, AllConfigModes
    <3> QED
      BY <3>1 DEF Go
  <2>2. p \in Calls /\ p \in {"handle", "problem"}
        /\ (p = "handle" <=> Phase = "verify")
    BY DEF Calls
  <2> HIDE DEF p
  <2>3. at' \in Places /\ at'.pc = p /\ SamePlace(at, at')
    BY <1>2, <2>1, <2>2, GoFacts
  <2>4. ~ Single /\ cmd.mode # "usage"
    BY <1>5 DEF Single, SingleModes, AllConfigModes
  <2>5. Continues
    BY <1>1, <2>1, <2>2, <2>3, <2>4, MainContinues DEF SamePlace
  <2> QED
    BY <2>5
<1>6. CASE cmd.mode = "usage"
  <2>1. exit' = "failure" /\ UNCHANGED <<at, seen>>
    BY <1>6 DEF Main, AllConfigModes, Exit
  <2> QED
    BY <1>2, <1>4, <1>6, <2>1
<1>7. CASE cmd.mode \notin AllConfigModes \cup {"usage"}
  <2>1. Single /\ cmd.mode # "usage"
    BY <1>2, <1>7 DEF Single, Modes
  <2>2. PICK matches \in SUBSET ConfigIds :
          IF /\ find_config(matches) # Null
             /\ config_supports_problem(find_config(matches), cmd.shapes[1])
          THEN /\ at' = [at EXCEPT !.pc = "problem",
                                   !.i = find_config(matches)]
               /\ UNCHANGED <<exit, seen>>
          ELSE /\ Exit(FALSE)
               /\ seen' = [seen EXCEPT !.blemish = TRUE]
               /\ UNCHANGED at
    BY <1>7 DEF Main
  <2> DEFINE j == find_config(matches)
  <2>3. CASE /\ j # Null /\ at' = [at EXCEPT !.pc = "problem", !.i = j]
             /\ UNCHANGED <<exit, seen>>
    <3>1. j \in ConfigIds
      BY <2>3, Found
    <3> HIDE DEF j
    <3>2. j \in 1 .. kGemmConfigCount + 1 /\ j <= kGemmConfigCount
      BY <3>1, ConstantFacts DEF ConfigIds
    <3> DEFINE c == [at EXCEPT !.pc = "problem"]
    <3>3. c \in Places
      BY <1>2, PlaceTypes DEF Calls
    <3>4. [c EXCEPT !.i = j] \in Places
      <4> HIDE DEF c
      <4> QED
        BY <3>2, <3>3, PlaceTypes
    <3>5. at' = [c EXCEPT !.i = j]
      BY <2>3
    <3>6. /\ at' \in Places /\ at'.pc = "problem" /\ at'.i = j
          /\ at'.phase = at.phase /\ at'.s = at.s
      BY <1>2, <3>4, <3>5 DEF Places
    <3>7. Continues
      BY <1>1, <2>1, <2>3, <3>2, <3>6, MainContinues
    <3> QED
      BY <3>7
  <2>4. CASE /\ Exit(FALSE) /\ seen' = [seen EXCEPT !.blemish = TRUE]
             /\ UNCHANGED at
    <3>1. exit' = "failure" /\ seen' \in Histories /\ seen'.blemish
      BY <1>2, <2>4 DEF Exit, Histories
    <3> QED
      BY <1>4, <2>4, <3>1
  <2> QED
    BY <2>2, <2>3, <2>4
<1> QED
  BY <1>5, <1>6, <1>7

-----------------------------------------------------------------------------
(* BEST.txt.                                                               *)

\* Prefixes of a sequence.
LEMMA PrefixFacts ==
  ASSUME NEW s \in Seq(FileLines), NEW n \in 0 .. Len(s)
  PROVE  SubSeq(s, 1, n) \in Seq(FileLines) /\ Len(SubSeq(s, 1, n)) = n
         /\ \A x \in 1 .. n : SubSeq(s, 1, n)[x] = s[x]
<1>1. \A x \in 1 .. n : s[x] \in FileLines
  OBVIOUS
<1>2. /\ SubSeq(s, 1, n) \in Seq(FileLines)
      /\ Len(SubSeq(s, 1, n)) = IF 1 <= n THEN n - 1 + 1 ELSE 0
      /\ \A x \in 1 .. n - 1 + 1 : SubSeq(s, 1, n)[x] = s[1 + x - 1]
  BY <1>1, SubSeqProperties
<1> QED
  BY <1>2

LEMMA PrefixOfPrefix ==
  ASSUME NEW s \in Seq(FileLines), NEW n \in 0 .. Len(s), NEW k \in 0 .. n
  PROVE  SubSeq(SubSeq(s, 1, n), 1, k) = SubSeq(s, 1, k)
<1> DEFINE t == SubSeq(s, 1, n)
<1>1. t \in Seq(FileLines) /\ Len(t) = n /\ \A x \in 1 .. n : t[x] = s[x]
  BY PrefixFacts
<1>2. k \in 0 .. Len(s) /\ k \in 0 .. Len(t)
  BY <1>1
<1> HIDE DEF t
<1>3. /\ SubSeq(t, 1, k) \in Seq(FileLines) /\ Len(SubSeq(t, 1, k)) = k
      /\ \A x \in 1 .. k : SubSeq(t, 1, k)[x] = t[x]
  BY <1>1, <1>2, PrefixFacts
<1>4. /\ SubSeq(s, 1, k) \in Seq(FileLines) /\ Len(SubSeq(s, 1, k)) = k
      /\ \A x \in 1 .. k : SubSeq(s, 1, k)[x] = s[x]
  BY <1>2, PrefixFacts
<1>5. \A x \in 1 .. k : t[x] = s[x]
  BY <1>1
<1>6. SubSeq(t, 1, k) = SubSeq(s, 1, k)
  BY <1>3, <1>4, <1>5, SeqEqual
<1> QED
  BY <1>6 DEF t

LEMMA PrefixExtended ==
  ASSUME NEW s \in Seq(FileLines), NEW n \in 0 .. Len(s), n < Len(s)
  PROVE  /\ Append(SubSeq(s, 1, n), s[n + 1]) = SubSeq(s, 1, n + 1)
         /\ s[n + 1] \in FileLines
<1> DEFINE t == SubSeq(s, 1, n)
           m == n + 1
<1>1. t \in Seq(FileLines) /\ Len(t) = n /\ \A x \in 1 .. n : t[x] = s[x]
  BY PrefixFacts
<1>2. m \in 0 .. Len(s) /\ s[m] \in FileLines
  OBVIOUS
<1> HIDE DEF t
<1>3. /\ Append(t, s[m]) \in Seq(FileLines) /\ Len(Append(t, s[m])) = m
      /\ \A x \in 1 .. n : Append(t, s[m])[x] = t[x]
      /\ Append(t, s[m])[m] = s[m]
  BY <1>1, <1>2
<1>4. /\ SubSeq(s, 1, m) \in Seq(FileLines) /\ Len(SubSeq(s, 1, m)) = m
      /\ \A x \in 1 .. m : SubSeq(s, 1, m)[x] = s[x]
  <2> HIDE DEF m
  <2> QED
    BY <1>2, PrefixFacts
<1>5. \A x \in 1 .. m : Append(t, s[m])[x] = SubSeq(s, 1, m)[x]
  <2> SUFFICES ASSUME NEW x \in 1 .. m
               PROVE  Append(t, s[m])[x] = SubSeq(s, 1, m)[x]
    OBVIOUS
  <2>1. x \in 1 .. n \/ x = m
    OBVIOUS
  <2> HIDE DEF m
  <2> QED
    BY <1>1, <1>3, <1>4, <2>1
<1>6. Append(t, s[m]) = SubSeq(s, 1, m)
  <2> HIDE DEF m
  <2> QED
    BY <1>3, <1>4, <1>5, SeqEqual
<1> QED
  BY <1>2, <1>6 DEF t

\* What is known while the file is written.
LEMMA FileFacts ==
  ASSUME Alive, at.pc \in FileCalls
  PROVE  /\ DriverTypes /\ Ordered /\ at \in Places /\ ControlOK /\ DataInv
         /\ FailuresOK /\ HeldOK /\ cuda \in Devices /\ seen \in Histories
         /\ held \in [Objects -> 0 .. 1] /\ all_ok \in BOOLEAN
         /\ tally \in Tallies /\ best \in Bests /\ held \in Amounts
         /\ exit = "running" /\ cmd.mode = "benchmark" /\ ~ Single
         /\ file \in Files /\ best_results \in Seq(FileLines)
         /\ ~ HasHandle /\ ~ HasStream /\ ~ HasStart /\ ~ HasStop
         /\ \A o \in Objects : held[o] = 0
         /\ Phase = "benchmark" /\ at.phase = 1 /\ Len(Phases(cmd.mode)) = 1
         /\ ShapesDone = at.s /\ at.s = Len(cmd.shapes)
         /\ Lost <=> at.pc # "open" /\ ~ at.ok
         /\ ~ seen.blemish => cuda.ctx = "live"
<1>1. /\ DriverTypes /\ Ordered /\ at \in Places /\ ControlOK /\ DataInv
      /\ FailuresOK /\ HeldOK /\ DeviceOK /\ cuda \in Devices
      /\ seen \in Histories
      /\ held \in [Objects -> 0 .. 1] /\ all_ok \in BOOLEAN
      /\ tally \in Tallies /\ best \in Bests /\ held \in Amounts
      /\ exit = "running" /\ file \in Files
      /\ best_results \in Seq(FileLines)
  BY DEF Alive, DriverTypes, RunningInv, Amounts
<1>2. cmd.mode = "benchmark" /\ ~ Single
  BY <1>1 DEF ControlOK, Single, SingleModes
<1>3. Phase = "benchmark" /\ at.phase = 1 /\ Len(Phases(cmd.mode)) = 1
  <2>1. Len(Phases(cmd.mode)) = 1 /\ Phases(cmd.mode)[1] = "benchmark"
    BY <1>2, PhaseFacts
    DEF TwoPhases, VerifyFirst, BenchmarkOnly, Modes, AllConfigModes
  <2> QED
    BY <1>1, <1>2, <2>1, PhaseOf DEF Phase
<1>4. ~ HasHandle /\ ~ HasStream /\ ~ HasStart /\ ~ HasStop
  BY <1>3 DEF HasHandle, HasStream, HasStart, HasStop, FileCalls, Launcher,
              Timing, VerifyLoop, ProfileCalls
<1>5. \A o \in Objects : held[o] = 0
  BY <1>1, <1>4 DEF HeldOK, Objects, Events
<1>6. ShapesDone = at.s /\ at.s = Len(cmd.shapes)
  BY <1>1 DEF ShapesDone, DataInv, DoneOK
<1>7. Lost <=> at.pc # "open" /\ ~ at.ok
  BY <1>2 DEF Lost, FileCalls, VerifyLoop, InBench, OfConfig, Launcher, Timing
<1>8. ~ seen.blemish => cuda.ctx = "live"
  BY <1>1 DEF DeviceOK, FileCalls, Unawaited
<1> QED
  BY <1>1, <1>2, <1>3, <1>4, <1>5, <1>6, <1>7, <1>8

LEMMA IoFacts ==
  ASSUME cuda \in Devices, seen \in Histories, IoFails
  PROVE  /\ cuda' \in Devices /\ cuda'.ctx = cuda.ctx
         /\ seen' \in Histories /\ seen'.done = seen.done /\ seen'.blemish
<1>1. cuda.faults + 1 \in 0 .. MaxFaults
  BY ConstantFacts DEF IoFails, Room, Devices
<1>2. cuda' \in Devices /\ cuda'.ctx = cuda.ctx
  BY <1>1 DEF IoFails, Devices
<1> QED
  BY <1>2 DEF IoFails, Histories

\* The file is written on.
LEMMA FileContinues ==
  ASSUME Alive, at.pc \in FileCalls, at' \in Places,
         at'.pc \in {"write", "close"}, SamePlace(at, at'),
         UNCHANGED <<cmd, held, report, all_ok, exit>>,
         cuda' \in Devices, cuda'.ctx = cuda.ctx, seen' \in Histories,
         seen'.done = seen.done, seen.blemish => seen'.blemish,
         ~ at'.ok => seen'.blemish,
         seen'.blemish => seen.blemish \/ ~ at'.ok,
         Lost => ~ at'.ok,
         at'.pc = "close" => ~ at'.ok,
         file' \in Files, file'.state = "open", Lines'
  PROVE  Continues
<1>1. /\ DriverTypes /\ Ordered /\ at \in Places /\ ControlOK /\ DataInv
      /\ FailuresOK /\ HeldOK /\ all_ok \in BOOLEAN
      /\ tally \in Tallies /\ best \in Bests /\ held \in Amounts
      /\ exit = "running" /\ cmd.mode = "benchmark" /\ ~ Single
      /\ best_results \in Seq(FileLines)
      /\ ~ HasHandle /\ ~ HasStream /\ ~ HasStart /\ ~ HasStop
      /\ Phase = "benchmark" /\ at.phase = 1 /\ Len(Phases(cmd.mode)) = 1
      /\ ShapesDone = at.s /\ at.s = Len(cmd.shapes)
      /\ ~ seen.blemish => cuda.ctx = "live"
  BY FileFacts
<1>2. UNCHANGED <<tally, results, best, best_results>>
  BY DEF report
<1>3. /\ at'.phase = at.phase /\ at'.s = at.s /\ at'.i = at.i
      /\ Phase' = Phase /\ ~ Single'
      /\ \A x, k : Supports(x, k)' <=> Supports(x, k)
      /\ Phases(cmd.mode)' = Phases(cmd.mode) /\ RecordsOf'
  BY <1>1, SameRecordsOf
  DEF SamePlace, Phase, Single, Supports, DataInv, RecordsOK
<1>4. /\ ~ OfConfig' /\ ~ OfCublas' /\ ~ InBench' /\ ~ Counting' /\ ~ Fresh'
      /\ (Lost' <=> ~ at'.ok)
  BY <1>3 DEF OfConfig, OfCublas, InBench, Counting, Fresh, Lost, Launcher,
              Timing, VerifyLoop
<1>5. HeldOK'
  <2>1. ~ HasHandle' /\ ~ HasStream' /\ ~ HasStart' /\ ~ HasStop'
    BY <1>3 DEF HasHandle, HasStream, HasStart, HasStop, VerifyLoop, Launcher,
                Timing, ProfileCalls
  <2> QED
    BY <1>1, <2>1 DEF HeldOK
<1>6. DeviceOK'
  BY <1>1 DEF DeviceOK
<1>7. ControlOK'
  BY <1>1, <1>3, <1>4
  DEF ControlOK, VerifyCalls, VerifyLoop, BenchCalls, ProfileCalls,
      FileCalls, Launcher, Timing
<1>8. FailuresOK'
  <2>1. NothingToRank' <=> NothingToRank
    BY DEF NothingToRank, config_supports_problem
  <2> QED
    BY <1>1, <1>3, <1>4, <2>1 DEF FailuresOK
<1>9. /\ FreshOK' /\ CountsOK' /\ SummaryOK' /\ SingleOK' /\ RankingOK'
      /\ RecordsOK'
  BY <1>3, <1>4 DEF FreshOK, CountsOK, SummaryOK, SingleOK, RankingOK,
                    RecordsOK
<1>10. ShapesDone' = ShapesDone
  BY <1>1, <1>3 DEF ShapesDone, FileCalls
<1>11. DoneOK'
  <2>1. \A p, k : Recorded(p, k)' <=> Recorded(p, k)
    BY <1>1, <1>3 DEF Recorded, ConfigIds
  <2> QED
    BY <1>1, <1>3, <1>10, <2>1 DEF DataInv, DoneOK
<1>12. LinesOK'
  BY <1>1, <1>2, <1>10 DEF DataInv, LinesOK
<1>13. DriverTypes' /\ Ordered'
  <2>1. at' \in Places' /\ held' \in [Objects -> 0 .. 1]
    BY <1>1, <1>5, HeldTypes DEF Places
  <2> QED
    BY <1>1, <1>2, <2>1
    DEF DriverTypes, Ordered, Devices, Tallies, Bests, Histories, FileLines,
        Files
<1> QED
  BY <1>1, <1>5, <1>6, <1>7, <1>8, <1>9, <1>11, <1>12, <1>13
  DEF Continues, RunningInv, DataInv

LEMMA OpenFileStep ==
  ASSUME Alive, OpenFile
  PROVE  Continues \/ Finishes
<1>1. /\ at.pc = "open" /\ UNCHANGED <<cmd, held, report, all_ok>>
      /\ \/ /\ UNCHANGED <<cuda, seen, exit>>
            /\ file' = [state |-> "open", lines |-> << >>]
            /\ at' = [at EXCEPT !.pc = "write", !.ok = TRUE]
         \/ IoFails /\ Exit(FALSE) /\ UNCHANGED <<at, file>>
  BY DEF OpenFile, Running
<1>2. at.pc \in FileCalls
  BY <1>1 DEF FileCalls
<1>3. /\ DriverTypes /\ Ordered /\ at \in Places /\ DataInv
      /\ cuda \in Devices /\ seen \in Histories /\ FailuresOK
      /\ held \in [Objects -> 0 .. 1] /\ \A o \in Objects : held[o] = 0
      /\ best_results \in Seq(FileLines) /\ ~ Lost
  BY <1>1, <1>2, FileFacts
<1>4. CASE /\ UNCHANGED <<cuda, seen, exit>>
           /\ file' = [state |-> "open", lines |-> << >>]
           /\ at' = [at EXCEPT !.pc = "write", !.ok = TRUE]
  <2>1. /\ at' \in Places /\ at'.pc = "write" /\ SamePlace(at, at') /\ at'.ok
    <3> DEFINE c == [at EXCEPT !.pc = "write"]
    <3>1. c \in Places
      BY <1>3, PlaceTypes DEF Calls
    <3>2. [c EXCEPT !.ok = TRUE] \in Places
      <4> HIDE DEF c
      <4> QED
        BY <3>1, PlaceTypes
    <3>3. at' = [c EXCEPT !.ok = TRUE]
      BY <1>4
    <3> QED
      BY <1>3, <3>2, <3>3 DEF Places, SamePlace
  <2>2. /\ file' \in Files /\ file'.state = "open" /\ file'.lines = << >>
    <3>1. << >> \in Seq(FileLines)
      OBVIOUS
    <3> QED
      BY <1>4, <3>1 DEF Files
  <2>3. Lines'
    <3>1. Len(best_results) \in Nat /\ Len(file'.lines) = 0
      BY <1>3, <2>2
    <3>2. 0 \in Int /\ 1 \in Int /\ 0 < 1
      OBVIOUS
    <3>3. SubSeq(best_results, 1, 0) = << >>
      BY <3>2, SubSeqEmpty
    <3>4. best_results' = best_results
      BY <1>1 DEF report
    <3> QED
      BY <2>2, <3>1, <3>3, <3>4 DEF Lines
  <2>4. Continues
    BY <1>1, <1>2, <1>3, <1>4, <2>1, <2>2, <2>3, FileContinues
  <2> QED
    BY <2>4
<1>5. CASE IoFails /\ Exit(FALSE) /\ UNCHANGED <<at, file>>
  <2>1. /\ cuda' \in Devices /\ seen' \in Histories /\ seen'.blemish
        /\ exit' = "failure"
    BY <1>3, <1>5, IoFacts DEF Exit
  <2>2. UNCHANGED <<tally, results, best, best_results>> /\ file.state = "old"
    BY <1>1, <1>3 DEF report, DataInv, LinesOK
  <2>3. Ordered' /\ EndedInv'
    BY <1>1, <1>3, <1>5, <2>1, <2>2, Ends
  <2>4. DriverTypes'
    BY <1>1, <1>3, <1>5, <2>1, <2>2
    DEF DriverTypes, Places, Devices, Tallies, Bests, Histories, FileLines,
        Files
  <2> QED
    BY <2>1, <2>3, <2>4 DEF Finishes
<1> QED
  BY <1>1, <1>4, <1>5

LEMMA WriteLineStep ==
  ASSUME Alive, WriteLine
  PROVE  Continues
<1>1. /\ at.pc = "write" /\ ~ WrittenAll
      /\ UNCHANGED <<cmd, held, report, all_ok>>
      /\ \/ /\ file' = [file EXCEPT !.lines = Append(@, NextLine)]
            /\ UNCHANGED <<cuda, seen, at, exit>>
         \/ IoFails /\ AfterWriteError /\ UNCHANGED file
  BY DEF WriteLine, Running
<1>2. at.pc \in FileCalls
  BY <1>1 DEF FileCalls
<1>3. /\ DriverTypes /\ at \in Places /\ DataInv /\ FailuresOK
      /\ cuda \in Devices /\ seen \in Histories /\ file \in Files
      /\ best_results \in Seq(FileLines) /\ (Lost <=> ~ at.ok)
  BY <1>1, <1>2, FileFacts
<1>4. /\ file.state = "open" /\ Len(file.lines) <= Len(best_results)
      /\ file.lines = SubSeq(best_results, 1, Len(file.lines))
      /\ best_results' = best_results
  BY <1>1, <1>3 DEF DataInv, LinesOK, Lines, report
<1>5. Lost => seen.blemish
  BY <1>3 DEF FailuresOK
<1>6. CASE /\ file' = [file EXCEPT !.lines = Append(@, NextLine)]
           /\ UNCHANGED <<cuda, seen, at, exit>>
  <2> DEFINE n == Len(file.lines)
  <2>1. n \in 0 .. Len(best_results) /\ n < Len(best_results)
    BY <1>1, <1>3, <1>4 DEF WrittenAll, Files
  <2>2. file.lines = SubSeq(best_results, 1, n)
        /\ NextLine = best_results[n + 1]
    BY <1>4 DEF NextLine
  <2> HIDE DEF n
  <2>3. /\ Append(file.lines, NextLine) = SubSeq(best_results, 1, n + 1)
        /\ NextLine \in FileLines
    BY <1>3, <2>1, <2>2, PrefixExtended
  <2>4. /\ SubSeq(best_results, 1, n + 1) \in Seq(FileLines)
        /\ Len(SubSeq(best_results, 1, n + 1)) = n + 1
    <3>1. n + 1 \in 0 .. Len(best_results)
      BY <1>3, <2>1
    <3> QED
      BY <1>3, <3>1, PrefixFacts
  <2>5. /\ file' \in Files /\ file'.state = "open"
        /\ file'.lines = SubSeq(best_results, 1, n + 1)
    BY <1>3, <1>4, <1>6, <2>3, <2>4 DEF Files
  <2>6. Lines'
    <3>1. Len(file'.lines) = n + 1 /\ n + 1 <= Len(best_results)
      BY <1>3, <2>1, <2>4, <2>5
    <3> QED
      BY <1>4, <2>5, <3>1 DEF Lines
  <2>7. at' \in Places /\ at'.pc = "write" /\ SamePlace(at, at')
        /\ at'.ok = at.ok
    BY <1>1, <1>3, <1>6 DEF SamePlace
  <2> QED
    BY <1>1, <1>2, <1>3, <1>5, <1>6, <2>5, <2>6, <2>7, FileContinues
<1>7. CASE IoFails /\ AfterWriteError /\ UNCHANGED file
  <2>1. /\ cuda' \in Devices /\ cuda'.ctx = cuda.ctx
        /\ seen' \in Histories /\ seen'.done = seen.done /\ seen'.blemish
    BY <1>3, <1>7, IoFacts
  <2>2. /\ at' = [at EXCEPT !.pc = "close", !.ok = FALSE]
        /\ UNCHANGED exit
    BY <1>7 DEF AfterWriteError
  <2>3. /\ at' \in Places /\ at'.pc = "close" /\ SamePlace(at, at')
        /\ ~ at'.ok
    <3> DEFINE c == [at EXCEPT !.pc = "close"]
    <3>1. c \in Places
      BY <1>3, PlaceTypes DEF Calls
    <3>2. [c EXCEPT !.ok = FALSE] \in Places
      <4> HIDE DEF c
      <4> QED
        BY <3>1, PlaceTypes
    <3>3. at' = [c EXCEPT !.ok = FALSE]
      BY <2>2
    <3> QED
      BY <1>3, <3>2, <3>3 DEF Places, SamePlace
  <2>4. /\ file' \in Files /\ file'.state = "open" /\ Lines'
    BY <1>3, <1>4, <1>7 DEF Lines
  <2> QED
    BY <1>1, <1>2, <1>3, <2>1, <2>2, <2>3, <2>4, FileContinues
<1> QED
  BY <1>1, <1>6, <1>7

LEMMA CloseFileStep ==
  ASSUME Alive, CloseFile
  PROVE  Finishes
<1>1. /\ at.pc = "close" \/ (at.pc = "write" /\ WrittenAll)
      /\ UNCHANGED <<cmd, at, held, report, all_ok>>
      /\ \/ /\ UNCHANGED <<cuda, seen>>
            /\ file' = [file EXCEPT !.state = "closed"]
            /\ Exit(at.ok /\ all_ok)
         \/ /\ IoFails
            /\ \E k \in 0 .. Len(file.lines) :
                 file' = [state |-> "closed",
                          lines |-> SubSeq(file.lines, 1, k)]
            /\ Exit(FALSE)
  BY DEF CloseFile, Running
<1>2. at.pc \in FileCalls
  BY <1>1 DEF FileCalls
<1>3. /\ DriverTypes /\ Ordered /\ at \in Places /\ ControlOK /\ DataInv
      /\ FailuresOK /\ cuda \in Devices /\ seen \in Histories
      /\ file \in Files /\ held \in [Objects -> 0 .. 1]
      /\ all_ok \in BOOLEAN /\ cmd.mode = "benchmark" /\ ~ Single
      /\ best_results \in Seq(FileLines)
      /\ \A o \in Objects : held[o] = 0
      /\ Phase = "benchmark" /\ at.phase = 1 /\ Len(Phases(cmd.mode)) = 1
      /\ ShapesDone = at.s /\ at.s = Len(cmd.shapes)
      /\ (Lost <=> ~ at.ok) /\ (~ seen.blemish => cuda.ctx = "live")
  BY <1>1, <1>2, FileFacts
<1>4. UNCHANGED <<tally, results, best, best_results>>
  BY <1>1 DEF report
<1>5. /\ file.state = "open" /\ Len(file.lines) <= Len(best_results)
      /\ file.lines = SubSeq(best_results, 1, Len(file.lines))
      /\ at.pc = "close" => ~ at.ok
      /\ all_ok => Len(best_results) = Len(cmd.shapes)
  BY <1>1, <1>3 DEF DataInv, LinesOK, Lines
<1>6. Ordered' /\ \A o \in Objects : held'[o] = 0
  BY <1>1, <1>3, <1>4 DEF Ordered
<1>7. CASE /\ UNCHANGED <<cuda, seen>>
           /\ file' = [file EXCEPT !.state = "closed"]
           /\ Exit(at.ok /\ all_ok)
  <2>1. /\ file' \in Files /\ file'.state = "closed"
        /\ file'.lines = file.lines
    BY <1>3, <1>7 DEF Files
  <2>2. exit' \in {"success", "failure"}
        /\ (exit' = "success" <=> at.ok /\ all_ok)
    BY <1>7 DEF Exit
  <2>3. exit' = "success" => /\ ~ seen'.blemish /\ cuda'.ctx = "live"
                             /\ Wanted' \subseteq seen'.done
    <3> SUFFICES ASSUME at.ok, all_ok
                 PROVE  /\ ~ seen'.blemish /\ cuda'.ctx = "live"
                        /\ Wanted' \subseteq seen'.done
      BY <2>2
    <3>1. ~ seen'.blemish /\ cuda'.ctx = "live"
      BY <1>3, <1>7 DEF FailuresOK
    <3>2. \A k \in 1 .. Len(cmd.shapes) : Recorded(Phase, k)
      BY <1>3 DEF DataInv, DoneOK
    <3>3. \A q \in 1 .. at.phase : \A k \in 1 .. Len(cmd.shapes) :
            \A x \in ConfigIds : Supports(x, k) /\ (Single => x = at.i) =>
              <<Phases(cmd.mode)[q], k, x>> \in seen'.done
      <4> SUFFICES ASSUME NEW q \in 1 .. at.phase,
                          NEW k \in 1 .. Len(cmd.shapes),
                          NEW x \in ConfigIds, Supports(x, k)
                   PROVE  <<Phases(cmd.mode)[q], k, x>> \in seen'.done
        OBVIOUS
      <4>1. Phases(cmd.mode)[q] = Phase
        BY <1>3 DEF Phase
      <4> QED
        BY <1>3, <1>7, <3>2, <4>1 DEF Recorded
    <3> QED
      BY <1>1, <1>3, <3>1, <3>3, Wanting
  <2>4. exit' = "failure" => seen'.blemish \/ NothingToRank'
    <3>1. NothingToRank' <=> NothingToRank
      BY <1>1 DEF NothingToRank, config_supports_problem
    <3> QED
      BY <1>3, <1>7, <2>2, <3>1 DEF FailuresOK
  <2>5. exit' = "success" => /\ file'.lines = best_results
                             /\ Len(best_results) = Len(cmd.shapes)
    <3> SUFFICES ASSUME at.ok, all_ok
                 PROVE  /\ file'.lines = best_results
                        /\ Len(best_results) = Len(cmd.shapes)
      BY <2>2
    <3>1. Len(file.lines) = Len(best_results)
      BY <1>1, <1>5 DEF WrittenAll
    <3>2. SubSeq(best_results, 1, Len(best_results)) = best_results
      BY <1>3, SubSeqFull
    <3> QED
      BY <1>5, <2>1, <3>1, <3>2
  <2>6. EndedInv'
    <3>1. SuccessIsEarned' /\ FailureHasCause' /\ NothingLeft'
      BY <1>6, <2>1, <2>3, <2>4
      DEF SuccessIsEarned, FailureHasCause, NothingLeft
    <3>2. BestFile'
      BY <1>1, <1>4, <1>5, <1>6, <2>1, <2>5 DEF BestFile, Ordered
    <3> QED
      BY <3>1, <3>2 DEF EndedInv
  <2>7. DriverTypes'
    BY <1>1, <1>3, <1>4, <1>7, <2>1, <2>2
    DEF DriverTypes, Places, Devices, Tallies, Bests, Histories, FileLines,
        Files
  <2> QED
    BY <1>6, <2>2, <2>6, <2>7 DEF Finishes
<1>8. CASE /\ IoFails
           /\ \E k \in 0 .. Len(file.lines) :
                file' = [state |-> "closed", lines |-> SubSeq(file.lines, 1, k)]
           /\ Exit(FALSE)
  <2>1. /\ cuda' \in Devices /\ seen' \in Histories /\ seen'.blemish
        /\ exit' = "failure"
    BY <1>3, <1>8, IoFacts DEF Exit
  <2>2. PICK k \in 0 .. Len(file.lines) :
          file' = [state |-> "closed", lines |-> SubSeq(file.lines, 1, k)]
    BY <1>8
  <2> DEFINE n == Len(file.lines)
  <2>3. n \in 0 .. Len(best_results) /\ k \in 0 .. n
        /\ k \in 0 .. Len(best_results)
    BY <1>3, <1>5 DEF Files
  <2>4. file.lines = SubSeq(best_results, 1, n)
    BY <1>5
  <2> HIDE DEF n
  <2>5. SubSeq(file.lines, 1, k) = SubSeq(best_results, 1, k)
    BY <1>3, <2>3, <2>4, PrefixOfPrefix
  <2>6. /\ SubSeq(best_results, 1, k) \in Seq(FileLines)
        /\ Len(SubSeq(best_results, 1, k)) = k
    BY <1>3, <2>3, PrefixFacts
  <2>7. /\ file' \in Files /\ file'.state = "closed"
        /\ file'.lines = SubSeq(best_results, 1, Len(file'.lines))
    BY <2>2, <2>5, <2>6 DEF Files
  <2>8. EndedInv'
    <3>1. SuccessIsEarned' /\ FailureHasCause' /\ NothingLeft'
      BY <1>6, <2>1, <2>7
      DEF SuccessIsEarned, FailureHasCause, NothingLeft
    <3>2. BestFile'
      BY <1>4, <1>6, <2>1, <2>7 DEF BestFile, Ordered
    <3> QED
      BY <3>1, <3>2 DEF EndedInv
  <2>9. DriverTypes'
    BY <1>1, <1>3, <1>4, <2>1, <2>7
    DEF DriverTypes, Places, Devices, Tallies, Bests, Histories, FileLines,
        Files
  <2> QED
    BY <1>6, <2>1, <2>8, <2>9 DEF Finishes
<1> QED
  BY <1>1, <1>7, <1>8

-----------------------------------------------------------------------------
(* The invariant.                                                          *)

LEMMA InitTypes ==
  ASSUME Init
  PROVE  DriverTypes /\ Ordered
<1>1. /\ cmd \in Commands
      /\ at = [pc |-> "main", phase |-> 1, s |-> 1, i |-> 1, n |-> 0,
               timing |-> "cublas", ok |-> TRUE, ms |-> 0]
      /\ cuda = [ctx |-> "live", last |-> FALSE, faults |-> 0]
      /\ held = [o \in Objects |-> 0]
      /\ tally = NoTally /\ results = << >> /\ best = NoBest
      /\ best_results = << >> /\ all_ok = TRUE
      /\ file = [state |-> "old", lines |-> << >>]
      /\ exit = "running"
      /\ seen = [blemish |-> FALSE, done |-> {}, accepted |-> {}]
  BY DEF Init
<1>2. /\ 1 \in 1 .. Len(cmd.shapes) /\ 1 \in 1 .. kGemmConfigCount + 1
      /\ 0 \in 0 .. (kWarmupIterations + kBenchmarkIterations)
      /\ 0 \in 0 .. MaxFaults /\ 0 \in 0 .. kGemmConfigCount /\ 1 \in 1 .. 2
  BY <1>1, CommandFacts, ConstantFacts
<1>3. at \in Places
  BY <1>1, <1>2 DEF Places, Calls
<1>4. cuda \in Devices
  BY <1>1, <1>2 DEF Devices
<1>5. tally \in Tallies /\ best \in Bests
  BY <1>1, <1>2 DEF Tallies, NoTally, Bests, NoBest, Null
<1>6. seen \in Histories
  BY <1>1 DEF Histories
<1>7. best_results \in Seq(FileLines) /\ file \in Files
  BY <1>1 DEF Files
<1>8. held \in [Objects -> 0 .. 1]
  BY <1>1
<1>9. Ordered
  BY <1>1 DEF Ordered
<1> QED
  BY <1>1, <1>3, <1>4, <1>5, <1>6, <1>7, <1>8, <1>9 DEF DriverTypes

LEMMA InitInv ==
  ASSUME Init
  PROVE  DriverInv
<1>1. /\ cmd \in Commands /\ at.pc = "main" /\ at.phase = 1 /\ at.s = 1
      /\ at.n = 0
      /\ cuda.ctx = "live" /\ held = [o \in Objects |-> 0]
      /\ tally = NoTally /\ results = << >> /\ best = NoBest
      /\ best_results = << >> /\ all_ok = TRUE
      /\ file.state = "old"
      /\ exit = "running" /\ seen.blemish = FALSE /\ seen.done = {}
  BY DEF Init
<1>2. DriverTypes /\ Ordered /\ cmd.mode \in Modes
  BY InitTypes, CommandFacts DEF DriverTypes
<1>3. /\ at.pc \notin VerifyCalls \cup {"stream"} \cup Launcher \cup BenchCalls
                        \cup ProfileCalls \cup FileCalls \cup VerifyLoop
                        \cup Timing \cup Unawaited
      /\ at.pc \notin {"problem", "verify_destroy"}
  BY <1>1 DEF VerifyCalls, VerifyLoop, Launcher, Timing, BenchCalls,
              ProfileCalls, FileCalls, Unawaited
<1>4. ~ InBench /\ ~ OfConfig /\ ~ OfCublas
  BY <1>1, <1>3 DEF InBench, OfConfig, OfCublas
<1>5. ControlOK
  <2>1. at.phase <= Len(Phases(cmd.mode))
    BY <1>1, <1>2, PhaseFacts
  <2> QED
    BY <1>1, <1>3, <1>4, <2>1
    DEF ControlOK, VerifyCalls, VerifyLoop, Launcher, BenchCalls
<1>6. HeldOK
  <2>1. ~ HasHandle /\ ~ HasStream /\ ~ HasStart /\ ~ HasStop
    BY <1>1, <1>3 DEF HasHandle, HasStream, HasStart, HasStop
  <2> QED
    BY <1>1, <2>1 DEF HeldOK, Objects, Events
<1>7. DeviceOK
  BY <1>1 DEF DeviceOK
<1>8. FailuresOK
  BY <1>1, <1>3, <1>4 DEF FailuresOK, Lost
<1>9. FreshOK /\ CountsOK /\ SummaryOK /\ SingleOK
  BY <1>1, <1>3, <1>4 DEF FreshOK, CountsOK, Counting, SummaryOK, SingleOK
<1>10. RecordsOK
  BY <1>1 DEF RecordsOK, RecordsOf, Finished
<1>11. DoneOK
  <2>1. ShapesDone = 0
    BY <1>1, <1>3 DEF ShapesDone
  <2> QED
    BY <1>1, <1>3, <2>1 DEF DoneOK
<1>12. RankingOK
  BY <1>1, <1>4 DEF RankingOK
<1>13. LinesOK
  <2>1. ShapesDone = 0
    BY <1>1, <1>3 DEF ShapesDone
  <2> QED
    BY <1>1, <2>1 DEF LinesOK
<1> QED
  BY <1>1, <1>2, <1>5, <1>6, <1>7, <1>8, <1>9, <1>10, <1>11, <1>12, <1>13
  DEF DriverInv, RunningInv, DataInv

\* The process that has ended does nothing more.
LEMMA EndedStays ==
  ASSUME exit # "running", Next
  PROVE  UNCHANGED vars
<1>1. CASE Main \/ Problem \/ Die
  BY <1>1 DEF Main, Problem, Die, Running
<1>2. CASE VerifyHandle \/ Reference \/ ReferenceSync \/ ReferenceDestroy
  BY <1>2 DEF VerifyHandle, Reference, ReferenceSync, ReferenceDestroy, Running
<1>3. CASE VerifyLaunch \/ VerifySync \/ VerifyCompare \/ SkipConfig
  BY <1>3 DEF VerifyLaunch, VerifySync, VerifyCompare, SkipConfig, Running
<1>4. CASE VerifySummary \/ VerifyNext \/ VerifyDestroy
  BY <1>4 DEF VerifySummary, VerifyNext, VerifyDestroy, Running
<1>5. CASE WarmupLaunch \/ WarmupSync \/ TimedLaunch \/ Elapsed
  BY <1>5 DEF WarmupLaunch, WarmupSync, TimedLaunch, Elapsed, Running
<1>6. CASE CreateStart \/ CreateStop \/ RecordStart \/ RecordStop \/ StopSync
  BY <1>6 DEF CreateStart, CreateStop, RecordStart, RecordStop, StopSync,
              LauncherCall, Running
<1>7. CASE Stream \/ BenchHandle \/ SetStream \/ CublasMeasured \/ BenchConfig
  BY <1>7 DEF Stream, BenchHandle, SetStream, CublasMeasured, BenchConfig,
              Running
<1>8. CASE ConfigMeasured \/ BenchDestroyHandle \/ BenchDestroyStream
             \/ BenchNext
  BY <1>8 DEF ConfigMeasured, BenchDestroyHandle, BenchDestroyStream,
              BenchNext, Running
<1>9. CASE OpenFile \/ WriteLine \/ CloseFile
  BY <1>9 DEF OpenFile, WriteLine, CloseFile, Running
<1>10. CASE ProfileLaunch \/ ProfileSync \/ ProfileDestroy
  BY <1>10 DEF ProfileLaunch, ProfileSync, ProfileDestroy, Running
<1>11. CASE Terminated
  BY <1>11 DEF Terminated
<1> QED
  BY <1>1, <1>2, <1>3, <1>4, <1>5, <1>6, <1>7, <1>8, <1>9, <1>10, <1>11
  DEF Next

\* Every step of the running program keeps it, or ends the program with what
\* is claimed of the end.
LEMMA RunningStep ==
  ASSUME Alive, Next
  PROVE  Continues \/ Finishes
<1>1. CASE Main
  BY <1>1, MainStep
<1>2. CASE Problem
  BY <1>2, ProblemStep
<1>3. CASE Die
  BY <1>3, DieStep
<1>4. CASE VerifyHandle
  BY <1>4, VerifyHandleStep
<1>5. CASE Reference
  BY <1>5, ReferenceStep
<1>6. CASE ReferenceSync
  BY <1>6, ReferenceSyncStep
<1>7. CASE ReferenceDestroy
  BY <1>7, ReferenceDestroyStep
<1>8. CASE VerifyLaunch
  BY <1>8, VerifyLaunchStep
<1>9. CASE VerifySync
  BY <1>9, VerifySyncStep
<1>10. CASE VerifyCompare
  BY <1>10, VerifyCompareStep
<1>11. CASE SkipConfig
  BY <1>11, SkipConfigStep
<1>12. CASE VerifySummary
  BY <1>12, VerifySummaryStep
<1>13. CASE VerifyNext
  BY <1>13, VerifyNextStep
<1>14. CASE VerifyDestroy
  BY <1>14, VerifyDestroyStep
<1>15. CASE WarmupLaunch
  BY <1>15, WarmupLaunchStep
<1>16. CASE WarmupSync
  BY <1>16, WarmupSyncStep
<1>17. CASE CreateStart
  BY <1>17, CreateStartStep
<1>18. CASE CreateStop
  BY <1>18, CreateStopStep
<1>19. CASE RecordStart
  BY <1>19, RecordStartStep
<1>20. CASE TimedLaunch
  BY <1>20, TimedLaunchStep
<1>21. CASE RecordStop
  BY <1>21, RecordStopStep
<1>22. CASE StopSync
  BY <1>22, StopSyncStep
<1>23. CASE Elapsed
  BY <1>23, ElapsedStep
<1>24. CASE Stream
  BY <1>24, StreamStep
<1>25. CASE BenchHandle
  BY <1>25, BenchHandleStep
<1>26. CASE SetStream
  BY <1>26, SetStreamStep
<1>27. CASE CublasMeasured
  BY <1>27, CublasMeasuredStep
<1>28. CASE BenchConfig
  BY <1>28, BenchConfigStep
<1>29. CASE ConfigMeasured
  BY <1>29, ConfigMeasuredStep
<1>30. CASE BenchDestroyHandle
  BY <1>30, BenchDestroyHandleStep
<1>31. CASE BenchDestroyStream
  BY <1>31, BenchDestroyStreamStep
<1>32. CASE BenchNext
  BY <1>32, BenchNextStep
<1>33. CASE OpenFile
  BY <1>33, OpenFileStep
<1>34. CASE WriteLine
  BY <1>34, WriteLineStep
<1>35. CASE CloseFile
  BY <1>35, CloseFileStep
<1>36. CASE ProfileLaunch
  BY <1>36, ProfileLaunchStep
<1>37. CASE ProfileSync
  BY <1>37, ProfileSyncStep
<1>38. CASE ProfileDestroy
  BY <1>38, ProfileDestroyStep
<1>39. CASE Terminated
  BY <1>39 DEF Terminated, Alive
<1> QED
  BY <1>1, <1>2, <1>3, <1>4, <1>5, <1>6, <1>7, <1>8, <1>9, <1>10, <1>11,
     <1>12, <1>13, <1>14, <1>15, <1>16, <1>17, <1>18, <1>19, <1>20, <1>21,
     <1>22, <1>23, <1>24, <1>25, <1>26, <1>27, <1>28, <1>29, <1>30, <1>31,
     <1>32, <1>33, <1>34, <1>35, <1>36, <1>37, <1>38, <1>39 DEF Next

LEMMA Stutters ==
  ASSUME DriverInv, UNCHANGED vars
  PROVE  DriverInv'
<1>1. UNCHANGED <<cmd, at, cuda, held, tally, results, best, best_results,
                  all_ok, file, exit, seen>>
  BY DEF vars, report
<1>2. DriverTypes'
  BY <1>1
  DEF DriverInv, DriverTypes, Places, Devices, Tallies, Bests, Histories,
      FileLines, Files
<1>3. Ordered'
  BY <1>1 DEF DriverInv, Ordered
<1>4. /\ Single' = Single /\ Phase' = Phase /\ Supported' = Supported
      /\ OfCublas' = OfCublas /\ OfConfig' = OfConfig /\ InBench' = InBench
      /\ Behind' = Behind /\ ShapesDone' = ShapesDone /\ Fresh' = Fresh
      /\ Counting' = Counting /\ Lost' = Lost
      /\ NothingToRank' = NothingToRank
      /\ Finished(Phase)' = Finished(Phase) /\ Served(at.s)' = Served(at.s)
  BY <1>1
  DEF Single, Phase, Supported, config_supports_problem, OfCublas, OfConfig,
      InBench, Behind, ShapesDone, Fresh, Counting, Lost, NothingToRank,
      Finished, Served, Supports, Launcher, Timing, VerifyLoop
<1>5. ASSUME exit = "running"
      PROVE  RunningInv'
  <2>1. ControlOK'
    BY <1>1, <1>4, <1>5 DEF DriverInv, RunningInv, ControlOK
  <2>2. HeldOK' /\ DeviceOK' /\ FailuresOK'
    BY <1>1, <1>4, <1>5
    DEF DriverInv, RunningInv, HeldOK, DeviceOK, FailuresOK, HasHandle,
        HasStream, HasStart, HasStop
  <2>3. FreshOK' /\ CountsOK'
    BY <1>1, <1>4, <1>5
    DEF DriverInv, RunningInv, DataInv, FreshOK, CountsOK, CountsFit
  <2>4. SummaryOK' /\ SingleOK'
    BY <1>1, <1>4, <1>5
    DEF DriverInv, RunningInv, DataInv, SummaryOK, SingleOK, CountersAddUp,
        Unsupported, config_supports_problem
  <2>5. RecordsOK' /\ DoneOK'
    BY <1>1, <1>4, <1>5
    DEF DriverInv, RunningInv, DataInv, RecordsOK, RecordsOf, DoneOK,
        Recorded, Supports, config_supports_problem
  <2>6. RankingOK' /\ LinesOK'
    BY <1>1, <1>4, <1>5
    DEF DriverInv, RunningInv, DataInv, RankingOK, ResultsOK, BestOK, LinesOK,
        Lines
  <2> QED
    BY <2>1, <2>2, <2>3, <2>4, <2>5, <2>6 DEF RunningInv, DataInv
<1>6. ASSUME exit # "running"
      PROVE  EndedInv'
  <2>1. SuccessIsEarned' /\ FailureHasCause'
    BY <1>1, <1>4, <1>6
    DEF DriverInv, EndedInv, SuccessIsEarned, FailureHasCause, Wanted,
        config_supports_problem, Single
  <2>2. NothingLeft' /\ BestFile'
    BY <1>1, <1>6
    DEF DriverInv, EndedInv, NothingLeft, Returned, BestFile
  <2> QED
    BY <2>1, <2>2 DEF EndedInv
<1> QED
  BY <1>1, <1>2, <1>3, <1>5, <1>6 DEF DriverInv

LEMMA StepInv ==
  ASSUME DriverInv, [Next]_vars
  PROVE  DriverInv'
<1>1. CASE UNCHANGED vars
  BY <1>1, Stutters
<1>2. CASE exit # "running" /\ Next
  BY <1>2, EndedStays, Stutters
<1>3. CASE exit = "running" /\ Next
  <2>1. Continues \/ Finishes
    BY <1>3, RunningStep DEF DriverInv, Alive
  <2> QED
    BY <2>1 DEF Continues, Finishes, DriverInv
<1> QED
  BY <1>1, <1>2, <1>3

\* The driver keeps its invariant, whatever fails.
THEOREM DriverCorrect == Spec => []DriverInv
<1>1. Init => DriverInv
  BY InitInv
<1>2. DriverInv /\ [Next]_vars => DriverInv'
  BY StepInv
<1> QED
  BY <1>1, <1>2, PTL DEF Spec

-----------------------------------------------------------------------------
(* What the invariant says of the runs' properties.                        *)

\* The variables of test.cpp keep their types; no second handle, stream or
\* event is created, and none is destroyed that does not exist.
THEOREM DriverTypeCorrect == Spec => []TypeOK
<1>1. DriverInv => TypeOK
  BY DEF DriverInv, DriverTypes, TypeOK, Devices, Tallies, Bests, Files
<1> QED
  BY <1>1, DriverCorrect, PTL

\* main returns EXIT_SUCCESS only if no call of the CUDA runtime or cuBLAS
\* failed, no kernel faulted, and every configuration of every shape and
\* phase of the command line was run to its end.
THEOREM DriverSuccessIsEarned == Spec => []SuccessIsEarned
<1>1. DriverInv => SuccessIsEarned
  <2>1. exit = "running" => SuccessIsEarned
    BY DEF SuccessIsEarned
  <2> QED
    BY <2>1 DEF DriverInv, EndedInv
<1> QED
  BY <1>1, DriverCorrect, PTL

\* main returns EXIT_FAILURE only for a wrong command line, a call that
\* failed, a kernel that faulted, an output out of tolerance, or a shape that
\* no configuration divides: never when all went well.
THEOREM DriverFailureHasCause == Spec => []FailureHasCause
<1>1. DriverInv => FailureHasCause
  <2>1. exit = "running" => FailureHasCause
    BY DEF FailureHasCause
  <2> QED
    BY <2>1 DEF DriverInv, EndedInv
<1> QED
  BY <1>1, DriverCorrect, PTL

\* The counters print_summary reports for a shape add up to the number of
\* configurations, and passed is the number of those really run to the end.
THEOREM DriverCountersAddUp == Spec => []CountersAddUp
<1>1. DriverInv => CountersAddUp
  <2>1. exit # "running" => CountersAddUp
    BY DEF CountersAddUp
  <2>2. ASSUME DriverInv, exit = "running",
               at.pc \in {"verify_next", "bench_next"}, ~ Single
        PROVE  CountersAddUp
    BY <2>2 DEF DriverInv, RunningInv, DataInv, SummaryOK
  <2>3. ~ (at.pc \in {"verify_next", "bench_next"} /\ ~ Single)
          => CountersAddUp
    BY DEF CountersAddUp
  <2> QED
    BY <2>1, <2>2, <2>3
<1> QED
  BY <1>1, DriverCorrect, PTL

\* The configuration the selection loop keeps is ahead of all the others in
\* the order of print_benchmark_ranking.
LEMMA NothingPrecedes ==
  ASSUME ResultsOK, BestOK, best.config # Null, NEW y \in Ranked
  PROVE  ~ Precedes(y, best.config)
<1> DEFINE a == results[y]
           b == results[best.config]
<1>1. /\ y \in DOMAIN results /\ best.config \in DOMAIN results /\ b.ok
      /\ best.throughput = b.throughput
  BY DEF Ranked, BestOK
<1>2. a \in Result /\ b \in Result /\ y \in Nat /\ best.config \in Nat
  BY <1>1 DEF ResultsOK
<1>3. /\ a.ok => a.throughput <= b.throughput
      /\ a.ok /\ y < best.config => a.throughput < b.throughput
  BY <1>1 DEF BestOK
<1>4. a.ok => a.ok = b.ok
  BY <1>1, <1>2 DEF Result
<1>5. CASE ~ a.ok
  BY <1>1, <1>5 DEF Precedes
<1>6. CASE a.ok /\ a.throughput # b.throughput
  <2>1. ~ (a.throughput > b.throughput)
    BY <1>2, <1>3, <1>6 DEF Result
  <2> QED
    BY <1>4, <1>6, <2>1 DEF Precedes
<1>7. CASE a.ok /\ a.throughput = b.throughput
  <2>1. a.latency = b.latency
    <3>1. a.latency \in Latencies /\ b.latency \in Latencies
      BY <1>1, <1>7 DEF ResultsOK
    <3>2. gemm_tflops(a.latency) = gemm_tflops(b.latency)
      BY <1>1, <1>7 DEF ResultsOK
    <3> QED
      BY <3>1, <3>2, ThroughputTells
  <2>2. ~ (y < best.config)
    BY <1>2, <1>3, <1>7 DEF Result
  <2> QED
    BY <1>4, <1>7, <2>1, <2>2 DEF Precedes
<1> QED
  BY <1>5, <1>6, <1>7

\* The configuration of the BEST line is the first of the printed ranking;
\* run_benchmark's selection loop and the sort agree on every tie.
THEOREM DriverBestLeadsRanking == Spec => []BestLeadsRanking
<1>1. DriverInv => BestLeadsRanking
  <2> SUFFICES ASSUME DriverInv, exit = "running", at.pc = "bench_next",
                      ~ Single
               PROVE  IF best.config = Null
                      THEN \A x \in Ranked : ~ results[x].ok
                      ELSE best.config \in Ranked /\ Rank(best.config) = 1
    BY DEF BestLeadsRanking
  <2>1. ResultsOK /\ BestOK
    BY DEF DriverInv, RunningInv, DataInv, RankingOK
  <2>2. CASE best.config = Null
    BY <2>1, <2>2 DEF BestOK, Ranked
  <2>3. CASE best.config # Null
    <3>1. best.config \in Ranked
      BY <2>1, <2>3 DEF BestOK, ResultsOK, Ranked
    <3>2. {y \in Ranked : Precedes(y, best.config)} = {}
      BY <2>1, <2>3, NothingPrecedes
    <3>3. Rank(best.config) = 1
      BY <3>2, FS_EmptySet DEF Rank
    <3> QED
      BY <2>3, <3>1, <3>3
  <2> QED
    BY <2>2, <2>3
<1> QED
  BY <1>1, DriverCorrect, PTL

\* On whichever of its returns main ends, every handle, stream and event has
\* been destroyed and BEST.txt is closed.
THEOREM DriverNothingLeft == Spec => []NothingLeft
<1>1. DriverInv => NothingLeft
  <2>1. exit = "running" => NothingLeft
    BY DEF NothingLeft, Returned
  <2> QED
    BY <2>1 DEF DriverInv, EndedInv
<1> QED
  BY <1>1, DriverCorrect, PTL

\* What write_best_results_file writes is a beginning of the lines of the
\* shapes, in their order, and all of them when main returns EXIT_SUCCESS.
THEOREM DriverBestFile == Spec => []BestFile
<1>1. DriverInv => BestFile
  <2>1. ASSUME DriverInv, exit = "running"
        PROVE  BestFile
    <3>1. file.state # "old" => Lines
      BY <2>1 DEF DriverInv, RunningInv, DataInv, LinesOK
    <3> QED
      BY <2>1, <3>1 DEF BestFile, Ordered, Lines, DriverInv
  <2> QED
    BY <2>1 DEF DriverInv, EndedInv
<1> QED
  BY <1>1, DriverCorrect, PTL
=============================================================================
