----------------------------- MODULE GemmDriver -----------------------------
(***************************************************************************)
(* The host program gemm/test.cpp: it verifies and times every generated   *)
(* configuration on a list of shapes and reports through counters, a       *)
(* ranking, BEST.txt and its exit status.                                  *)
(*                                                                         *)
(* The program is sequential; what makes it hard is the device.  A kernel  *)
(* may fault after its launch has returned, the fault shows at some later  *)
(* call and from then on every call fails.  A call may also fail for       *)
(* itself, and leaves its error behind until cudaGetLastError is called.   *)
(* Every call that can fail is an action, with the statements up to the    *)
(* next one; at.pc names the call that comes next.                         *)
(***************************************************************************)
EXTENDS Integers, Sequences, FiniteSets

CONSTANTS
  kGemmConfigs,         \* sequence of records [bm, bn, bk]
  kTestShapes,          \* sequence of records [M, N, K]
  FuncShape,            \* the shape of --func
  CustomShapes,         \* shapes a user may give on the command line
  kWarmupIterations, kBenchmarkIterations,
  Latencies,            \* what cudaEventElapsedTime may return
  Flops,                \* operations of a problem, divisible by latencies
  MaxFaults             \* bound on the failures of one execution

ASSUME DriverAssumption ==
  /\ kWarmupIterations \in Nat /\ kBenchmarkIterations \in Nat \ {0}
  /\ Latencies \subseteq Nat /\ Flops \in Nat \ {0} /\ MaxFaults \in Nat
  /\ \A ms \in Latencies \ {0} : Flops % ms = 0
ASSUME ListsAssumption ==
  /\ kGemmConfigs \in Seq([bm : Nat \ {0}, bn : Nat \ {0}, bk : Nat \ {0}])
  /\ kTestShapes \in Seq([M : Nat \ {0}, N : Nat \ {0}, K : Nat \ {0}])
  /\ kTestShapes # << >>

kGemmConfigCount == Len(kGemmConfigs)
ConfigIds == 1 .. kGemmConfigCount
Null == 0              \* no configuration

AllConfigModes == {"verify", "benchmark", "shape_benchmark", "shape_test"}
SingleModes == {"func", "func_verify", "func_benchmark", "profile"}
Modes == AllConfigModes \cup SingleModes \cup {"usage"}

\* The phases of a command line, in their order.
Phases(mode) ==
  CASE mode \in {"verify", "func_verify"} -> <<"verify">>
    [] mode \in {"benchmark", "shape_benchmark", "func_benchmark"} ->
         <<"benchmark">>
    [] mode \in {"shape_test", "func"} -> <<"verify", "benchmark">>
    [] OTHER -> <<mode>>

Events == {"start", "stop"}
Objects == Events \cup {"handle", "stream"}

\* How an element of the output compares with the reference: abs_diff is
\* within the allowance, beyond it, or not a number.
Differences == {"close", "far", "nan"}

VARIABLES
  cmd,          \* command line: mode and shapes
  at,           \* control: next call, phase, loop variables, launcher result
  cuda,         \* context, error left behind by a call, failures so far
  held,         \* how many of each kind of object exist
  tally,        \* VerifySummary or BenchmarkShapeResult of this shape
  results,      \* summaries: results of the configurations of this shape
  best,         \* shape_result.best
  best_results, \* lines for BEST.txt
  all_ok,       \* all_ok, or the conjunction a function returns
  file,         \* BEST.txt: "old", "open" or "closed", and its lines
  exit,         \* status of the process
  seen          \* history, for the properties

report == <<tally, results, best, best_results>>
vars == <<cmd, at, cuda, held, report, all_ok, file, exit, seen>>

NoTally == [passed |-> 0, failed |-> 0, skipped |-> 0, ok |-> TRUE]
LostTally ==
  [passed |-> 0, failed |-> kGemmConfigCount, skipped |-> 0, ok |-> FALSE]
NoBest == [config |-> Null, latency |-> 0, throughput |-> 0]

Commands ==
  [mode : {"verify", "benchmark"}, shapes : {kTestShapes}]
    \cup [mode : {"shape_benchmark", "shape_test", "profile"},
          shapes : {<<x>> : x \in CustomShapes}]
    \cup [mode : {"func", "func_verify", "func_benchmark", "usage"},
          shapes : {<<FuncShape>>}]

Init ==
  /\ cmd \in Commands
  /\ at = [pc |-> "main", phase |-> 1, s |-> 1, i |-> 1, n |-> 0,
           timing |-> "cublas", ok |-> TRUE, ms |-> 0]
  /\ cuda = [ctx |-> "live", last |-> FALSE, faults |-> 0]
  /\ held = [o \in Objects |-> 0]
  /\ tally = NoTally /\ results = <<>> /\ best = NoBest
  /\ best_results = <<>> /\ all_ok = TRUE
  /\ file = [state |-> "old", lines |-> <<>>]
  /\ exit = "running"
  /\ seen = [blemish |-> FALSE, done |-> {}, accepted |-> {}]

Single == cmd.mode \in SingleModes
Phase == Phases(cmd.mode)[at.phase]
config_supports_problem(c, shape) ==
  LET config == kGemmConfigs[c]
  IN  /\ shape.M % config.bm = 0 /\ shape.N % config.bn = 0
      /\ shape.K % config.bk = 0
Supported == config_supports_problem(at.i, cmd.shapes[at.s])

-----------------------------------------------------------------------------
(* The CUDA runtime and cuBLAS, as far as the program sees them.           *)

Room == cuda.faults < MaxFaults

\* A call succeeds.  One that waits for the device cannot overlook a fault.
Succeeds(waits) ==
  /\ cuda.ctx \in (IF waits THEN {"live"} ELSE {"live", "faulting"})
  /\ UNCHANGED cuda

\* A call reports the fault of a kernel, or fails for itself; the error of
\* a runtime call stays behind, cuBLAS may have consumed it.
Fails(left) ==
  \/ cuda.ctx # "live" /\ cuda' = [cuda EXCEPT !.ctx = "dead"]
  \/ /\ cuda.ctx = "live" /\ Room
     /\ \E l \in left :
          cuda' = [cuda EXCEPT !.faults = @ + 1, !.last = @ \/ l]

Noted(ok) ==
  seen' = [seen EXCEPT !.blemish = @ \/ ~ ok]

Checked(ok, waits) ==
  (IF ok THEN Succeeds(waits) ELSE Fails({TRUE})) /\ Noted(ok)
CheckedCublas(ok) ==
  (IF ok THEN Succeeds(FALSE) ELSE Fails(BOOLEAN)) /\ Noted(ok)

\* config.run and cudaGetLastError.  The launch may start a kernel that
\* faults; an error an earlier call has left behind fails the launch.
Launch(ok) ==
  IF ok
  THEN /\ cuda.ctx # "dead" /\ ~ cuda.last
       /\ \/ UNCHANGED cuda
          \/ /\ cuda.ctx = "live" /\ Room
             /\ cuda' = [cuda EXCEPT !.ctx = "faulting", !.faults = @ + 1]
       /\ UNCHANGED seen
  ELSE IF cuda.ctx = "live" /\ cuda.last
  THEN cuda' = [cuda EXCEPT !.last = FALSE] /\ Noted(FALSE)
  ELSE Fails({FALSE}) /\ Noted(FALSE)

Created(os) == [o \in Objects |-> IF o \in os THEN held[o] + 1 ELSE held[o]]
Destroyed(os) == [o \in Objects |-> IF o \in os THEN held[o] - 1 ELSE held[o]]

-----------------------------------------------------------------------------
(* Control.                                                                *)

Running(here) == exit = "running" /\ at.pc = here
Go(next) == at' = [at EXCEPT !.pc = next]
Exit(ok) == exit' = IF ok THEN "success" ELSE "failure"

\* An exception of a thrust container, or the exit in CUTE_CHECK_ERROR and
\* CUTE_CHECK_LAST of the launcher gemm_tn, ends the process.
FatalCalls ==
  {"problem", "reference", "reference_sync", "verify_config",
   "verify_compare", "verify_next", "warmup", "timed", "profile_launch",
   "bench_next"}
Die ==
  /\ exit = "running" /\ at.pc \in FatalCalls
  /\ at.pc \in {"warmup", "timed"} => at.timing # "cublas"
  /\ Room \/ cuda.last \/ cuda.ctx # "live"
  /\ exit' = "died"
  /\ UNCHANGED <<cmd, at, cuda, held, report, all_ok, file, seen>>

\* The next phase of a command line with two phases, or the end of it.
Ended(ok) ==
  /\ all_ok' = (all_ok /\ ok)
  /\ IF at.phase < Len(Phases(cmd.mode))
     THEN /\ at' = [at EXCEPT !.phase = @ + 1, !.s = 1,
                      !.pc = IF Single THEN "stream" ELSE "problem"]
          /\ UNCHANGED exit
     ELSE Exit(all_ok') /\ UNCHANGED at

\* main, and the beginning of run_func and run_profile.  A query stands for
\* the set of configurations it matches; find_config wants exactly one.
find_config(matches) ==
  IF Cardinality(matches) = 1 THEN CHOOSE c \in matches : TRUE ELSE Null

Main ==
  /\ Running("main")
  /\ CASE cmd.mode \in AllConfigModes ->
            /\ Go(IF Phase = "verify" THEN "handle" ELSE "problem")
            /\ UNCHANGED <<exit, seen>>
       [] cmd.mode = "usage" -> Exit(FALSE) /\ UNCHANGED <<at, seen>>
       [] OTHER ->
            \E matches \in SUBSET ConfigIds :
              LET c == find_config(matches) IN
              IF c # Null /\ config_supports_problem(c, cmd.shapes[1])
              THEN /\ at' = [at EXCEPT !.pc = "problem", !.i = c]
                   /\ UNCHANGED <<exit, seen>>
              ELSE /\ Exit(FALSE)
                   /\ seen' = [seen EXCEPT !.blemish = TRUE]
                   /\ UNCHANGED at
  /\ UNCHANGED <<cmd, cuda, held, report, all_ok, file>>

\* GemmProblem: allocations and copies, which throw when they fail.
Problem ==
  /\ Running("problem")
  /\ Succeeds(TRUE)
  /\ Go(CASE Phase # "verify" -> "stream"
          [] Phase = "verify" /\ Single -> "handle"
          [] OTHER -> "reference")
  /\ tally' = NoTally /\ results' = <<>> /\ best' = NoBest
  /\ UNCHANGED <<cmd, held, best_results, all_ok, file, exit, seen>>

-----------------------------------------------------------------------------
(* Verification.                                                           *)

\* cublasCreate of run_verify, run_shape_test and verify_single_config.
VerifyHandle ==
  /\ Running("handle") /\ Phase = "verify"
  /\ \E ok \in BOOLEAN :
       /\ CheckedCublas(ok)
       /\ held' = Created(IF ok THEN {"handle"} ELSE {})
       /\ CASE ok -> /\ Go(IF Single THEN "reference" ELSE "problem")
                     /\ UNCHANGED <<exit, all_ok>>
            [] ~ ok /\ Single -> Ended(FALSE)
            [] OTHER -> Exit(FALSE) /\ UNCHANGED <<at, all_ok>>
  /\ UNCHANGED <<cmd, report, file>>

\* Where compute_cublas_reference returns to.
ReferenceReturns(ok) ==
  IF Single
  THEN /\ at' = [at EXCEPT !.pc = "reference_destroy", !.ok = ok]
       /\ UNCHANGED tally
  ELSE /\ at' = [at EXCEPT !.pc = IF ok THEN "verify_config"
                                        ELSE "verify_next", !.i = 1]
       /\ tally' = IF ok THEN tally ELSE LostTally

Reference ==
  /\ Running("reference")
  /\ \E ok \in BOOLEAN :
       /\ CheckedCublas(ok)
       /\ IF ok THEN Go("reference_sync") /\ UNCHANGED tally
                ELSE ReferenceReturns(FALSE)
  /\ UNCHANGED <<cmd, held, results, best, best_results, all_ok, file, exit>>

ReferenceSync ==
  /\ Running("reference_sync")
  /\ \E ok \in BOOLEAN : Checked(ok, TRUE) /\ ReferenceReturns(ok)
  /\ UNCHANGED <<cmd, held, results, best, best_results, all_ok, file, exit>>

\* verify_single_config gives the handle back before it runs the kernel.
ReferenceDestroy ==
  /\ Running("reference_destroy")
  /\ held' = Destroyed({"handle"})
  /\ \E ok \in BOOLEAN :
       /\ CheckedCublas(ok)
       /\ IF at.ok /\ ok THEN Go("verify_config") /\ UNCHANGED <<exit, all_ok>>
                         ELSE Ended(FALSE)
  /\ UNCHANGED <<cmd, report, file>>

\* The result of verify_one_config goes into the summary of the shape, or
\* is the result of the phase.
Verified(passed) ==
  IF Single
  THEN Ended(passed) /\ UNCHANGED tally
  ELSE /\ at' = [at EXCEPT !.pc = "verify_config", !.i = @ + 1]
       /\ tally' = IF passed THEN [tally EXCEPT !.passed = @ + 1]
                             ELSE [tally EXCEPT !.failed = @ + 1]
       /\ UNCHANGED <<exit, all_ok>>

VerifyLaunch ==
  /\ Running("verify_config") /\ at.i <= kGemmConfigCount /\ Supported
  /\ cuda.ctx # "dead"                  \* device_C = host_C_init
  /\ \E ok \in BOOLEAN :
       /\ Launch(ok)
       /\ IF ok THEN Go("verify_sync") /\ UNCHANGED <<tally, exit, all_ok>>
                ELSE Verified(FALSE)
  /\ UNCHANGED <<cmd, held, results, best, best_results, file>>

\* cudaDeviceSynchronize of verify_one_config.
VerifySync ==
  /\ Running("verify_sync")
  /\ \E ok \in BOOLEAN :
       /\ Checked(ok, TRUE)
       /\ IF ok THEN Go("verify_compare") /\ UNCHANGED <<tally, exit, all_ok>>
                ELSE Verified(FALSE)
  /\ UNCHANGED <<cmd, held, results, best, best_results, file>>

\* abs_diff > allowed: a comparison with a NaN is false.
Mismatch(difference) == difference = "far"
verify_result(output) == \A d \in output : ~ Mismatch(d)

VerifyCompare ==
  /\ Running("verify_compare")
  /\ cuda.ctx = "live"                  \* host_C_gemm = device_C
  /\ \E output \in SUBSET Differences \ {{}} :
       LET passed == verify_result(output) IN
       /\ Verified(passed)
       /\ seen' = [seen EXCEPT
            !.blemish = @ \/ "far" \in output,
            !.done = IF passed THEN @ \cup {<<"verify", at.s, at.i>>} ELSE @,
            !.accepted = IF passed THEN @ \cup output ELSE @]
  /\ UNCHANGED <<cmd, cuda, held, results, best, best_results, file>>

\* A configuration that does not divide the shape, in both loops.
\* Mutant: it is not counted.
SkippedTally_Forgotten == tally
SkippedTally == [tally EXCEPT !.skipped = @ + 1]

SkippedResult ==
  [ok |-> FALSE, skipped |-> TRUE, latency |-> 0, throughput |-> 0]

SkipConfig ==
  /\ exit = "running" /\ at.pc \in {"verify_config", "bench_config"}
  /\ at.i <= kGemmConfigCount /\ ~ Single /\ ~ Supported
  /\ at' = [at EXCEPT !.i = @ + 1]
  /\ tally' = SkippedTally
  /\ results' = IF at.pc = "bench_config" THEN Append(results, SkippedResult)
                                          ELSE results
  /\ UNCHANGED <<cmd, cuda, held, best, best_results, all_ok, file, exit,
                 seen>>

\* shape_result.failed and summary.failed at the end of a loop.
\* Mutant: those skipped count as failed.
TotalFailed_Skipped == kGemmConfigCount - tally.passed
TotalFailed == kGemmConfigCount - tally.passed - tally.skipped

VerifySummary ==
  /\ Running("verify_config") /\ at.i > kGemmConfigCount
  /\ Go("verify_next")
  /\ tally' = [tally EXCEPT !.failed = TotalFailed]
  /\ UNCHANGED <<cmd, cuda, held, results, best, best_results, all_ok, file,
                 exit, seen>>

\* Loop of run_verify; run_shape_test has one shape.
VerifyNext ==
  /\ Running("verify_next")
  /\ all_ok' = (all_ok /\ tally.ok /\ tally.failed = 0)
  /\ at' = IF at.s < Len(cmd.shapes)
           THEN [at EXCEPT !.pc = "problem", !.s = @ + 1]
           ELSE [at EXCEPT !.pc = "verify_destroy"]
  /\ UNCHANGED <<cmd, cuda, held, report, file, exit, seen>>

\* CHECK_CUBLAS(cublasDestroy(handle)).
VerifyDestroy ==
  /\ Running("verify_destroy")
  /\ held' = Destroyed({"handle"})
  /\ \E ok \in BOOLEAN :
       /\ CheckedCublas(ok)
       /\ IF ok THEN Ended(TRUE)
                ELSE Exit(FALSE) /\ UNCHANGED <<at, all_ok>>
  /\ UNCHANGED <<cmd, report, file>>

-----------------------------------------------------------------------------
(* benchmark_launcher, for cuBLAS and for one configuration; the warm-up   *)
(* loop of run_profile has the same form.                                  *)

StartLauncher(timing) ==
  at' = [at EXCEPT !.pc = "warmup", !.n = 0, !.timing = timing]
LauncherReturns(ok) == at' = [at EXCEPT !.pc = "measured", !.n = 0, !.ok = ok]

LaunchTimed(ok) ==
  IF at.timing = "cublas" THEN CheckedCublas(ok) ELSE Launch(ok)

\* Loop increment of both launch loops.
\* Mutant: it is forgotten.
AfterLaunch_Same == at
AfterLaunch == [at EXCEPT !.n = @ + 1]

WarmupLaunch ==
  /\ Running("warmup") /\ at.n < kWarmupIterations
  /\ \E ok \in BOOLEAN :
       /\ LaunchTimed(ok)
       /\ IF ok THEN at' = AfterLaunch ELSE LauncherReturns(FALSE)
  /\ UNCHANGED <<cmd, held, report, all_ok, file, exit>>

WarmupSync ==
  /\ Running("warmup") /\ at.n = kWarmupIterations
  /\ \E ok \in BOOLEAN :
       /\ Checked(ok, TRUE)
       /\ IF ok
          THEN at' = [at EXCEPT !.n = 0, !.pc =
                 IF at.timing = "profile" THEN "profile_launch"
                                          ELSE "create_start"]
          ELSE LauncherReturns(FALSE)
  /\ UNCHANGED <<cmd, held, report, all_ok, file, exit>>

\* A checked call of the launcher, the objects it creates, and those the
\* early return destroys when it fails.
LauncherCall(here, next, waits, creates, destroys) ==
  /\ Running(here)
  /\ \E ok \in BOOLEAN :
       /\ Checked(ok, waits)
       /\ IF ok THEN Go(next) /\ held' = Created(creates)
                ELSE LauncherReturns(FALSE) /\ held' = Destroyed(destroys)
  /\ UNCHANGED <<cmd, report, all_ok, file, exit>>

CreateStart ==
  LauncherCall("create_start", "create_stop", FALSE, {"start"}, {})

\* Mutants: the early return leaves start behind; or destroys both.
CreateStop_Leak ==
  LauncherCall("create_stop", "record_start", FALSE, {"stop"}, {})
CreateStop_Both ==
  LauncherCall("create_stop", "record_start", FALSE, {"stop"}, Events)
CreateStop ==
  LauncherCall("create_stop", "record_start", FALSE, {"stop"}, {"start"})

RecordStart == LauncherCall("record_start", "timed", FALSE, {}, Events)

TimedLaunch ==
  /\ Running("timed") /\ at.n < kBenchmarkIterations
  /\ \E ok \in BOOLEAN :
       /\ LaunchTimed(ok)
       /\ IF ok THEN at' = AfterLaunch /\ UNCHANGED held
                ELSE LauncherReturns(FALSE) /\ held' = Destroyed(Events)
  /\ UNCHANGED <<cmd, report, all_ok, file, exit>>

RecordStop ==
  /\ at.n = kBenchmarkIterations
  /\ LauncherCall("timed", "stop_sync", FALSE, {}, Events)

\* cudaEventSynchronize(stop).
\* Mutant: the program goes on without waiting.
StopSync_NoWait == LauncherCall("stop_sync", "elapsed", FALSE, {}, Events)
StopSync == LauncherCall("stop_sync", "elapsed", TRUE, {}, Events)

Elapsed ==
  /\ Running("elapsed")
  /\ held' = Destroyed(Events)
  /\ \E ok \in BOOLEAN, ms \in Latencies :
       /\ Checked(ok, FALSE)
       /\ at' = [at EXCEPT !.pc = "measured", !.n = 0, !.ok = ok,
                           !.ms = IF ok THEN ms ELSE 0]
  /\ UNCHANGED <<cmd, report, all_ok, file, exit>>

gemm_tflops(latency) == IF latency <= 0 THEN 0 ELSE Flops \div latency

-----------------------------------------------------------------------------
(* Benchmarks.                                                             *)

\* An early return before any configuration has run.
BenchmarkLost(destroys) ==
  /\ Go("bench_next")
  /\ tally' = LostTally
  /\ held' = Destroyed(destroys)

Stream ==
  /\ Running("stream")
  /\ \E ok \in BOOLEAN :
       /\ Checked(ok, FALSE)
       /\ CASE ok /\ Phase = "profile" ->
                 StartLauncher("profile") /\ held' = Created({"stream"})
                 /\ UNCHANGED <<tally, exit>>
            [] ok /\ Phase # "profile" ->
                 Go("bench_handle") /\ held' = Created({"stream"})
                 /\ UNCHANGED <<tally, exit>>
            [] ~ ok /\ Phase = "profile" ->
                 Exit(FALSE) /\ UNCHANGED <<at, held, tally>>
            [] OTHER -> BenchmarkLost({}) /\ UNCHANGED exit
  /\ UNCHANGED <<cmd, results, best, best_results, all_ok, file>>

BenchHandle ==
  /\ Running("bench_handle")
  /\ \E ok \in BOOLEAN :
       /\ CheckedCublas(ok)
       /\ IF ok
          THEN Go("set_stream") /\ held' = Created({"handle"})
               /\ UNCHANGED tally
          ELSE BenchmarkLost({"stream"})
  /\ UNCHANGED <<cmd, results, best, best_results, all_ok, file, exit>>

SetStream ==
  /\ Running("set_stream")
  /\ \E ok \in BOOLEAN :
       /\ CheckedCublas(ok)
       /\ IF ok THEN StartLauncher("cublas") /\ UNCHANGED <<held, tally>>
                ELSE BenchmarkLost({"handle", "stream"})
  /\ UNCHANGED <<cmd, results, best, best_results, all_ok, file, exit>>

CublasMeasured ==
  /\ Running("measured") /\ at.timing = "cublas"
  /\ IF at.ok
     THEN /\ at' = [at EXCEPT !.pc = "bench_config", !.ms = 0,
                              !.i = IF Single THEN @ ELSE 1]
          /\ UNCHANGED <<held, tally>>
     ELSE BenchmarkLost({"handle", "stream"})
  /\ UNCHANGED <<cmd, cuda, results, best, best_results, all_ok, file, exit,
                 seen>>

BenchConfig ==
  /\ Running("bench_config") /\ at.i <= kGemmConfigCount /\ Supported
  /\ StartLauncher("config")
  /\ UNCHANGED <<cmd, cuda, held, report, all_ok, file, exit, seen>>

\* Whether a configuration replaces the best one so far.
\* Mutant: a tie goes to the later one.
Replaces_Later(r) == best.config = Null \/ r.throughput >= best.throughput
Replaces(r) == best.config = Null \/ r.throughput > best.throughput

ConfigMeasured ==
  /\ Running("measured") /\ at.timing = "config"
  /\ LET r == [ok |-> at.ok, skipped |-> FALSE, latency |-> at.ms,
               throughput |-> gemm_tflops(at.ms)]
     IN  /\ results' = Append(results, r)
         /\ best' = IF at.ok /\ Replaces(r)
                    THEN [config |-> at.i, latency |-> r.latency,
                          throughput |-> r.throughput]
                    ELSE best
  /\ tally' = IF at.ok THEN [tally EXCEPT !.passed = @ + 1] ELSE tally
  /\ seen' = IF at.ok
             THEN [seen EXCEPT !.done = @ \cup {<<"benchmark", at.s, at.i>>}]
             ELSE seen
  /\ at' = [at EXCEPT !.ms = 0,
              !.pc = IF Single THEN "bench_destroy" ELSE "bench_config",
              !.i = IF Single THEN @ ELSE @ + 1]
  /\ UNCHANGED <<cmd, cuda, held, best_results, all_ok, file, exit>>

\* cublasDestroy after the last configuration; the stream is destroyed
\* whatever it returns.
BenchDestroyHandle ==
  /\ \/ Running("bench_config") /\ at.i > kGemmConfigCount
     \/ Running("bench_destroy")
  /\ held' = Destroyed({"handle"})
  /\ \E ok \in BOOLEAN :
       /\ CheckedCublas(ok)
       /\ at' = [at EXCEPT !.pc = "destroy_stream", !.ok = ok]
  /\ UNCHANGED <<cmd, report, all_ok, file, exit>>

BenchDestroyStream ==
  /\ Running("destroy_stream")
  /\ held' = Destroyed({"stream"})
  /\ \E ok \in BOOLEAN :
       /\ Checked(ok, FALSE)
       /\ tally' = [tally EXCEPT !.ok = at.ok /\ ok, !.failed =
                      IF Single THEN 1 - tally.passed ELSE TotalFailed]
  /\ Go("bench_next")
  /\ UNCHANGED <<cmd, results, best, best_results, all_ok, file, exit>>

\* The order of print_benchmark_ranking, the skipped ones left out.
Precedes(x, y) ==
  LET a == results[x]
      b == results[y]
  IN  IF a.ok # b.ok THEN a.ok
      ELSE IF a.ok /\ a.throughput # b.throughput
      THEN a.throughput > b.throughput
      ELSE IF a.ok /\ a.latency # b.latency THEN a.latency < b.latency
      ELSE x < y                             \* std::stable_sort
Ranked == {x \in DOMAIN results : ~ results[x].skipped}
Rank(x) == 1 + Cardinality({y \in Ranked : Precedes(y, x)})

\* End of a shape: run_benchmark, run_shape_benchmark, run_shape_test and
\* benchmark_single_config.
ShapeOk == tally.ok /\ tally.failed = 0 /\ best.config # Null
BenchNext ==
  /\ Running("bench_next")
  /\ IF Phase = "benchmark" /\ cmd.mode = "benchmark"
     THEN /\ all_ok' = (all_ok /\ ShapeOk)
          /\ best_results' = IF best.config = Null THEN best_results
               ELSE Append(best_results, [shape |-> at.s, best |-> best])
          /\ at' = IF at.s < Len(cmd.shapes)
                   THEN [at EXCEPT !.pc = "problem", !.s = @ + 1]
                   ELSE [at EXCEPT !.pc = "open"]
          /\ UNCHANGED exit
     ELSE Ended(ShapeOk) /\ UNCHANGED best_results
  /\ UNCHANGED <<cmd, cuda, held, tally, results, best, file, seen>>

-----------------------------------------------------------------------------
(* BEST.txt: write_best_results_file.                                      *)

IoFails ==
  /\ Room /\ cuda' = [cuda EXCEPT !.faults = @ + 1]
  /\ seen' = [seen EXCEPT !.blemish = TRUE]

OpenFile ==
  /\ Running("open")
  /\ \/ /\ UNCHANGED <<cuda, seen, exit>>
        /\ file' = [state |-> "open", lines |-> <<>>]
        /\ at' = [at EXCEPT !.pc = "write", !.ok = TRUE]
     \/ IoFails /\ Exit(FALSE) /\ UNCHANGED <<at, file>>
  /\ UNCHANGED <<cmd, held, report, all_ok>>

WrittenAll == Len(file.lines) = Len(best_results)
NextLine == best_results[Len(file.lines) + 1]

\* Where the loop goes after a failing fputs.
\* Mutant: the error is printed and forgotten.
AfterWriteError_Forgotten ==
  at' = [at EXCEPT !.pc = "close"] /\ UNCHANGED exit
AfterWriteError ==
  at' = [at EXCEPT !.pc = "close", !.ok = FALSE] /\ UNCHANGED exit

WriteLine ==
  /\ Running("write") /\ ~ WrittenAll
  /\ \/ /\ file' = [file EXCEPT !.lines = Append(@, NextLine)]
        /\ UNCHANGED <<cuda, seen, at, exit>>
     \/ IoFails /\ AfterWriteError /\ UNCHANGED file
  /\ UNCHANGED <<cmd, held, report, all_ok>>

\* fclose; what was buffered may be lost when it fails.
CloseFile ==
  /\ Running("close") \/ (Running("write") /\ WrittenAll)
  /\ \/ /\ UNCHANGED <<cuda, seen>>
        /\ file' = [file EXCEPT !.state = "closed"]
        /\ Exit(at.ok /\ all_ok)
     \/ /\ IoFails
        /\ \E k \in 0 .. Len(file.lines) :
             file' = [state |-> "closed", lines |-> SubSeq(file.lines, 1, k)]
        /\ Exit(FALSE)
  /\ UNCHANGED <<cmd, at, held, report, all_ok>>

-----------------------------------------------------------------------------
(* run_profile after its warm-up.                                          *)

ProfileLaunch ==
  /\ Running("profile_launch")
  /\ \E ok \in BOOLEAN :
       /\ Launch(ok)
       /\ IF ok THEN Go("profile_sync") ELSE LauncherReturns(FALSE)
  /\ UNCHANGED <<cmd, held, report, all_ok, file, exit>>

ProfileSync ==
  /\ Running("profile_sync")
  /\ \E ok \in BOOLEAN :
       /\ IF ok
          THEN /\ Succeeds(TRUE)
               /\ seen' = [seen EXCEPT
                    !.done = @ \cup {<<"profile", at.s, at.i>>}]
          ELSE Checked(FALSE, TRUE)
       /\ LauncherReturns(ok)
  /\ UNCHANGED <<cmd, held, report, all_ok, file, exit>>

\* The result of cudaStreamDestroy is printed and then ignored.
ProfileDestroy ==
  /\ Running("measured") /\ at.timing = "profile"
  /\ held' = Destroyed({"stream"})
  /\ Succeeds(FALSE) \/ Fails({TRUE})
  /\ Exit(at.ok)
  /\ UNCHANGED <<cmd, at, report, all_ok, file, seen>>

Terminated == exit # "running" /\ UNCHANGED vars

Next ==
  \/ Main \/ Problem \/ Die
  \/ VerifyHandle \/ Reference \/ ReferenceSync \/ ReferenceDestroy
  \/ VerifyLaunch \/ VerifySync \/ VerifyCompare \/ SkipConfig
  \/ VerifySummary \/ VerifyNext \/ VerifyDestroy
  \/ WarmupLaunch \/ WarmupSync \/ CreateStart \/ CreateStop \/ RecordStart
  \/ TimedLaunch \/ RecordStop \/ StopSync \/ Elapsed
  \/ Stream \/ BenchHandle \/ SetStream \/ CublasMeasured \/ BenchConfig
  \/ ConfigMeasured \/ BenchDestroyHandle \/ BenchDestroyStream \/ BenchNext
  \/ OpenFile \/ WriteLine \/ CloseFile
  \/ ProfileLaunch \/ ProfileSync \/ ProfileDestroy
  \/ Terminated

\* The host thread runs, and calls of the runtime return: a kernel that
\* never ends is the subject of GemmKernel.
Spec == Init /\ [][Next]_vars /\ WF_vars(Next)

-----------------------------------------------------------------------------
(* Properties.                                                             *)

\* The calls the program may be about to make, and its loop variables.
Calls ==
  {"main", "problem", "handle", "reference", "reference_sync",
   "reference_destroy", "verify_config", "verify_sync", "verify_compare",
   "verify_next", "verify_destroy", "stream", "bench_handle", "set_stream",
   "warmup", "create_start", "create_stop", "record_start", "timed",
   "stop_sync", "elapsed", "measured", "bench_config", "bench_destroy",
   "destroy_stream", "bench_next", "open", "write", "close",
   "profile_launch", "profile_sync"}
Places ==
  [pc : Calls, phase : 1 .. 2, s : 1 .. Len(cmd.shapes),
   i : 1 .. kGemmConfigCount + 1,
   n : 0 .. (kWarmupIterations + kBenchmarkIterations),
   timing : {"cublas", "config", "profile"}, ok : BOOLEAN,
   ms : Latencies \cup {0}]

\* Types; in particular at most one handle, one stream and one event of a
\* kind exist, and none is destroyed that was not created.
TypeOK ==
  /\ cmd \in Commands
  /\ at \in Places
  /\ cuda \in [ctx : {"live", "faulting", "dead"}, last : BOOLEAN,
               faults : 0 .. MaxFaults]
  /\ held \in [Objects -> 0 .. 1]
  /\ tally \in [passed : Nat, failed : 0 .. kGemmConfigCount,
                skipped : Nat, ok : BOOLEAN]
  /\ best.config \in ConfigIds \cup {Null}
  /\ all_ok \in BOOLEAN
  /\ file.state \in {"old", "open", "closed"}
  /\ exit \in {"running", "success", "failure", "died"}

Returned == exit \in {"success", "failure"}

\* What the command line asks for: each phase, shape and configuration.
Wanted ==
  {w \in {"verify", "benchmark", "profile"}
           \X (1 .. Len(cmd.shapes)) \X ConfigIds :
     /\ \E q \in DOMAIN Phases(cmd.mode) : Phases(cmd.mode)[q] = w[1]
     /\ config_supports_problem(w[3], cmd.shapes[w[2]])
     /\ Single => w[3] = at.i}

\* A shape no configuration divides has nothing to rank.
NothingToRank ==
  /\ \E q \in DOMAIN Phases(cmd.mode) : Phases(cmd.mode)[q] = "benchmark"
  /\ \E k \in DOMAIN cmd.shapes : \A c \in ConfigIds :
       ~ config_supports_problem(c, cmd.shapes[k])

\* EXIT_SUCCESS means that no call failed, that no kernel faulted, not even
\* after the last call that could have told, and that every configuration
\* the command line asks for was verified, timed or profiled.
SuccessIsEarned ==
  exit = "success" =>
    ~ seen.blemish /\ cuda.ctx = "live" /\ Wanted \subseteq seen.done

\* EXIT_FAILURE has a cause: a wrong command line, a failing call, an output
\* out of tolerance, or a shape without any configuration.
FailureHasCause ==
  exit = "failure" => seen.blemish \/ NothingToRank \/ cmd.mode = "usage"

\* The summary of a shape counts every configuration once, and counts as
\* passed those that were really run to the end on this shape; one the
\* program could not get round to counts as failed.
Finished(phase) ==
  {c \in ConfigIds : <<phase, at.s, c>> \in seen.done}
Unsupported ==
  {c \in ConfigIds : ~ config_supports_problem(c, cmd.shapes[at.s])}
CountersAddUp ==
  (exit = "running" /\ at.pc \in {"verify_next", "bench_next"} /\ ~ Single) =>
    /\ tally.passed + tally.failed + tally.skipped = kGemmConfigCount
    /\ tally.passed = Cardinality(Finished(Phase))
    /\ tally.skipped # Cardinality(Unsupported) =>
         tally.skipped = 0 /\ tally.failed = kGemmConfigCount

\* The configuration of the BEST line is the one the printed ranking puts
\* first: the selection loop and the sort agree, also on ties and on
\* latencies of zero.
BestLeadsRanking ==
  (exit = "running" /\ at.pc = "bench_next" /\ ~ Single) =>
    IF best.config = Null
    THEN \A x \in Ranked : ~ results[x].ok
    ELSE best.config \in Ranked /\ Rank(best.config) = 1

\* Nothing stays behind when the program returns from main, on whichever
\* of its early returns: no handle, stream or event, and no open file.
NothingLeft ==
  Returned => (\A o \in Objects : held[o] = 0) /\ file.state # "open"

\* BEST.txt has a line for each shape with a best configuration, in the
\* order of the shapes; only a failing write may cut it short, and then the
\* program does not report success.
BestFile ==
  /\ \A k \in 2 .. Len(best_results) :
       best_results[k - 1].shape < best_results[k].shape
  /\ file.state # "old" =>
       /\ file.lines = SubSeq(best_results, 1, Len(file.lines))
       /\ exit = "success" =>
            /\ file.lines = best_results
            /\ Len(best_results) = Len(cmd.shapes)

\* Every command line comes to an end.
Termination == <>(exit # "running")

\* A configuration that passes has only elements within the tolerance.
WithinTolerance == seen.accepted \subseteq {"close"}
=============================================================================
