----------------------------- MODULE FlashVerify -----------------------------
(***************************************************************************)
(* verify.py --all of the flash kernels: every compiled instance is run    *)
(* once against the reference.  A launch that fails for lack of resources  *)
(* is skipped and counted as passed, so that the list of skipped cases is  *)
(* what tells a complete verification from an incomplete one.              *)
(***************************************************************************)
EXTENDS Integers, Sequences, FiniteSets

CONSTANTS
  ConfigNames,             \* flashatten_v3_sm120.configs()
  INSTANTIATED_HEAD_NUMS

ASSUME InputsFinite == IsFiniteSet(ConfigNames) /\ ConfigNames # {}
                         /\ IsFiniteSet(INSTANTIATED_HEAD_NUMS)

Keys == ConfigNames \X INSTANTIATED_HEAD_NUMS \X BOOLEAN

VARIABLES
  stage,         \* of verify_all_kernel_templates, of a case, or "ended"
  key,           \* the template instance being verified
  seen,          \* keys so far
  ok, passed_count,
  failed_cases,  \* skipped for lack of resources
  log,           \* failed_resource_cases.log, as a set of cases
  printed,       \* the statuses printed, per key
  exit           \* how the process ended

vars == <<stage, key, seen, ok, passed_count, failed_cases, log, printed,
          exit>>

NoKey == <<>>

\* The log is first written with no cases; a log of an earlier run is gone.
Init ==
  /\ stage = "next" /\ key = NoKey
  /\ seen = {} /\ ok = TRUE /\ passed_count = 0
  /\ failed_cases = {} /\ log = {}
  /\ printed = [k \in Keys |-> << >>]
  /\ exit = "running"

\* The three nested loops; their order is the registry's and does not matter.
\* The early return for a key met before is left out: the registry lists no
\* name twice.
Remaining == Keys \ seen

NextCase ==
  /\ stage = "next"
  /\ key' \in Remaining
  /\ seen' = seen \cup {key'}
  /\ stage' = "setup"
  /\ UNCHANGED <<ok, passed_count, failed_cases, log, printed, exit>>

\* make_inputs and the reference, outside the try block: an error there ends
\* the process.
SetUp == stage = "setup" /\ stage' = "launch"
           /\ UNCHANGED <<key, seen, ok, passed_count, failed_cases, log,
                          printed, exit>>

Raise ==
  /\ stage = "setup"
  /\ stage' = "ended" /\ exit' = "failure"
  /\ UNCHANGED <<key, seen, ok, passed_count, failed_cases, log, printed>>

\* The result of a case: within tolerance or not, or the RuntimeError of a
\* launch, for lack of resources or another one.
Outcomes == {"match", "mismatch", "resource", "error"}
Status(o) == CASE o = "match" -> "PASS" [] o = "resource" -> "SKIP_RESOURCE"
               [] OTHER -> "FAIL"

\* Mutant: an error that is not about resources passes as well.
CasePassed_AnyError(o) == o # "mismatch"
CasePassed(o) == o \in {"match", "resource"}

FinishCase(o) ==
  /\ stage = "launch"
  /\ printed' = [printed EXCEPT ![key] = Append(@, Status(o))]
  /\ failed_cases' = IF o = "resource" THEN failed_cases \cup {key}
                                       ELSE failed_cases
  /\ ok' = (ok /\ CasePassed(o))
  /\ passed_count' = passed_count + (IF CasePassed(o) THEN 1 ELSE 0)
  /\ stage' = "next" /\ key' = NoKey
  /\ UNCHANGED <<seen, log, exit>>

\* The coverage check, the summary, and the second write of the log.
Summarise ==
  /\ stage = "next" /\ Remaining = {}
  /\ IF Cardinality(seen) = Cardinality(Keys)
     THEN log' = failed_cases /\ exit' = IF ok THEN "success" ELSE "failure"
     ELSE log' = log /\ exit' = "failure"
  /\ stage' = "ended"
  /\ UNCHANGED <<key, seen, ok, passed_count, failed_cases, printed>>

Ended == stage = "ended" /\ UNCHANGED vars

Next ==
  \/ NextCase \/ SetUp \/ Raise \/ (\E o \in Outcomes : FinishCase(o))
  \/ Summarise \/ Ended

Spec == Init /\ [][Next]_vars

-----------------------------------------------------------------------------
(* Properties.                                                             *)

Skipped == {k \in Keys : printed[k] = << "SKIP_RESOURCE" >>}

\* README: the mode attempts each unique kernel template instance exactly
\* once.  Exit code 0 (verify_all_kernel_templates) means that each was, that
\* none failed, and that those that did not run are in the log.
SuccessIsComplete ==
  exit = "success" =>
    /\ \A k \in Keys : printed[k] \in {<< "PASS" >>, << "SKIP_RESOURCE" >>}
    /\ passed_count = Cardinality(Keys)
    /\ log = Skipped
=============================================================================
