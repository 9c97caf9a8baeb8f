-------------------------- MODULE FlashVerify_proofs --------------------------
(***************************************************************************)
(* verify.py --all ends in success only when it is complete, for every     *)
(* registry of kernels.  While the loop runs, the statuses printed so far  *)
(* account for the three tallies the summary is made from: the flag ok,    *)
(* the number of cases passed and the set of those that did not run.       *)
(***************************************************************************)
EXTENDS FlashVerify, FiniteSetTheorems, TLAPS

Working == IF stage \in {"setup", "launch"} THEN {key} ELSE {}
Judged == seen \ Working

Prints == {<< >>, << "PASS" >>, << "SKIP_RESOURCE" >>, << "FAIL" >>}

VerifyTypes ==
  /\ stage \in {"next", "setup", "launch", "ended"}
  /\ exit \in {"running", "success", "failure"}
  /\ ok \in BOOLEAN
  /\ seen \subseteq Keys /\ Working \subseteq seen
  /\ passed_count \in Nat
  /\ printed \in [Keys -> Prints]

\* The statuses of a case: none before it is judged, one afterwards, and none
\* that fails while ok is set.
StatusesOK ==
  /\ \A k \in Keys \ Judged : printed[k] = << >>
  /\ \A k \in Judged :
       printed[k] \in {<< "PASS" >>, << "SKIP_RESOURCE" >>, << "FAIL" >>}
  /\ ok => \A k \in Judged : printed[k] # << "FAIL" >>

TalliesOK ==
  /\ ok => passed_count = Cardinality(Judged)
  /\ failed_cases = Skipped

VerifyInv ==
  /\ VerifyTypes
  /\ stage # "ended" => exit = "running" /\ StatusesOK /\ TalliesOK
  /\ SuccessIsComplete

LEMMA KeysFinite == IsFiniteSet(Keys)
<1>1. IsFiniteSet(BOOLEAN)
  <2>1. IsFiniteSet({TRUE} \cup {FALSE})
    BY FS_AddElement, FS_Singleton
  <2>2. BOOLEAN = {TRUE} \cup {FALSE}
    OBVIOUS
  <2> QED
    BY <2>1, <2>2
<1>2. IsFiniteSet(ConfigNames \X (INSTANTIATED_HEAD_NUMS \X BOOLEAN))
  BY <1>1, InputsFinite, FS_Product
<1> DEFINE Nested == ConfigNames \X (INSTANTIATED_HEAD_NUMS \X BOOLEAN)
           Flat == [x \in Nested |-> <<x[1], x[2][1], x[2][2]>>]
<1>3. Flat \in Surjection(Nested, Keys)
  <2>1. Flat \in [Nested -> Keys]
    BY DEF Keys
  <2>2. ASSUME NEW c \in ConfigNames, NEW h \in INSTANTIATED_HEAD_NUMS,
               NEW b \in BOOLEAN
        PROVE  \E x \in Nested : Flat[x] = <<c, h, b>>
    <3>1. <<c, <<h, b>>>> \in Nested /\ Flat[<<c, <<h, b>>>>] = <<c, h, b>>
      OBVIOUS
    <3> QED
      BY <3>1
  <2>3. ASSUME NEW k \in Keys
        PROVE  \E x \in Nested : Flat[x] = k
    <3>1. PICK c \in ConfigNames, h \in INSTANTIATED_HEAD_NUMS, b \in BOOLEAN :
            k = <<c, h, b>>
      BY DEF Keys
    <3> HIDE DEF Flat
    <3> QED
      BY <2>2, <3>1
  <2> QED
    BY <2>1, <2>3 DEF Surjection
<1> QED
  BY <1>2, <1>3, FS_Surjection

LEMMA VerifyInit ==
  ASSUME Init
  PROVE  VerifyInv
<1>1. Judged = {} /\ Working = {}
  BY DEF Init, Judged, Working
<1>2. Skipped = {}
  BY DEF Init, Skipped
<1> QED
  BY <1>1, <1>2, FS_EmptySet
     DEF Init, VerifyInv, VerifyTypes, Prints, StatusesOK, TalliesOK, SuccessIsComplete

LEMMA VerifyStep ==
  ASSUME VerifyInv, [Next]_vars
  PROVE  VerifyInv'
<1> USE DEF VerifyInv, VerifyTypes
<1>1. CASE NextCase
  <2>1. Judged' = Judged /\ Working' = {key'} /\ seen' \subseteq Keys
    BY <1>1 DEF NextCase, Judged, Working, Remaining
  <2>2. StatusesOK' /\ TalliesOK' /\ exit' = "running"
    BY <1>1, <2>1 DEF NextCase, StatusesOK, TalliesOK, Skipped
  <2> QED
    BY <1>1, <2>1, <2>2 DEF NextCase, SuccessIsComplete
<1>2. CASE SetUp
  <2>1. Judged' = Judged /\ Working' = Working
    BY <1>2 DEF SetUp, Judged, Working
  <2>2. StatusesOK' /\ TalliesOK' /\ exit' = "running"
    BY <1>2, <2>1 DEF SetUp, StatusesOK, TalliesOK, Skipped
  <2> QED
    BY <1>2, <2>1, <2>2 DEF SetUp, SuccessIsComplete
<1>3. CASE Raise
  BY <1>3 DEF Raise, Working, SuccessIsComplete
<1>4. ASSUME NEW o \in Outcomes, FinishCase(o)
      PROVE  VerifyInv'
  <2>1. key \in seen /\ key \in Keys /\ key \notin Judged
    BY <1>4 DEF FinishCase, Working, Judged
  <2>2. Working' = {} /\ Judged' = Judged \cup {key} /\ exit = "running"
    BY <1>4, <2>1 DEF FinishCase, Working, Judged
  <2>3. Status(o) \in {"PASS", "SKIP_RESOURCE", "FAIL"}
    BY DEF Status, Outcomes
  <2>4. printed[key] = << >>
    BY <1>4, <2>1 DEF FinishCase, StatusesOK
  <2>5. printed' = [printed EXCEPT ![key] = << Status(o) >>]
    BY <1>4, <2>3, <2>4 DEF FinishCase
  <2>6. << Status(o) >> \in Prints
    BY <2>3 DEF Prints
  <2>7. printed' \in [Keys -> Prints]
    BY <2>5, <2>6
  <2>8. /\ Status(o) = "FAIL" <=> ~ CasePassed(o)
        /\ Status(o) = "SKIP_RESOURCE" <=> o = "resource"
    BY DEF Status, CasePassed, Outcomes
  <2>9. ok' \in BOOLEAN /\ (ok' => ok /\ CasePassed(o))
    BY <1>4 DEF FinishCase
  <2>10. StatusesOK'
    <3>1. \A k \in Keys \ Judged' : printed'[k] = << >>
      BY <1>4, <2>1, <2>2, <2>5 DEF FinishCase, StatusesOK
    <3>2. /\ printed'[key] = << Status(o) >>
          /\ \A k \in Judged : printed'[k] = printed[k]
      BY <2>1, <2>5, <1>4
    <3>3. \A k \in Judged' :
            printed'[k] \in {<< "PASS" >>, << "SKIP_RESOURCE" >>, << "FAIL" >>}
      BY <1>4, <2>2, <2>3, <3>2 DEF FinishCase, StatusesOK
    <3>4. ok' => << Status(o) >> # << "FAIL" >>
      BY <2>8, <2>9
    <3>5. ok' => \A k \in Judged' : printed'[k] # << "FAIL" >>
      BY <1>4, <2>2, <2>9, <3>2, <3>4 DEF FinishCase, StatusesOK
    <3> QED
      BY <3>1, <3>3, <3>5 DEF StatusesOK
  <2>11. ok' => passed_count' = Cardinality(Judged')
    <3>1. IsFiniteSet(Judged)
      BY KeysFinite, FS_Subset DEF Judged
    <3>2. Cardinality(Judged') = Cardinality(Judged) + 1
      BY <2>1, <2>2, <3>1, FS_AddElement
    <3>3. ok => passed_count = Cardinality(Judged)
      BY <1>4 DEF FinishCase, TalliesOK
    <3> QED
      BY <1>4, <2>9, <3>2, <3>3 DEF FinishCase
  <2>12. failed_cases' = Skipped'
    <3>1. failed_cases = Skipped
      BY <1>4 DEF FinishCase, TalliesOK
    <3>2. << Status(o) >> = << "SKIP_RESOURCE" >> <=> o = "resource"
      BY <2>8
    <3>3. key \notin Skipped
      <4>1. << >> # << "SKIP_RESOURCE" >>
        OBVIOUS
      <4> QED
        BY <2>4, <4>1 DEF Skipped
    <3>4. Skipped' = Skipped \cup (IF o = "resource" THEN {key} ELSE {})
      BY <2>1, <2>5, <3>2, <3>3 DEF Skipped
    <3> QED
      BY <1>4, <3>1, <3>4 DEF FinishCase
  <2>13. passed_count' \in Nat
    BY <1>4 DEF FinishCase
  <2> QED
    BY <1>4, <2>2, <2>7, <2>9, <2>10, <2>11, <2>12, <2>13
       DEF FinishCase, TalliesOK, SuccessIsComplete
<1>5. CASE Summarise
  <2>1. seen = Keys /\ Working = {} /\ Judged = Keys /\ Working' = {}
    BY <1>5 DEF Summarise, Remaining, Working, Judged
  <2>2. StatusesOK /\ TalliesOK
    BY <1>5 DEF Summarise
  <2>3. log' = failed_cases /\ exit' = IF ok THEN "success" ELSE "failure"
    BY <1>5, <2>1 DEF Summarise
  <2>4. exit' = "success" => ok
    BY <2>3
  <2>5. SuccessIsComplete'
    BY <1>5, <2>1, <2>2, <2>3, <2>4
       DEF Summarise, SuccessIsComplete, StatusesOK, TalliesOK, Skipped
  <2> QED
    BY <1>5, <2>1, <2>3, <2>5 DEF Summarise
<1>6. CASE UNCHANGED vars
  BY <1>6 DEF vars, Working, Judged, StatusesOK, TalliesOK, Skipped,
     SuccessIsComplete
<1> QED
  BY <1>1, <1>2, <1>3, <1>4, <1>5, <1>6 DEF Next, Ended

\* Exit code 0 of verify.py --all (verify_all_kernel_templates) means, for
\* whatever kernels are registered and however each case turns out: every
\* template instance was judged once, none failed, and the log names exactly
\* those that did not run.
THEOREM VerificationComplete == Spec => []SuccessIsComplete
<1>1. Spec => []VerifyInv
  BY VerifyInit, VerifyStep, PTL DEF Spec
<1>2. VerifyInv => SuccessIsComplete
  BY DEF VerifyInv
<1> QED
  BY <1>1, <1>2, PTL
=============================================================================
