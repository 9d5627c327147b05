-------------------------- MODULE HostCallTestSuite --------------------------
(***************************************************************************)
(* The host-call test suite (host_call_test_2.cc) as the gtest runner      *)
(* drives it.  Every test of the fixture HostCallTest loads an enclave,    *)
(* makes one host call from inside it, checks the effect on the host and   *)
(* destroys the enclave.  What the tests share is the directory            *)
(* FLAGS_test_tmpdir and the file test_file.tmp in it: most tests open it  *)
(* with O_CREAT | O_TRUNC and leave it behind, TestInotifyRmWatch unlinks  *)
(* it, and the two inotify tests expect the events that reopening an       *)
(* existing file produces.  Only the tests that touch that file are        *)
(* modelled; the others neither read nor change anything another test     *)
(* sees.                                                                   *)
(*                                                                         *)
(* The runner runs the selected tests (all of them, or those a filter or a *)
(* shard picks) in declaration order, or in a random order under           *)
(* --gtest_shuffle, and runs the selection again under --gtest_repeat;     *)
(* the tmpdir is fresh when the test binary starts and kept between        *)
(* iterations.                                                             *)
(***************************************************************************)
EXTENDS Naturals, Sequences, FiniteSets

CONSTANTS
  Decl,          \* the tests that touch test_file.tmp, in declaration order
  Kind,          \* Kind[t]: "creates", "add_watch" or "rm_watch"
  MaxIterations  \* bound on --gtest_repeat

Tests == {Decl[i] : i \in DOMAIN Decl}

ASSUME SuiteAssumption ==
  /\ Decl \in Seq(Tests) /\ Len(Decl) = Cardinality(Tests)
  /\ Kind \in [Tests -> {"creates", "add_watch", "rm_watch"}]
  /\ MaxIterations \in Nat \ {0}

Index(t) == CHOOSE i \in DOMAIN Decl : Decl[i] = t

(* The declaration-order discipline host_call_test_2.cc follows: every     *)
(* inotify test is declared right after a test that leaves test_file.tmp   *)
(* behind (TestInotifyAddWatch after TestFsync, TestInotifyRmWatch after   *)
(* TestInotifyAddWatch), so none of them is declared first.                *)
DeclaredOrder ==
  \A i \in 1..Len(Decl) :
    Kind[Decl[i]] # "creates" => i > 1 /\ Kind[Decl[i - 1]] # "rm_watch"

VARIABLES
  selected,   \* the tests the filter or the shard selects
  shuffle,    \* --gtest_shuffle
  iteration,  \* the current --gtest_repeat iteration
  ran,        \* tests run in this iteration
  exists,     \* FLAGS_test_tmpdir/test_file.tmp exists
  failed      \* tests that have failed in some iteration

vars == <<selected, shuffle, iteration, ran, exists, failed>>

(* Type invariant.                                                        *)
TypeOK ==
  /\ selected \subseteq Tests /\ selected # {}
  /\ shuffle \in BOOLEAN
  /\ iteration \in 1..MaxIterations
  /\ ran \subseteq selected
  /\ exists \in BOOLEAN
  /\ failed \subseteq selected

(* Any non-empty selection, either order, and a fresh tmpdir.             *)
Init ==
  /\ selected \in (SUBSET Tests) \ {{}}
  /\ shuffle \in BOOLEAN
  /\ iteration = 1
  /\ ran = {}
  /\ exists = FALSE
  /\ failed = {}

(* The test the runner starts next: the first unrun test in declaration    *)
(* order, or any unrun test under --gtest_shuffle.                         *)
Eligible(t) ==
  /\ t \in selected \ ran
  /\ shuffle \/ \A u \in selected \ ran : Index(t) <= Index(u)

(* Mutant: a creating test that unlinks test_file.tmp when it is done.    *)
CreatingTestCleansUp(t) ==
  /\ Kind[t] = "creates"
  /\ exists' = FALSE
  /\ UNCHANGED failed

(* The tests that open test_file.tmp with O_CREAT | O_TRUNC, call into the *)
(* enclave with it, check the result and close it (TestTruncate and the   *)
(* seven like it): they pass whatever the tmpdir holds and leave the file. *)
CreatingTest(t) ==
  /\ Kind[t] = "creates"
  /\ exists' = TRUE
  /\ UNCHANGED failed

(* TestInotifyAddWatch: watch the tmpdir from inside the enclave, then     *)
(* open test_file.tmp with O_CREAT | O_TRUNC and expect IN_MODIFY followed *)
(* by IN_OPEN.  Truncating an existing file raises IN_MODIFY; creating one *)
(* raises IN_CREATE instead, and the EXPECT fails.                         *)
InotifyAddWatch(t) ==
  /\ Kind[t] = "add_watch"
  /\ exists' = TRUE
  /\ failed' = IF exists THEN failed ELSE failed \cup {t}

(* TestInotifyRmWatch: the same open and the same expected events, the     *)
(* watch removed from inside the enclave, then unlink(test_file.tmp).      *)
InotifyRmWatch(t) ==
  /\ Kind[t] = "rm_watch"
  /\ exists' = FALSE
  /\ failed' = IF exists THEN failed ELSE failed \cup {t}

(* The runner starts test t; SetUp loads the enclave, TearDown destroys it.*)
RunTest(t) ==
  /\ Eligible(t)
  /\ ran' = ran \cup {t}
  /\ \/ CreatingTest(t)
     \/ InotifyAddWatch(t)
     \/ InotifyRmWatch(t)
  /\ UNCHANGED <<selected, shuffle, iteration>>

(* Mutant: a repeat that ignores the iteration count.                     *)
RepeatUnbounded ==
  /\ ran = selected
  /\ iteration' = iteration + 1
  /\ ran' = {}
  /\ UNCHANGED <<selected, shuffle, exists, failed>>

(* --gtest_repeat: the next iteration runs the selection again on the same *)
(* tmpdir.                                                                 *)
Repeat ==
  /\ ran = selected
  /\ iteration < MaxIterations
  /\ iteration' = iteration + 1
  /\ ran' = {}
  /\ UNCHANGED <<selected, shuffle, exists, failed>>

(* The test binary has exited.                                             *)
Terminating ==
  /\ ran = selected
  /\ iteration = MaxIterations
  /\ UNCHANGED vars

Next ==
  \/ \E t \in Tests : RunTest(t)
  \/ Repeat
  \/ Terminating

Spec == Init /\ [][Next]_vars

-----------------------------------------------------------------------------

(* The suite as it is normally run -- every test, in declaration order,   *)
(* any number of repeats -- passes: each inotify test finds test_file.tmp  *)
(* left by a test declared before it (TestTruncate first of all), and the  *)
(* file TestInotifyRmWatch removes is recreated by TestIsAtty before the   *)
(* next iteration reaches the inotify tests again.                         *)
DeclarationOrderPasses ==
  (selected = Tests /\ ~shuffle) => failed = {}

(* What a test suite promises: each test passes whatever ran before it,    *)
(* under any filter, shard or shuffle.                                     *)
EveryOrderPasses ==
  failed = {}
=============================================================================
