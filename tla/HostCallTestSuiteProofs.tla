----------------------- MODULE HostCallTestSuiteProofs -----------------------
(***************************************************************************)
(* The host-call test suite run in declaration order passes, for every    *)
(* list of tests that is declared the way host_call_test_2.cc declares     *)
(* them and for any number of --gtest_repeat iterations.                   *)
(***************************************************************************)
EXTENDS HostCallTestSuite, FiniteSetTheorems, TLAPS

(* The runner runs every test in declaration order.                        *)
InOrder == selected = Tests /\ ~shuffle

(* The first k tests in declaration order.                                 *)
Prefix(k) == {Decl[j] : j \in 1..k}

(* Strengthening of DeclarationOrderPasses: in declaration order the tests *)
(* of an iteration run so far are a prefix of the declaration, and the     *)
(* file exists after a prefix whose last test is not TestInotifyRmWatch.   *)
OrderInv ==
  InOrder =>
    /\ failed = {}
    /\ \E k \in 0..Len(Decl) :
         /\ ran = Prefix(k)
         /\ (k > 0 /\ Kind[Decl[k]] # "rm_watch") => exists

IInv == TypeOK /\ OrderInv

-----------------------------------------------------------------------------

(* Test names are unique: the declaration lists |Tests| names, so no name  *)
(* is declared twice.                                                      *)
LEMMA DeclInjective ==
  \A i, j \in 1..Len(Decl) : Decl[i] = Decl[j] => i = j
<1> DEFINE n == Len(Decl)
<1>1. n \in Nat /\ DOMAIN Decl = 1..n
  BY SuiteAssumption
<1>2. Decl \in Surjection(1..n, Tests)
  <2>1. Decl \in [1..n -> Tests]
    BY <1>1, SuiteAssumption
  <2>2. \A t \in Tests : \E s \in 1..n : Decl[s] = t
    BY <1>1 DEF Tests
  <2>3. QED
    BY <2>1, <2>2, Zenon DEF Surjection
<1>3. IsFiniteSet(1..n) /\ Cardinality(1..n) = n
  <2>1. IsFiniteSet(1..n) /\ Cardinality(1..n) = IF 1 > n THEN 0 ELSE n - 1 + 1
    BY <1>1, FS_Interval
  <2>2. QED
    BY <2>1, <1>1
<1>4. Decl \in Injection(1..n, Tests)
  BY <1>2, <1>3, SuiteAssumption, FS_Surjection
<1>5. QED
  BY <1>4 DEF Injection, IsInjective

(* Index is the position of a test in the declaration.                     *)
LEMMA IndexOfDecl ==
  ASSUME NEW i \in 1..Len(Decl) PROVE Index(Decl[i]) = i
<1>1. DOMAIN Decl = 1..Len(Decl)
  BY SuiteAssumption
<1>2. \A j \in DOMAIN Decl : Decl[j] = Decl[i] => j = i
  BY <1>1, DeclInjective
<1>3. QED
  BY <1>1, <1>2 DEF Index

LEMMA InitIInv == Init => IInv
<1> SUFFICES ASSUME Init PROVE IInv
  OBVIOUS
<1>1. TypeOK
  <2>1. selected \subseteq Tests /\ selected # {}
    BY Zenon DEF Init
  <2>2. iteration \in 1..MaxIterations
    BY SuiteAssumption DEF Init
  <2>3. QED
    BY <2>1, <2>2 DEF Init, TypeOK
<1>2. ran = Prefix(0)
  BY DEF Init, Prefix
<1>3. QED
  BY <1>1, <1>2, SuiteAssumption DEF Init, IInv, OrderInv
(* The runner keeps the selection and the order it was started with.       *)
LEMMA NextTypeOK == TypeOK /\ [Next]_vars => TypeOK'
<1> SUFFICES ASSUME TypeOK, [Next]_vars PROVE TypeOK'
  OBVIOUS
<1>1. CASE \E t \in Tests : RunTest(t)
  BY <1>1 DEF TypeOK, RunTest, Eligible, CreatingTest, InotifyAddWatch,
               InotifyRmWatch
<1>2. CASE Repeat
  BY <1>2, SuiteAssumption DEF TypeOK, Repeat
<1>3. CASE Terminating \/ UNCHANGED vars
  BY <1>3 DEF TypeOK, Terminating, vars
<1>4. QED
  BY <1>1, <1>2, <1>3 DEF Next

(* In declaration order the test the runner starts after the prefix of k   *)
(* tests is the (k+1)-th declared one.                                     *)
LEMMA NextInOrder ==
  ASSUME NEW k \in 0..Len(Decl), NEW t \in Tests,
         InOrder, ran = Prefix(k), Eligible(t)
  PROVE  k < Len(Decl) /\ t = Decl[k + 1]
<1>0. Len(Decl) \in Nat /\ DOMAIN Decl = 1..Len(Decl)
  BY SuiteAssumption
<1>1. t \notin ran
  BY DEF Eligible
<1>2. PICK m \in 1..Len(Decl) : t = Decl[m]
  BY <1>0 DEF Tests
<1>3. m > k
  BY <1>1, <1>2 DEF Prefix
<1>4. k + 1 \in 1..Len(Decl)
  BY <1>0, <1>3
<1>5. Decl[k + 1] \in selected \ ran
  <2>1. Decl[k + 1] \in selected
    BY <1>0, <1>4 DEF InOrder, Tests
  <2>2. \A j \in 1..k : Decl[j] # Decl[k + 1]
    BY <1>0, <1>4, DeclInjective
  <2>3. QED
    BY <2>1, <2>2 DEF Prefix
<1>6. Index(t) <= Index(Decl[k + 1])
  BY <1>5 DEF Eligible, InOrder
<1>7. m <= k + 1
  BY <1>2, <1>4, <1>6, IndexOfDecl
<1>8. QED
  BY <1>2, <1>3, <1>4, <1>7

(* A step keeps the strengthened invariant.                                *)
LEMMA NextOrderInv ==
  ASSUME DeclaredOrder, TypeOK, OrderInv, [Next]_vars
  PROVE  OrderInv'
<1>0. Len(Decl) \in Nat /\ DOMAIN Decl = 1..Len(Decl)
  BY SuiteAssumption
<1> SUFFICES ASSUME InOrder'
             PROVE  /\ failed' = {}
                    /\ \E k \in 0..Len(Decl) :
                         /\ ran' = Prefix(k)
                         /\ (k > 0 /\ Kind[Decl[k]] # "rm_watch") => exists'
  BY DEF OrderInv
<1>1. InOrder
  BY DEF Next, RunTest, Repeat, Terminating, vars, InOrder
<1>2. PICK k \in 0..Len(Decl) :
        /\ ran = Prefix(k)
        /\ (k > 0 /\ Kind[Decl[k]] # "rm_watch") => exists
  BY <1>1 DEF OrderInv
<1>3. failed = {}
  BY <1>1 DEF OrderInv
<1>4. CASE \E t \in Tests : RunTest(t)
  <2>1. PICK t \in Tests : RunTest(t)
    BY <1>4
  <2>2. k < Len(Decl) /\ t = Decl[k + 1]
    BY <1>1, <1>2, <2>1, NextInOrder DEF RunTest
  <2>3. ran' = Prefix(k + 1)
    BY <1>0, <1>2, <2>1, <2>2 DEF RunTest, Prefix
  <2>4. Kind[t] \in {"creates", "add_watch", "rm_watch"}
    BY SuiteAssumption
  <2>5. Kind[t] # "creates" => exists
    BY <1>0, <1>2, <2>2 DEF DeclaredOrder
  <2>6. failed' = {}
    BY <1>3, <2>1, <2>5 DEF RunTest, CreatingTest, InotifyAddWatch,
                            InotifyRmWatch
  <2>7. Kind[Decl[k + 1]] # "rm_watch" => exists'
    BY <2>1, <2>2 DEF RunTest, CreatingTest, InotifyAddWatch, InotifyRmWatch
  <2>8. QED
    BY <1>0, <2>2, <2>3, <2>6, <2>7
<1>5. CASE Repeat
  <2>1. ran' = Prefix(0)
    BY <1>5 DEF Repeat, Prefix
  <2>2. QED
    BY <1>0, <1>3, <1>5, <2>1 DEF Repeat
<1>6. CASE Terminating \/ UNCHANGED vars
  BY <1>2, <1>3, <1>6 DEF Terminating, vars, Prefix
<1>7. QED
  BY <1>4, <1>5, <1>6 DEF Next
(* The suite's type invariant holds for every declaration, selection and  *)
(* number of repeats: the runner only runs and fails selected tests, and   *)
(* --gtest_repeat stops at its count.                                      *)
THEOREM TypeCorrect == Spec => []TypeOK
<1>1. Init => TypeOK
  BY InitIInv DEF IInv
<1>2. QED
  BY <1>1, NextTypeOK, PTL DEF Spec

(* The suite run as it normally is -- every test, in declaration order,    *)
(* any number of --gtest_repeat iterations -- passes for every declaration *)
(* that follows host_call_test_2.cc's discipline: TestInotifyAddWatch and *)
(* TestInotifyRmWatch always find the test_file.tmp a test declared just   *)
(* before them left behind.                                                *)
THEOREM DeclaredOrderPasses ==
  ASSUME DeclaredOrder PROVE Spec => []DeclarationOrderPasses
<1>1. IInv /\ [Next]_vars => IInv'
  BY NextTypeOK, NextOrderInv DEF IInv
<1>2. IInv => DeclarationOrderPasses
  BY DEF IInv, OrderInv, InOrder, DeclarationOrderPasses
<1>3. QED
  BY InitIInv, <1>1, <1>2, PTL DEF Spec
=============================================================================
