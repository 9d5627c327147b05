------------------------- MODULE EmbeddedLoadProofs -------------------------
(***************************************************************************)
(* Proofs about SgxEmbeddedBackend::Load for every bound                   *)
(* kMaxEnclaveCreateAttempts: type correctness and the retry contract of  *)
(* the creation loop.                                                      *)
(***************************************************************************)
EXTENDS EmbeddedLoad, TLAPS

(* The status of the last creation attempt.                                *)
Last == createHistory[Len(createHistory)]

(* The steps before the creation loop.                                     *)
PreCreate == {"reserve", "mapfile", "elf", "section", "release"}

(* Where Load is, what it has tried and what it returned, tied together:   *)
(* no attempt before the loop; in the loop, the bound is not reached and   *)
(* the last attempt (if any) was interrupted; after it, the last attempt   *)
(* ended the loop; and Load returns OK exactly when the last attempt       *)
(* succeeded.  EmbeddedRetryContract alone is not inductive: it says       *)
(* nothing of the loop before it ends.                                     *)
IInv ==
  /\ TypeOK
  /\ \A i \in 1..(Len(createHistory) - 1) : createHistory[i] = "INTERRUPTED"
  /\ lpc \in PreCreate => createHistory = <<>>
  /\ lpc = "creating" =>
       /\ Len(createHistory) < kMaxEnclaveCreateAttempts
       /\ createHistory = <<>> \/ Last = "INTERRUPTED"
  /\ (lpc \in {"returning", "done"} /\ createHistory # <<>>
        /\ Last = "INTERRUPTED") => Len(createHistory) = kMaxEnclaveCreateAttempts
  /\ lpc = "returning" => createHistory # <<>>
  /\ lpc = "done" =>
       ((result = "OK") <=> (createHistory # <<>> /\ Last = "SGX_SUCCESS"))

-----------------------------------------------------------------------------
(* Appending one status to the history keeps the earlier ones and puts the *)
(* new one last.                                                           *)
LEMMA AppendFacts ==
  ASSUME NEW h \in Seq(CreateStatuses), NEW s \in CreateStatuses
  PROVE  /\ Append(h, s) \in Seq(CreateStatuses)
         /\ Len(Append(h, s)) = Len(h) + 1
         /\ Append(h, s)[Len(h) + 1] = s
         /\ \A i \in 1..Len(h) : Append(h, s)[i] = h[i]
OBVIOUS

LEMMA InitIInv == Init => IInv
BY EmbeddedAttemptsAssumption DEF Init, IInv, TypeOK, PreCreate, Results, LoadSteps

(* Every step of Load keeps IInv.  Only CreateAttempt changes the history; *)
(* the steps that return before the loop do so with an empty history and  *)
(* an error, CreateReturn with the status of the last attempt.            *)
LEMMA NextIInv == IInv /\ [Next]_vars => IInv'
<1> SUFFICES ASSUME IInv, [Next]_vars PROVE IInv'
  OBVIOUS
<1> USE EmbeddedAttemptsAssumption DEF IInv, TypeOK, PreCreate, Last, Return
<1>1. CASE Reserve
  BY <1>1 DEF Reserve, LoadSteps, Results
<1>2. ASSUME NEW st \in ImageSteps, LocateImage(st) PROVE IInv'
  BY <1>2 DEF LocateImage, ImageSteps, AfterImageStep, LoadSteps, Results
<1>3. CASE Release
  BY <1>3 DEF Release, LoadSteps, Results
<1>4. CASE CreateAttempt
  <2>1. PICK s \in CreateStatuses :
          /\ createHistory' = Append(createHistory, s)
          /\ hw' = IF s = "SGX_SUCCESS" THEN "live" ELSE hw
          /\ lpc' = IF s # "INTERRUPTED"
                       \/ Len(createHistory) + 1 >= kMaxEnclaveCreateAttempts
                    THEN "returning" ELSE "creating"
    BY <1>4 DEF CreateAttempt
  <2>2. /\ Len(createHistory') = Len(createHistory) + 1
        /\ createHistory' \in Seq(CreateStatuses)
        /\ createHistory'[Len(createHistory) + 1] = s
        /\ \A i \in 1..Len(createHistory) : createHistory'[i] = createHistory[i]
    BY <2>1, AppendFacts
  <2>3. lpc = "creating" /\ UNCHANGED <<wantReserve, mapping, foreign, result>>
    BY <1>4 DEF CreateAttempt
  <2>4. \A i \in 1..(Len(createHistory') - 1) : createHistory'[i] = "INTERRUPTED"
    BY <2>2, <2>3
  <2>5. QED
    BY <2>1, <2>2, <2>3, <2>4 DEF LoadSteps
<1>5. CASE CreateReturn
  BY <1>5 DEF CreateReturn, LoadSteps, Results
<1>6. CASE ForeignMap
  BY <1>6 DEF ForeignMap
<1>7. CASE Terminating \/ UNCHANGED vars
  BY <1>7 DEF Terminating, vars
<1>8. QED
  BY <1>1, <1>2, <1>3, <1>4, <1>5, <1>6, <1>7 DEF Next

(* IInv holds in every state Load reaches.                                *)
LEMMA Invariance == Spec => []IInv
BY InitIInv, NextIInv, PTL DEF Spec

(* Type correctness of the model of SgxEmbeddedBackend::Load.              *)
THEOREM TypeCorrect == Spec => []TypeOK
BY Invariance, PTL DEF IInv

(* The retry contract of the embedded creation loop holds for every bound *)
(* kMaxEnclaveCreateAttempts: every attempt but the last was INTERRUPTED,  *)
(* a final INTERRUPTED means the bound was reached, and Load returns OK    *)
(* exactly when its last attempt succeeded.                                *)
THEOREM RetryContract == Spec => []EmbeddedRetryContract
<1>1. IInv => EmbeddedRetryContract
  BY DEF IInv, EmbeddedRetryContract, Last
<1>2. QED
  BY <1>1, Invariance, PTL

=============================================================================
