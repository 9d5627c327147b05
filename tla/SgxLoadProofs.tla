---------------------------- MODULE SgxLoadProofs ----------------------------
(***************************************************************************)
(* Proofs about SgxBackend::Load inside the client model, for every bound  *)
(* kMaxEnclaveCreateAttempts and any number of threads: the retry contract *)
(* LoadRetryContract.  The client's threads never touch the creation       *)
(* history, and Destroy only turns a live enclave into a gone one.         *)
(***************************************************************************)
EXTENDS SgxClient, TLAPS

(* The status of the last creation attempt.                                *)
Last == createHistory[Len(createHistory)]

(* LoadRetryContract strengthened with what holds inside the loop: the     *)
(* bound is not reached and the last attempt (if any) was interrupted; and *)
(* a successful attempt has left an enclave behind.                        *)
LInv ==
  /\ createHistory \in Seq(CreateStatuses)
  /\ hw \in {"none", "live", "gone"}
  /\ loadPc \in {"creating", "returning", "loaded", "failed"}
  /\ \A i \in 1..(Len(createHistory) - 1) : createHistory[i] = "INTERRUPTED"
  /\ loadPc = "creating" =>
       /\ Len(createHistory) < kMaxEnclaveCreateAttempts
       /\ createHistory = <<>> \/ Last = "INTERRUPTED"
  /\ loadPc # "creating" =>
       /\ createHistory # <<>>
       /\ Len(createHistory) <= kMaxEnclaveCreateAttempts
       /\ Last = "INTERRUPTED" => Len(createHistory) = kMaxEnclaveCreateAttempts
  /\ loadPc = "loaded" => Last = "SGX_SUCCESS"
  /\ loadPc = "failed" => Last # "SGX_SUCCESS"
  /\ (createHistory # <<>> /\ Last = "SGX_SUCCESS") => hw # "none"

-----------------------------------------------------------------------------
(* A thread's step leaves Load's state alone and at most makes the         *)
(* platform enclave gone.                                                  *)
LEMMA ThreadLeavesLoad ==
  ASSUME NEW t \in Threads, ThreadNext(t)
  PROVE  /\ UNCHANGED <<createHistory, loadPc>>
         /\ hw' \in {hw, "gone"}
<1>1. CASE \E h \in BOOLEAN : EnclaveCallBegin(t, "Call", h)
  BY <1>1 DEF EnclaveCallBegin, loadVars, clientVars
<1>2. CASE \E h \in BOOLEAN : DeliverSignalBegin(t, h)
  BY <1>2 DEF DeliverSignalBegin, EnclaveCallBegin, loadVars, clientVars
<1>3. CASE DestroyBegin(t)
  BY <1>3 DEF DestroyBegin, EnclaveCallBegin, loadVars, clientVars
<1>4. CASE TakeSnapshotBegin(t) \/ TransferKeyBegin(t)
  BY <1>4 DEF TakeSnapshotBegin, TransferKeyBegin, loadVars, clientVars
<1>5. CASE GateEnter(t) \/ GateReject(t) \/ EnclaveReturn(t)
  BY <1>5 DEF GateEnter, GateReject, EnclaveReturn, loadVars, clientVars
<1>6. CASE EnclaveCallReturn(t) \/ DeliverSignalReturn(t)
  BY <1>6 DEF EnclaveCallReturn, DeliverSignalReturn, loadVars, clientVars
<1>7. CASE TakeSnapshotReturn(t) \/ TransferKeyReturn(t)
  BY <1>7 DEF TakeSnapshotReturn, TransferKeyReturn, loadVars, clientVars
<1>8. CASE DestroyEnclave(t)
  BY <1>8 DEF DestroyEnclave, loadVars
<1>9. QED
  BY <1>1, <1>2, <1>3, <1>4, <1>5, <1>6, <1>7, <1>8 DEF ThreadNext

LEMMA InitLInv == Init => LInv
BY AttemptsAssumption DEF Init, LInv

(* Every step keeps LInv: LoadAttempt appends an attempt the loop allows,  *)
(* LoadReturn decides by the last one, and the threads leave both alone.   *)
LEMMA NextLInv == LInv /\ [Next]_vars => LInv'
<1> SUFFICES ASSUME LInv, [Next]_vars PROVE LInv'
  OBVIOUS
<1>1. CASE LoadAttempt
  <2>1. PICK s \in CreateStatuses :
          /\ createHistory' = Append(createHistory, s)
          /\ hw' = IF s = "SGX_SUCCESS" THEN "live" ELSE hw
          /\ loadPc' = IF s # "INTERRUPTED"
                          \/ Len(createHistory) + 1 >= kMaxEnclaveCreateAttempts
                       THEN "returning" ELSE "creating"
    BY <1>1 DEF LoadAttempt
  <2>2. loadPc = "creating"
    BY <1>1 DEF LoadAttempt
  <2>3. /\ createHistory' \in Seq(CreateStatuses)
        /\ Len(createHistory') = Len(createHistory) + 1
        /\ createHistory'[Len(createHistory) + 1] = s
        /\ \A i \in 1..Len(createHistory) : createHistory'[i] = createHistory[i]
    BY <2>1 DEF LInv
  <2>4. \A i \in 1..(Len(createHistory') - 1) : createHistory'[i] = "INTERRUPTED"
    BY <2>2, <2>3 DEF LInv, Last
  <2>5. QED
    BY <2>1, <2>2, <2>3, <2>4, AttemptsAssumption DEF LInv, Last
<1>2. CASE LoadReturn
  BY <1>2 DEF LoadReturn, LInv, Last
<1>3. ASSUME NEW t \in Threads, ThreadNext(t) PROVE LInv'
  <2>1. /\ UNCHANGED <<createHistory, loadPc>>
        /\ hw' \in {hw, "gone"}
    BY <1>3, ThreadLeavesLoad
  <2>2. QED
    BY <2>1 DEF LInv, Last
<1>4. CASE Terminating \/ UNCHANGED vars
  BY <1>4 DEF Terminating, vars, loadVars, clientVars, LInv, Last
<1>5. QED
  BY <1>1, <1>2, <1>3, <1>4 DEF Next

(* LInv holds in every state of the client model.                         *)
LEMMA LoadInvariance == Spec => []LInv
BY InitLInv, NextLInv, PTL DEF Spec

(* The retry contract of SgxBackend::Load holds for every bound            *)
(* kMaxEnclaveCreateAttempts and every number of threads sharing the       *)
(* client: only interrupted attempts are retried, at most                  *)
(* kMaxEnclaveCreateAttempts in all, and Load succeeds, with an enclave,   *)
(* exactly when the last attempt did (what client_core checks for 5).      *)
THEOREM LoadContract == Spec => []LoadRetryContract
<1>1. LInv => LoadRetryContract
  BY AttemptsAssumption DEF LInv, Last, LoadRetryContract
<1>2. QED
  BY <1>1, LoadInvariance, PTL

=============================================================================
