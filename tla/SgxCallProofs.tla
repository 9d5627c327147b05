---------------------------- MODULE SgxCallProofs ----------------------------
(***************************************************************************)
(* Proofs about the calls of SgxEnclaveClient for every number of threads, *)
(* TCSs and operations: the snapshot contract of the structured paths, and *)
(* for clients that use only EnclaveCall, DeliverSignal and Destroy, the   *)
(* buffer ownership rule.                                                  *)
(***************************************************************************)
EXTENDS SgxClientProofs

(* A thread in the "destroying" state is running Destroy.                  *)
DestroyingIsDestroy ==
  \A t \in Threads : pc[t] = "destroying" => op[t] = "Destroy"

(* The snapshot contract strengthened: it is inductive once the type of    *)
(* the state and the destroying state's operation are known.               *)
SInv == TypeOK /\ DestroyingIsDestroy /\ StructuredOkHasContent

(* A step of thread t changes no other thread's call state.                *)
LEMMA OtherThreadsUnchanged ==
  ASSUME TypeOK, NEW t \in Threads, ThreadNext(t), NEW u \in Threads \ {t}
  PROVE  /\ pc'[u] = pc[u] /\ op'[u] = op[u] /\ nOps'[u] = nOps[u]
         /\ inBuf'[u] = inBuf[u] /\ outBuf'[u] = outBuf[u]
         /\ outLen'[u] = outLen[u] /\ gate'[u] = gate[u]
         /\ retval'[u] = retval[u] /\ result'[u] = result[u]
         /\ closedAtStart'[u] = closedAtStart[u]
<1> USE DEF TypeOK
<1>1. ASSUME NEW o \in AllOps, NEW h \in BOOLEAN, EnclaveCallBegin(t, o, h)
      PROVE  /\ pc'[u] = pc[u] /\ op'[u] = op[u] /\ nOps'[u] = nOps[u]
             /\ inBuf'[u] = inBuf[u] /\ outBuf'[u] = outBuf[u]
             /\ outLen'[u] = outLen[u] /\ gate'[u] = gate[u]
             /\ retval'[u] = retval[u] /\ result'[u] = result[u]
             /\ closedAtStart'[u] = closedAtStart[u]
  BY <1>1 DEF EnclaveCallBegin, BeginOp
<1>2. CASE TakeSnapshotBegin(t) \/ TransferKeyBegin(t)
  BY <1>2 DEF TakeSnapshotBegin, TransferKeyBegin, BeginOp
<1>3. CASE GateEnter(t) \/ GateReject(t) \/ EnclaveReturn(t)
  BY <1>3 DEF GateEnter, GateReject, EnclaveReturn
<1>4. CASE EnclaveCallReturn(t) \/ DeliverSignalReturn(t)
  BY <1>4 DEF EnclaveCallReturn, DeliverSignalReturn
<1>5. CASE TakeSnapshotReturn(t) \/ TransferKeyReturn(t)
  BY <1>5 DEF TakeSnapshotReturn, TransferKeyReturn
<1>6. CASE DestroyEnclave(t)
  BY <1>6 DEF DestroyEnclave
<1>7. QED
  BY <1>1, <1>2, <1>3, <1>4, <1>5, <1>6
  DEF ThreadNext, DestroyBegin, DeliverSignalBegin, AllOps

-----------------------------------------------------------------------------
(* The snapshot contract.                                                  *)

(* What the contract and DestroyingIsDestroy say of one thread.            *)
SFacts(t) ==
  /\ pc[t] = "destroying" => op[t] = "Destroy"
  /\ (pc[t] = "idle" /\ op[t] \in {"Snapshot", "Transfer"} /\ result[t] = OkStatus
        /\ nOps[t] > 0)
       => gate[t] = "SGX_SUCCESS" /\ retval[t] = 0 /\ outLen[t] > 0

(* A status the snapshot paths compute is OK only after a successful gate, *)
(* a zero ms_retval and a non-empty output.                                *)
LEMMA StructuredStatusOk ==
  ASSUME TypeOK, NEW t \in Threads,
         \/ TakeSnapshotStatus(t) = OkStatus
         \/ TransferKeyStatus(t) = OkStatus
  PROVE  gate[t] = "SGX_SUCCESS" /\ retval[t] = 0 /\ outLen[t] > 0
BY DEF TypeOK, TakeSnapshotStatus, TransferKeyStatus, OkStatus, Status

(* Thread t's own facts after its step.                                    *)
LEMMA OwnSFacts ==
  ASSUME TypeOK, NEW t \in Threads, SFacts(t), ThreadNext(t)
  PROVE  SFacts(t)'
<1> USE DEF SFacts
<1>1. ASSUME NEW o \in {"Call", "Signal", "Destroy"}, NEW h \in BOOLEAN,
             EnclaveCallBegin(t, o, h)
      PROVE  SFacts(t)'
  <2>1. op'[t] = o
    BY <1>1 DEF EnclaveCallBegin, BeginOp, TypeOK
  <2>2. CASE is_destroyed
    BY <1>1, <2>1, <2>2 DEF EnclaveCallBegin, Ready, TypeOK
  <2>3. CASE ~is_destroyed
    BY <1>1, <2>3 DEF EnclaveCallBegin, TypeOK
  <2>4. QED
    BY <2>2, <2>3
<1>2. CASE TakeSnapshotBegin(t)
  BY <1>2 DEF TakeSnapshotBegin, TypeOK
<1>3. CASE TransferKeyBegin(t)
  <2>1. PICK ser \in BOOLEAN :
          IF ser THEN pc' = [pc EXCEPT ![t] = "entering"]
                 ELSE result' = [result EXCEPT ![t] = Status("INVALID_ARGUMENT", "none")]
    BY <1>3 DEF TransferKeyBegin
  <2>2. CASE ser
    BY <2>1, <2>2 DEF TypeOK
  <2>3. CASE ~ser
    BY <1>3, <2>1, <2>3 DEF TransferKeyBegin, Ready, TypeOK, OkStatus, Status
  <2>4. QED
    BY <2>2, <2>3
<1>4. CASE GateEnter(t) \/ GateReject(t) \/ EnclaveReturn(t)
  BY <1>4 DEF GateEnter, GateReject, EnclaveReturn, TypeOK
<1>5. CASE EnclaveCallReturn(t) \/ DeliverSignalReturn(t)
  BY <1>5 DEF EnclaveCallReturn, DeliverSignalReturn, TypeOK
<1>6. CASE TakeSnapshotReturn(t)
  <2>1. CASE TakeSnapshotStatus(t) = OkStatus
    <3>1. gate[t] = "SGX_SUCCESS" /\ retval[t] = 0 /\ outLen[t] > 0
      BY <2>1, StructuredStatusOk
    <3>2. QED
      BY <1>6, <3>1 DEF TakeSnapshotReturn, TypeOK
  <2>4. CASE TakeSnapshotStatus(t) # OkStatus
    BY <1>6, <2>4 DEF TakeSnapshotReturn, TypeOK
  <2>5. QED
    BY <2>1, <2>4
<1>7. CASE TransferKeyReturn(t)
  <2>1. CASE TransferKeyStatus(t) = OkStatus
    <3>1. gate[t] = "SGX_SUCCESS" /\ retval[t] = 0 /\ outLen[t] > 0
      BY <2>1, StructuredStatusOk
    <3>2. QED
      BY <1>7, <3>1 DEF TransferKeyReturn, TypeOK
  <2>4. CASE TransferKeyStatus(t) # OkStatus
    BY <1>7, <2>4 DEF TransferKeyReturn, TypeOK
  <2>5. QED
    BY <2>1, <2>4
<1>8. CASE DestroyEnclave(t)
  BY <1>8 DEF DestroyEnclave, TypeOK
<1>9. QED
  BY <1>1, <1>2, <1>3, <1>4, <1>5, <1>6, <1>7, <1>8
  DEF ThreadNext, DestroyBegin, DeliverSignalBegin

LEMMA NextSInv == SInv /\ [Next]_vars => SInv'
<1> SUFFICES ASSUME TypeOK, \A t \in Threads : SFacts(t), [Next]_vars
             PROVE  TypeOK' /\ \A t \in Threads : SFacts(t)'
  BY DEF SInv, SFacts, DestroyingIsDestroy, StructuredOkHasContent
<1>1. TypeOK'
  BY NextTypeOK
<1>2. ASSUME NEW t \in Threads, ThreadNext(t), NEW u \in Threads
      PROVE  SFacts(u)'
  <2>1. CASE u = t
    BY <1>2, <2>1, OwnSFacts
  <2>2. CASE u # t
    BY <1>2, <2>2, OtherThreadsUnchanged DEF SFacts
  <2>3. QED
    BY <2>1, <2>2
<1>3. CASE LoadAttempt \/ LoadReturn
  BY <1>1, <1>3 DEF LoadAttempt, LoadReturn, threadVars, SFacts
<1>4. CASE Terminating \/ UNCHANGED vars
  BY <1>1, <1>4 DEF Terminating, vars, threadVars, SFacts
<1>5. QED
  BY <1>1, <1>2, <1>3, <1>4 DEF Next

(* The snapshot contract (spec 4.5, 8) holds for every number of threads   *)
(* and every mix of operations: EnterAndTakeSnapshot and                   *)
(* EnterAndTransferSecureSnapshotKey report OK only after a successful     *)
(* gate, a zero ms_retval and a non-empty output, whatever garbage the     *)
(* uninitialized ms_retval and bridge_output_len held.                     *)
THEOREM SnapshotContract == Spec => []StructuredOkHasContent
<1>1. Init => SInv
  BY InitTypeOK DEF Init, SInv, DestroyingIsDestroy, StructuredOkHasContent
<1>2. SInv /\ [Next]_vars => SInv'
  BY NextSInv
<1>3. QED
  BY <1>1, <1>2, PTL DEF Spec, SInv

-----------------------------------------------------------------------------
(* Buffer ownership on the primary paths.                                  *)

(* The operations whose host code checks is_destroyed_ and frees every     *)
(* buffer through Cleanup.  Snapshot and key transfer do neither, and TLC  *)
(* finds both properties violated once they are among the operations.     *)
PrimaryOps == Ops \subseteq {"Call", "Signal", "Destroy"}

(* A thread's buffers along its call: both are null or allocated between   *)
(* Begin and Return (the signal path never gets an output), and null or    *)
(* freed once the call has returned; a thread off "idle" runs a primary    *)
(* operation.                                                              *)
BFacts(t) ==
  /\ pc[t] \in {"entering", "inside", "exited"} =>
       /\ inBuf[t] \in {"none", "alloc"}
       /\ outBuf[t] \in {"none", "alloc"}
       /\ op[t] = "Signal" => outBuf[t] = "none"
  /\ pc[t] \in {"idle", "destroying"} =>
       /\ inBuf[t] \in {"none", "freed"}
       /\ outBuf[t] \in {"none", "freed"}
  /\ op[t] \in {"Call", "Signal", "Destroy"}

BInv == TypeOK /\ ClosedCallsSkipGate /\ \A t \in Threads : BFacts(t)

(* ClosedCallsSkipGate for one thread.                                     *)
CFact(t) == pc[t] \in {"entering", "inside"} => ~closedAtStart[t]

(* Free of a null or allocated buffer is null or freed.                    *)
LEMMA FreeOnce ==
  ASSUME NEW b \in {"none", "alloc"}
  PROVE  Free(b) \in {"none", "freed"}
BY DEF Free

(* Thread t's own buffer and gate facts after its step.                   *)
LEMMA OwnBFacts ==
  ASSUME PrimaryOps, TypeOK, NEW t \in Threads, BFacts(t), CFact(t),
         ThreadNext(t)
  PROVE  BFacts(t)' /\ CFact(t)'
<1> USE DEF BFacts, CFact, TypeOK
<1>1. ASSUME NEW o \in {"Call", "Signal", "Destroy"}, NEW h \in BOOLEAN,
             EnclaveCallBegin(t, o, h)
      PROVE  BFacts(t)' /\ CFact(t)'
  <2>1. op'[t] = o /\ outBuf'[t] = "none" /\ closedAtStart'[t] = is_destroyed
    BY <1>1 DEF EnclaveCallBegin, BeginOp
  <2>2. CASE is_destroyed
    BY <1>1, <2>1, <2>2 DEF EnclaveCallBegin, Ready
  <2>3. CASE ~is_destroyed
    BY <1>1, <2>1, <2>3 DEF EnclaveCallBegin
  <2>4. QED
    BY <2>2, <2>3
<1>2. CASE TakeSnapshotBegin(t) \/ TransferKeyBegin(t)
  BY <1>2, PrimaryOps DEF PrimaryOps, TakeSnapshotBegin, TransferKeyBegin, Ready
<1>3. CASE GateEnter(t) \/ GateReject(t)
  BY <1>3 DEF GateEnter, GateReject
<1>4. CASE EnclaveReturn(t)
  <2>1. PICK r \in RetVals(op[t]), sh \in OutShapes(op[t]) :
          outBuf' = [outBuf EXCEPT ![t] = sh.buf]
    BY <1>4 DEF EnclaveReturn
  <2>2. sh.buf \in {"none", "alloc"} /\ (op[t] = "Signal" => sh.buf = "none")
    BY <2>1 DEF OutShapes
  <2>3. QED
    BY <1>4, <2>1, <2>2 DEF EnclaveReturn
<1>5. CASE EnclaveCallReturn(t)
  BY <1>5, FreeOnce DEF EnclaveCallReturn
<1>6. CASE DeliverSignalReturn(t)
  BY <1>6, FreeOnce DEF DeliverSignalReturn
<1>7. CASE TakeSnapshotReturn(t) \/ TransferKeyReturn(t)
  BY <1>7 DEF TakeSnapshotReturn, TransferKeyReturn
<1>8. CASE DestroyEnclave(t)
  BY <1>8 DEF DestroyEnclave
<1>9. QED
  BY <1>1, <1>2, <1>3, <1>4, <1>5, <1>6, <1>7, <1>8
  DEF ThreadNext, DestroyBegin, DeliverSignalBegin

LEMMA NextBInv == PrimaryOps /\ BInv /\ [Next]_vars => BInv'
<1> SUFFICES ASSUME PrimaryOps, TypeOK, \A t \in Threads : BFacts(t) /\ CFact(t),
                    [Next]_vars
             PROVE  TypeOK' /\ \A t \in Threads : BFacts(t)' /\ CFact(t)'
  BY DEF BInv, ClosedCallsSkipGate, CFact
<1>1. TypeOK'
  BY NextTypeOK
<1>2. ASSUME NEW t \in Threads, ThreadNext(t), NEW u \in Threads
      PROVE  BFacts(u)' /\ CFact(u)'
  <2>1. CASE u = t
    BY <1>2, <2>1, OwnBFacts
  <2>2. CASE u # t
    BY <1>2, <2>2, OtherThreadsUnchanged DEF BFacts, CFact
  <2>3. QED
    BY <2>1, <2>2
<1>3. CASE LoadAttempt \/ LoadReturn
  BY <1>1, <1>3 DEF LoadAttempt, LoadReturn, threadVars, BFacts, CFact
<1>4. CASE Terminating \/ UNCHANGED vars
  BY <1>1, <1>4 DEF Terminating, vars, threadVars, BFacts, CFact
<1>5. QED
  BY <1>1, <1>2, <1>3, <1>4 DEF Next

LEMMA BufferInvariance ==
  ASSUME PrimaryOps PROVE Spec => []BInv
<1>1. Init => BInv
  BY InitTypeOK DEF Init, BInv, BFacts, ClosedCallsSkipGate
<1>2. BInv /\ [Next]_vars => BInv'
  BY NextBInv
<1>3. QED
  BY <1>1, <1>2, PTL DEF Spec

(* Buffer ownership (spec 3, 8) for every number of threads and TCSs, on   *)
(* a client used through EnclaveCall, DeliverSignal and Destroy: the input *)
(* and the output buffer of every call are freed at most once, and neither *)
(* is still held when the call returns, whatever the gate and the trusted  *)
(* side answered and however the threads interleave with Destroy.          *)
THEOREM BuffersFreedOnce ==
  ASSUME PrimaryOps PROVE Spec => []BuffersReleasedOnce
<1>1. BInv => BuffersReleasedOnce
  BY DEF BInv, BFacts, BuffersReleasedOnce, TypeOK, PcStates
<1>2. Spec => []BInv
  BY BufferInvariance
<1>3. QED
  BY <1>1, <1>2, PTL
=============================================================================
