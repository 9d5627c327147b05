--------------------------- MODULE SgxClientProofs ---------------------------
(***************************************************************************)
(* Proofs about SgxClient for every value of the constants: type           *)
(* correctness, and that IsClosed() implies the enclave was torn down and  *)
(* destroyed.                                                              *)
(***************************************************************************)
EXTENDS SgxClient, TLAPS

(* The outputs the trusted side can leave are buffers of the model.        *)
LEMMA OutShapesType ==
  ASSUME NEW o \in AllOps
  PROVE  OutShapes(o) \subseteq [buf : {"none", "alloc"}, len : {0, 1}]
BY DEF OutShapes

(* Free keeps a buffer state a buffer state.                               *)
LEMMA FreeType ==
  ASSUME NEW b \in BufStates
  PROVE  Free(b) \in BufStates
BY DEF Free, BufStates

(* Every status the model builds is a status record.                      *)
LEMMA StatusInRecs ==
  ASSUME NEW c \in Codes, NEW m \in Msgs
  PROVE  Status(c, m) \in StatusRecs
BY DEF Status, StatusRecs

(* The statuses of the operations without a signal message.               *)
LEMMA PlainStatuses ==
  \A c \in Codes : Status(c, "none") \in StatusRecs
BY StatusInRecs DEF Msgs

LEMMA SignalMsgType ==
  ASSUME NEW r
  PROVE  SignalMsg(r) \in Msgs
BY DEF SignalMsg, Msgs

(* The statuses TakeSnapshot and TransferSecureSnapshotKey compute.      *)
LEMMA EcallStatusType ==
  ASSUME NEW t
  PROVE  /\ TakeSnapshotStatus(t) \in StatusRecs
         /\ TransferKeyStatus(t) \in StatusRecs
BY PlainStatuses DEF TakeSnapshotStatus, TransferKeyStatus, OkStatus, Codes

(* Recording one thread's status keeps result a map to status records.    *)
LEMMA ResultUpdate ==
  ASSUME NEW f \in [Threads -> StatusRecs], NEW t \in Threads,
         NEW g, g = f \/ \E s \in StatusRecs : g = [f EXCEPT ![t] = s]
  PROVE  g \in [Threads -> StatusRecs]
OBVIOUS

-----------------------------------------------------------------------------
(* Type correctness.                                                       *)

LEMMA InitTypeOK == Init => TypeOK
<1> SUFFICES ASSUME Init PROVE TypeOK
  OBVIOUS
<1>1. createHistory \in Seq(CreateStatuses)
  BY DEF Init
<1>2. result \in [Threads -> StatusRecs]
  BY PlainStatuses DEF Init, OkStatus, Codes
<1>3. nOps \in [Threads -> 0..MaxOps]
  BY MaxOpsAssumption DEF Init
<1>4. /\ pc \in [Threads -> PcStates]
      /\ op \in [Threads -> AllOps]
      /\ inBuf \in [Threads -> BufStates]
      /\ outBuf \in [Threads -> BufStates]
  BY DEF Init, PcStates, AllOps, BufStates
<1>5. QED
  BY <1>1, <1>2, <1>3, <1>4 DEF Init, TypeOK

(* One thread's step keeps the state well typed; each case first shows    *)
(* that result stays a map to status records.                             *)
LEMMA ThreadTypeOK ==
  ASSUME TypeOK, NEW t \in Threads, ThreadNext(t)
  PROVE  TypeOK'
<1> USE MaxOpsAssumption, PlainStatuses DEF TypeOK, loadVars, clientVars, threadVars
<1> DEFINE ResultStep == result' = result \/ \E s \in StatusRecs : result' = [result EXCEPT ![t] = s]
<1>0. ResultStep => result' \in [Threads -> StatusRecs]
  BY ResultUpdate
<1>1. ASSUME NEW o \in AllOps, NEW h \in BOOLEAN, EnclaveCallBegin(t, o, h)
      PROVE  TypeOK'
  <2>1. ResultStep
    BY <1>1 DEF EnclaveCallBegin, Codes
  <2>2. inBuf' \in [Threads -> BufStates] /\ pc' \in [Threads -> PcStates]
    <3>1. CASE is_destroyed
      BY <1>1, <3>1 DEF EnclaveCallBegin, BufStates
    <3>2. CASE ~is_destroyed
      BY <1>1, <3>2 DEF EnclaveCallBegin, BufStates, PcStates
    <3>3. QED
      BY <3>1, <3>2
  <2>3. QED
    BY <1>0, <1>1, <2>1, <2>2 DEF EnclaveCallBegin, Ready, BeginOp, BufStates
<1>2. CASE DestroyBegin(t)
  BY <1>2, <1>1 DEF DestroyBegin, AllOps
<1>3. CASE \E h \in BOOLEAN : DeliverSignalBegin(t, h)
  BY <1>3, <1>1 DEF DeliverSignalBegin, AllOps
<1>4. CASE \E h \in BOOLEAN : EnclaveCallBegin(t, "Call", h)
  BY <1>4, <1>1 DEF AllOps
<1>5. CASE TakeSnapshotBegin(t)
  BY <1>5 DEF TakeSnapshotBegin, Ready, BeginOp, BufStates, PcStates, AllOps
<1>6. CASE TransferKeyBegin(t)
  <2>1. ResultStep
    BY <1>6 DEF TransferKeyBegin, Codes
  <2>2. pc' \in [Threads -> PcStates]
    BY <1>6 DEF TransferKeyBegin, PcStates
  <2>3. /\ op' \in [Threads -> AllOps]
        /\ nOps' \in [Threads -> 0..MaxOps]
        /\ inBuf' \in [Threads -> BufStates]
        /\ outBuf' \in [Threads -> BufStates]
    BY <1>6 DEF TransferKeyBegin, BeginOp, Ready, BufStates, AllOps
  <2>4. QED
    BY <1>0, <1>6, <2>1, <2>2, <2>3 DEF TransferKeyBegin, BeginOp
<1>7. CASE GateEnter(t)
  BY <1>7 DEF GateEnter, PcStates
<1>8. CASE GateReject(t)
  BY <1>8 DEF GateReject, PcStates
<1>9. CASE EnclaveReturn(t)
  <2>1. PICK r \in RetVals(op[t]), s \in OutShapes(op[t]) :
          /\ retval' = [retval EXCEPT ![t] = r]
          /\ outBuf' = [outBuf EXCEPT ![t] = s.buf]
          /\ outLen' = [outLen EXCEPT ![t] = s.len]
          /\ finiOk' = (finiOk \/ (op[t] = "Destroy" /\ hw = "live" /\ r = 0))
    BY <1>9 DEF EnclaveReturn
  <2>2. s.buf \in BufStates /\ s.len \in {0, 1}
    BY <2>1, OutShapesType DEF BufStates
  <2>3. r \in {0, 1, 2, -1, 3}
    BY <2>1 DEF RetVals
  <2>4. QED
    BY <1>9, <2>1, <2>2, <2>3 DEF EnclaveReturn, PcStates
<1>10. CASE EnclaveCallReturn(t)
  <2>1. ResultStep
    BY <1>10 DEF EnclaveCallReturn, OkStatus, Codes
  <2>2. QED
    BY <1>0, <1>10, <2>1, FreeType DEF EnclaveCallReturn, PcStates
<1>11. CASE DeliverSignalReturn(t)
  <2>1. Status("INTERNAL", SignalMsg(retval[t])) \in StatusRecs
    BY SignalMsgType, StatusInRecs DEF Codes
  <2>2. ResultStep
    BY <1>11, <2>1 DEF DeliverSignalReturn, OkStatus, Codes
  <2>3. QED
    BY <1>0, <1>11, <2>2, FreeType DEF DeliverSignalReturn, PcStates
<1>12. CASE TakeSnapshotReturn(t)
  <2>1. ResultStep
    BY <1>12, EcallStatusType, PlainStatuses DEF TakeSnapshotReturn, Codes
  <2>2. outBuf' \in [Threads -> BufStates]
    BY <1>12, FreeType DEF TakeSnapshotReturn
  <2>3. QED
    BY <1>0, <1>12, <2>1, <2>2 DEF TakeSnapshotReturn, PcStates
<1>13. CASE TransferKeyReturn(t)
  <2>1. ResultStep
    BY <1>13, EcallStatusType, PlainStatuses DEF TransferKeyReturn, Codes
  <2>2. outBuf' \in [Threads -> BufStates]
    BY <1>13, FreeType DEF TransferKeyReturn
  <2>3. QED
    BY <1>0, <1>13, <2>1, <2>2 DEF TransferKeyReturn, PcStates
<1>14. CASE DestroyEnclave(t)
  <2>1. ResultStep
    BY <1>14 DEF DestroyEnclave, OkStatus, Codes
  <2>2. QED
    BY <1>0, <1>14, <2>1 DEF DestroyEnclave, PcStates
<1>15. QED
  BY <1>2, <1>3, <1>4, <1>5, <1>6, <1>7, <1>8, <1>9, <1>10, <1>11, <1>12,
     <1>13, <1>14 DEF ThreadNext

LEMMA NextTypeOK == TypeOK /\ [Next]_vars => TypeOK'
<1> SUFFICES ASSUME TypeOK, [Next]_vars PROVE TypeOK'
  OBVIOUS
<1>1. CASE LoadAttempt
  BY <1>1 DEF LoadAttempt, CreateStatuses, TypeOK, threadVars
<1>2. CASE LoadReturn
  BY <1>2 DEF LoadReturn, TypeOK, threadVars
<1>3. CASE \E t \in Threads : ThreadNext(t)
  BY <1>3, ThreadTypeOK
<1>4. CASE Terminating
  BY <1>4 DEF Terminating, TypeOK, vars, loadVars, clientVars, threadVars
<1>5. CASE UNCHANGED vars
  BY <1>5 DEF TypeOK, vars, loadVars, clientVars, threadVars
<1>6. QED
  BY <1>1, <1>2, <1>3, <1>4, <1>5 DEF Next

(* The model's states are well typed, whatever the constants.              *)
THEOREM TypeCorrect == Spec => []TypeOK
BY InitTypeOK, NextTypeOK, PTL DEF Spec

-----------------------------------------------------------------------------
(***************************************************************************)
(* IsClosed() implies teardown and destruction.  DestroyedAfterTeardown   *)
(* alone is not inductive: DestroyEnclave sets is_destroyed_ from the      *)
(* "destroying" state, which is reached only from a fini call that the     *)
(* gate and the trusted side both reported successful.  The strengthening *)
(* carries that fact along the owner's pc, and records that no thread      *)
(* leaves "idle" before Load has finished (so Load never revives hw).      *)
(***************************************************************************)

FiniReported(t) ==
  op[t] = "Destroy" /\ gate[t] = "SGX_SUCCESS" /\ retval[t] = 0

ThreadFacts(t) ==
  /\ pc[t] # "idle" => loadPc = "loaded"
  /\ pc[t] = "destroying" => finiOk
  /\ pc[t] = "exited" /\ FiniReported(t) => finiOk

ClosureFacts ==
  /\ DestroyedAfterTeardown
  /\ is_destroyed => loadPc = "loaded"
  /\ \A t \in Threads : ThreadFacts(t)

IInv == TypeOK /\ ClosureFacts


LEMMA InitIInv == Init => IInv
BY InitTypeOK DEF Init, IInv, ClosureFacts, ThreadFacts, DestroyedAfterTeardown

(* What a step of thread t leaves alone: Load's state, the other threads' *)
(* call state; finiOk only grows; hw only becomes "gone", and is_destroyed_*)
(* is set only by the owner's DestroyEnclave.                              *)
ThreadFrame(t) ==
  /\ loadPc' = loadPc
  /\ finiOk => finiOk'
  /\ hw' # hw => hw' = "gone"
  /\ is_destroyed' /\ ~is_destroyed => hw' = "gone" /\ pc[t] = "destroying"
  /\ \A u \in Threads \ {t} :
       /\ pc'[u] = pc[u]
       /\ op'[u] = op[u]
       /\ gate'[u] = gate[u]
       /\ retval'[u] = retval[u]

LEMMA ThreadFrameHolds ==
  ASSUME TypeOK, NEW t \in Threads, ThreadNext(t)
  PROVE  ThreadFrame(t)
<1> USE DEF TypeOK, ThreadFrame, loadVars, clientVars, threadVars
<1>1. ASSUME NEW o \in AllOps, NEW h \in BOOLEAN, EnclaveCallBegin(t, o, h)
      PROVE  ThreadFrame(t)
  BY <1>1 DEF EnclaveCallBegin, BeginOp
<1>2. CASE TakeSnapshotBegin(t)
  BY <1>2 DEF TakeSnapshotBegin, BeginOp
<1>3. CASE TransferKeyBegin(t)
  BY <1>3 DEF TransferKeyBegin, BeginOp
<1>4. CASE GateEnter(t)
  BY <1>4 DEF GateEnter
<1>5. CASE GateReject(t)
  BY <1>5 DEF GateReject
<1>6. CASE EnclaveReturn(t)
  BY <1>6 DEF EnclaveReturn
<1>7. CASE EnclaveCallReturn(t)
  BY <1>7 DEF EnclaveCallReturn
<1>8. CASE DeliverSignalReturn(t)
  BY <1>8 DEF DeliverSignalReturn
<1>9. CASE TakeSnapshotReturn(t)
  BY <1>9 DEF TakeSnapshotReturn
<1>10. CASE TransferKeyReturn(t)
  BY <1>10 DEF TransferKeyReturn
<1>11. CASE DestroyEnclave(t)
  BY <1>11 DEF DestroyEnclave
<1>12. QED
  BY <1>1, <1>2, <1>3, <1>4, <1>5, <1>6, <1>7, <1>8, <1>9, <1>10, <1>11
  DEF ThreadNext, DestroyBegin, DeliverSignalBegin, AllOps

(* Thread t's own facts after its step, one case per action.               *)
LEMMA OwnThreadFacts ==
  ASSUME TypeOK, ClosureFacts, NEW t \in Threads, ThreadNext(t)
  PROVE  ThreadFacts(t)'
<1> USE DEF TypeOK, ThreadFacts, FiniReported, loadVars, clientVars, threadVars
<1>0. ThreadFacts(t)
  BY DEF ClosureFacts
<1>1. ASSUME NEW o \in AllOps, NEW h \in BOOLEAN, EnclaveCallBegin(t, o, h)
      PROVE  ThreadFacts(t)'
  BY <1>1 DEF EnclaveCallBegin, Ready
<1>2. CASE TakeSnapshotBegin(t)
  BY <1>2 DEF TakeSnapshotBegin, Ready
<1>3. CASE TransferKeyBegin(t)
  BY <1>3 DEF TransferKeyBegin, Ready
<1>4. CASE GateEnter(t)
  BY <1>0, <1>4 DEF GateEnter
<1>5. CASE GateReject(t)
  BY <1>0, <1>5 DEF GateReject
<1>6. CASE EnclaveReturn(t)
  BY <1>0, <1>6 DEF EnclaveReturn
<1>7. CASE EnclaveCallReturn(t)
  BY <1>0, <1>7 DEF EnclaveCallReturn, OkStatus, Status
<1>8. CASE DeliverSignalReturn(t)
  BY <1>8 DEF DeliverSignalReturn
<1>9. CASE TakeSnapshotReturn(t)
  BY <1>9 DEF TakeSnapshotReturn
<1>10. CASE TransferKeyReturn(t)
  BY <1>10 DEF TransferKeyReturn
<1>11. CASE DestroyEnclave(t)
  BY <1>11 DEF DestroyEnclave
<1>12. QED
  BY <1>1, <1>2, <1>3, <1>4, <1>5, <1>6, <1>7, <1>8, <1>9, <1>10, <1>11
  DEF ThreadNext, DestroyBegin, DeliverSignalBegin, AllOps

LEMMA ThreadClosure ==
  ASSUME TypeOK, ClosureFacts, NEW t \in Threads, ThreadNext(t)
  PROVE  ClosureFacts'
<1>1. ThreadFrame(t)
  BY ThreadFrameHolds
<1>2. ThreadFacts(t)'
  BY OwnThreadFacts
<1>3. ASSUME NEW u \in Threads \ {t} PROVE ThreadFacts(u)'
  BY <1>1 DEF ThreadFrame, ThreadFacts, FiniReported, ClosureFacts
<1>4. DestroyedAfterTeardown' /\ (is_destroyed' => loadPc' = "loaded")
  <2>1. CASE is_destroyed
    BY <1>1, <2>1 DEF ThreadFrame, ClosureFacts, DestroyedAfterTeardown
  <2>2. CASE ~is_destroyed
    BY <1>1, <2>2 DEF ThreadFrame, ClosureFacts, ThreadFacts, DestroyedAfterTeardown
  <2>3. QED
    BY <2>1, <2>2
<1>5. QED
  BY <1>2, <1>3, <1>4 DEF ClosureFacts

LEMMA NextIInv == IInv /\ [Next]_vars => IInv'
<1> SUFFICES ASSUME IInv, [Next]_vars PROVE IInv'
  OBVIOUS
<1>1. TypeOK'
  BY NextTypeOK DEF IInv
<1>2. ASSUME LoadAttempt PROVE ClosureFacts'
  BY <1>2 DEF IInv, LoadAttempt, ClosureFacts, ThreadFacts, FiniReported,
             DestroyedAfterTeardown, threadVars
<1>3. ASSUME LoadReturn PROVE ClosureFacts'
  BY <1>3 DEF IInv, LoadReturn, ClosureFacts, ThreadFacts, FiniReported,
             DestroyedAfterTeardown, threadVars
<1>4. ASSUME NEW t \in Threads, ThreadNext(t) PROVE ClosureFacts'
  BY <1>4, ThreadClosure DEF IInv
<1>5. ASSUME Terminating \/ UNCHANGED vars PROVE ClosureFacts'
  BY <1>5 DEF IInv, Terminating, vars, loadVars, clientVars, threadVars,
             ClosureFacts, ThreadFacts, FiniReported, DestroyedAfterTeardown
<1>6. QED
  BY <1>1, <1>2, <1>3, <1>4, <1>5 DEF Next, IInv

(* Once IsClosed() reports TRUE, the trusted teardown has completed and    *)
(* the platform enclave has been destroyed, for every number of threads.   *)
THEOREM TeardownBeforeClose == Spec => []DestroyedAfterTeardown
<1>1. Init => IInv
  BY InitIInv
<1>2. IInv /\ [Next]_vars => IInv'
  BY NextIInv
<1>3. IInv => DestroyedAfterTeardown
  BY DEF IInv, ClosureFacts
<1>4. QED
  BY <1>1, <1>2, <1>3, PTL DEF Spec

=============================================================================
