------------------------------ MODULE SgxClient ------------------------------
(***************************************************************************)
(* The untrusted side of the SGX call bridge: SgxEnclaveClient in          *)
(* src/asylo/platform/primitives/sgx/untrusted_sgx.cc.                     *)
(*                                                                         *)
(* One client is created by SgxBackend::Load (the bounded retry of         *)
(* sgx_create_enclave_ex) and then shared by several host threads, each    *)
(* of which issues EnclaveCallInternal, DeliverSignalInternal,             *)
(* EnterAndTakeSnapshot or EnterAndTransferSecureSnapshotKey; the owner    *)
(* thread may also call Destroy.  Every call is split at the hardware      *)
(* gate: a Begin step (the host code up to sgx_ecall), the gate entry, the *)
(* trusted side's return (the environment: retval and output buffer are    *)
(* chosen freely), and a Return step (the host code after sgx_ecall,       *)
(* including the Cleanup that frees the buffers).  is_destroyed_ is a      *)
(* plain bool read without a lock, so another thread's Destroy can run     *)
(* between a call's check and its gate entry.                              *)
(***************************************************************************)
EXTENDS Integers, Sequences, FiniteSets

CONSTANTS
  Threads,                    \* host threads sharing the client
  Owner,                      \* the thread that loaded the client and may Destroy it
  Ops,                        \* the operations the threads issue in this model
  MaxOps,                     \* bound on operations per thread
  NumTcs,                     \* thread-control structures of the enclave
  kMaxEnclaveCreateAttempts   \* untrusted_sgx.cc:57

AllOps == {"Call", "Signal", "Snapshot", "Transfer", "Destroy"}

ASSUME OwnerAssumption   == Owner \in Threads
ASSUME OpsAssumption     == Ops \subseteq AllOps
ASSUME MaxOpsAssumption  == MaxOps \in Nat
ASSUME NumTcsAssumption  == NumTcs \in Nat \ {0}
ASSUME AttemptsAssumption == kMaxEnclaveCreateAttempts \in Nat \ {0}

(* Outcomes of sgx_create_enclave_ex: success, the one retryable status,   *)
(* and any other failure.                                                  *)
CreateStatuses == {"SGX_SUCCESS", "INTERRUPTED", "OTHER"}

(* Status codes returned to callers: GoogleError codes and a status in the *)
(* SGX error space carrying the sgx_status_t of a failed gate.             *)
Codes == {"OK", "FAILED_PRECONDITION", "INTERNAL", "INVALID_ARGUMENT", "SGX"}

(* The message texts that tell the signal outcomes apart (lines 369-382).  *)
Msgs == {"none", "unregistered", "bad_state", "blocked", "unexpected"}

StatusRecs == [code : Codes, msg : Msgs]

Status(c, m) == [code |-> c, msg |-> m]
OkStatus == Status("OK", "none")

(* Trusted-side return values of each entry point.  ecall_deliver_signal   *)
(* returns 1, 2, -1 or another code on failure (spec 4.4).                 *)
RetVals(o) == IF o = "Signal" THEN {0, 1, 2, -1, 3} ELSE {0, 1}

(* What the trusted side may leave in the output slot: no buffer, or a     *)
(* buffer in untrusted memory with its length.  The deliver-signal entry   *)
(* produces no output; the snapshot entries may allocate an empty buffer.  *)
OutShapes(o) ==
  CASE o = "Signal"                  -> {[buf |-> "none", len |-> 0]}
    [] o \in {"Snapshot", "Transfer"} -> {[buf |-> "none", len |-> 0],
                                          [buf |-> "alloc", len |-> 0],
                                          [buf |-> "alloc", len |-> 1]}
    [] OTHER                          -> {[buf |-> "none", len |-> 0],
                                          [buf |-> "alloc", len |-> 1]}

(* A heap buffer of one call: never allocated (null pointer), allocated,   *)
(* freed once, or freed twice.                                             *)
BufStates == {"none", "alloc", "freed", "double"}

Free(b) == IF b = "alloc" THEN "freed" ELSE IF b = "freed" THEN "double" ELSE b

PcStates == {"idle", "entering", "inside", "exited", "destroying"}

VARIABLES
  createHistory,  \* statuses returned by the successive sgx_create_enclave_ex calls
  loadPc,         \* "creating", "returning", "loaded" or "failed"
  hw,             \* the platform enclave: "none", "live" or "gone"
  is_destroyed,   \* SgxEnclaveClient::is_destroyed_
  finiOk,         \* the trusted teardown (kSelectorAsyloFini) has completed
  pc,             \* per thread: where it is in its current operation
  op,             \* per thread: the operation it is running
  nOps,           \* per thread: operations started so far
  closedAtStart,  \* per thread: is_destroyed_ when the operation began
  inBuf,          \* per thread: params.input, malloc'ed by the host
  outBuf,         \* per thread: the output buffer allocated by the enclave
  outLen,         \* per thread: output length reported by the enclave
  gate,           \* per thread: sgx_status_t of the gate, "none" before it
  retval,         \* per thread: ms_retval written by the trusted side
  result          \* per thread: Status returned by the last operation

loadVars   == <<createHistory, loadPc>>
clientVars == <<hw, is_destroyed, finiOk>>
threadVars == <<pc, op, nOps, closedAtStart, inBuf, outBuf, outLen, gate, retval, result>>
vars == <<loadVars, clientVars, threadVars>>

Inside == {t \in Threads : pc[t] = "inside"}

TypeOK ==
  /\ createHistory \in Seq(CreateStatuses)
  /\ loadPc \in {"creating", "returning", "loaded", "failed"}
  /\ hw \in {"none", "live", "gone"}
  /\ is_destroyed \in BOOLEAN
  /\ finiOk \in BOOLEAN
  /\ pc \in [Threads -> PcStates]
  /\ op \in [Threads -> AllOps]
  /\ nOps \in [Threads -> 0..MaxOps]
  /\ closedAtStart \in [Threads -> BOOLEAN]
  /\ inBuf \in [Threads -> BufStates]
  /\ outBuf \in [Threads -> BufStates]
  /\ outLen \in [Threads -> {0, 1}]
  /\ gate \in [Threads -> {"none", "SGX_SUCCESS", "SGX_ERROR"}]
  /\ retval \in [Threads -> {0, 1, 2, -1, 3}]
  /\ result \in [Threads -> StatusRecs]

(* The client's is_destroyed_ before Load returns is never observed: the   *)
(* client is handed out only by a successful Load, which sets it FALSE.    *)
Init ==
  /\ createHistory = <<>>
  /\ loadPc = "creating"
  /\ hw = "none"
  /\ is_destroyed = FALSE
  /\ finiOk = FALSE
  /\ pc = [t \in Threads |-> "idle"]
  /\ op = [t \in Threads |-> "Call"]
  /\ nOps = [t \in Threads |-> 0]
  /\ closedAtStart = [t \in Threads |-> FALSE]
  /\ inBuf = [t \in Threads |-> "none"]
  /\ outBuf = [t \in Threads |-> "none"]
  /\ outLen = [t \in Threads |-> 0]
  /\ gate = [t \in Threads |-> "none"]
  /\ retval = [t \in Threads |-> 0]
  /\ result = [t \in Threads |-> OkStatus]

-----------------------------------------------------------------------------
(***************************************************************************)
(* SgxBackend::Load                                                        *)
(***************************************************************************)

(* Mutant: the loop bound off by one (i <= kMaxEnclaveCreateAttempts).   *)
LoadAttemptOffByOne ==
  /\ loadPc = "creating"
  /\ \E s \in CreateStatuses :
       /\ createHistory' = Append(createHistory, s)
       /\ hw' = IF s = "SGX_SUCCESS" THEN "live" ELSE hw
       /\ loadPc' = IF s # "INTERRUPTED"
                         \/ Len(createHistory) + 1 > kMaxEnclaveCreateAttempts
                      THEN "returning" ELSE "creating"
  /\ UNCHANGED <<is_destroyed, finiOk, threadVars>>

(* One pass of the creation loop: call sgx_create_enclave_ex and leave the *)
(* loop unless it reported the interrupted status and attempts remain.     *)
LoadAttempt ==
  /\ loadPc = "creating"
  /\ \E s \in CreateStatuses :
       /\ createHistory' = Append(createHistory, s)
       /\ hw' = IF s = "SGX_SUCCESS" THEN "live" ELSE hw
       /\ loadPc' = IF s # "INTERRUPTED"
                         \/ Len(createHistory) + 1 >= kMaxEnclaveCreateAttempts
                      THEN "returning" ELSE "creating"
  /\ UNCHANGED <<is_destroyed, finiOk, threadVars>>

(* After the loop: fail with the last status, or mark the client open.     *)
LoadReturn ==
  /\ loadPc = "returning"
  /\ IF createHistory[Len(createHistory)] = "SGX_SUCCESS"
       THEN /\ loadPc' = "loaded"
            /\ is_destroyed' = FALSE
       ELSE /\ loadPc' = "failed"
            /\ UNCHANGED is_destroyed
  /\ UNCHANGED <<createHistory, hw, finiOk, threadVars>>

-----------------------------------------------------------------------------
(***************************************************************************)
(* Host threads: the host code before the gate                             *)
(***************************************************************************)

Ready(t, o) ==
  /\ loadPc = "loaded"
  /\ o \in Ops
  /\ pc[t] = "idle"
  /\ nOps[t] < MaxOps

(* The per-call locals every operation starts from: no gate status yet and *)
(* a null output pointer.  ms.ms_retval is never initialized, nor is the   *)
(* bridge_output_len that TakeSnapshot and TransferSecureSnapshotKey copy  *)
(* into *output_len even when the gate failed before the enclave wrote it; *)
(* both hold whatever the stack held (params.output_size of a call is set  *)
(* to 0).  The code only tests them for zero, so the garbage is 0 or 1.    *)
BeginOp(t, o) ==
  /\ op' = [op EXCEPT ![t] = o]
  /\ nOps' = [nOps EXCEPT ![t] = @ + 1]
  /\ closedAtStart' = [closedAtStart EXCEPT ![t] = is_destroyed]
  /\ outBuf' = [outBuf EXCEPT ![t] = "none"]
  /\ \E len \in IF o \in {"Snapshot", "Transfer"} THEN {0, 1} ELSE {0} :
       outLen' = [outLen EXCEPT ![t] = len]
  /\ gate' = [gate EXCEPT ![t] = "none"]
  /\ \E r \in {0, 1} : retval' = [retval EXCEPT ![t] = r]

(* EnclaveCallInternal up to sgx_ecall: refuse a closed client, otherwise  *)
(* malloc and serialize the input when the writer is non-empty.  Destroy   *)
(* enters here too, with kSelectorAsyloFini and no input.                  *)
EnclaveCallBegin(t, o, hasInput) ==
  /\ Ready(t, o)
  /\ BeginOp(t, o)
  /\ IF is_destroyed
       THEN /\ result' = [result EXCEPT ![t] = Status("FAILED_PRECONDITION", "none")]
            /\ inBuf' = [inBuf EXCEPT ![t] = "none"]
            /\ UNCHANGED pc
       ELSE /\ pc' = [pc EXCEPT ![t] = "entering"]
            /\ inBuf' = [inBuf EXCEPT ![t] = IF hasInput THEN "alloc" ELSE "none"]
            /\ UNCHANGED result
  /\ UNCHANGED <<loadVars, clientVars>>

(* DeliverSignalInternal up to sgx_ecall: the same check and input buffer. *)
DeliverSignalBegin(t, hasInput) == EnclaveCallBegin(t, "Signal", hasInput)

(* Destroy: its first statement is EnclaveCall(kSelectorAsyloFini).        *)
DestroyBegin(t) ==
  /\ t = Owner
  /\ EnclaveCallBegin(t, "Destroy", FALSE)

(* EnterAndTakeSnapshot up to sgx_ecall: no is_destroyed_ check.           *)
TakeSnapshotBegin(t) ==
  /\ Ready(t, "Snapshot")
  /\ BeginOp(t, "Snapshot")
  /\ pc' = [pc EXCEPT ![t] = "entering"]
  /\ inBuf' = [inBuf EXCEPT ![t] = "none"]
  /\ UNCHANGED <<loadVars, clientVars, result>>

(* EnterAndTransferSecureSnapshotKey up to sgx_ecall: fail when the        *)
(* ForkHandshakeConfig does not serialize; the input is a std::string, no  *)
(* heap buffer of the bridge; no is_destroyed_ check.                      *)
TransferKeyBegin(t) ==
  /\ Ready(t, "Transfer")
  /\ BeginOp(t, "Transfer")
  /\ inBuf' = [inBuf EXCEPT ![t] = "none"]
  /\ \E serialized \in BOOLEAN :
       IF serialized
         THEN /\ pc' = [pc EXCEPT ![t] = "entering"]
              /\ UNCHANGED result
         ELSE /\ result' = [result EXCEPT ![t] = Status("INVALID_ARGUMENT", "none")]
              /\ UNCHANGED pc
  /\ UNCHANGED <<loadVars, clientVars>>

-----------------------------------------------------------------------------
(***************************************************************************)
(* The call gate and the trusted side (the platform and the enclave are    *)
(* the environment: their answers are chosen freely)                       *)
(***************************************************************************)

(* sgx_ecall enters a live enclave when a TCS is free; it blocks otherwise. *)
GateEnter(t) ==
  /\ pc[t] = "entering"
  /\ hw = "live"
  /\ Cardinality(Inside) < NumTcs
  /\ pc' = [pc EXCEPT ![t] = "inside"]
  /\ UNCHANGED <<loadVars, clientVars, op, nOps, closedAtStart, inBuf, outBuf,
                 outLen, gate, retval, result>>

(* sgx_ecall on a destroyed enclave id fails without entering.             *)
GateReject(t) ==
  /\ pc[t] = "entering"
  /\ hw # "live"
  /\ pc' = [pc EXCEPT ![t] = "exited"]
  /\ gate' = [gate EXCEPT ![t] = "SGX_ERROR"]
  /\ UNCHANGED <<loadVars, clientVars, op, nOps, closedAtStart, inBuf, outBuf,
                 outLen, retval, result>>

(* The trusted entry point returns: it sets ms_retval and may have placed  *)
(* an output buffer in untrusted memory.  If the enclave was destroyed     *)
(* meanwhile the gate reports an error.  A successful fini call is the     *)
(* trusted teardown.                                                       *)
EnclaveReturn(t) ==
  /\ pc[t] = "inside"
  /\ \E r \in RetVals(op[t]), s \in OutShapes(op[t]) :
       /\ retval' = [retval EXCEPT ![t] = r]
       /\ outBuf' = [outBuf EXCEPT ![t] = s.buf]
       /\ outLen' = [outLen EXCEPT ![t] = s.len]
       /\ finiOk' = (finiOk \/ (op[t] = "Destroy" /\ hw = "live" /\ r = 0))
  /\ pc' = [pc EXCEPT ![t] = "exited"]
  /\ gate' = [gate EXCEPT ![t] = IF hw = "live" THEN "SGX_SUCCESS" ELSE "SGX_ERROR"]
  /\ UNCHANGED <<loadVars, hw, is_destroyed, op, nOps, closedAtStart, inBuf, result>>

-----------------------------------------------------------------------------
(***************************************************************************)
(* Host threads: the host code after the gate                              *)
(***************************************************************************)

(* Mutant: the output freed only after a successful Deserialize, as the   *)
(* snapshot paths do, instead of by the Cleanup on every path.            *)
EnclaveCallReturnFreeOnOk(t) ==
  LET status == IF gate[t] # "SGX_SUCCESS" THEN Status("SGX", "none")
                ELSE IF retval[t] # 0 THEN Status("INTERNAL", "none")
                ELSE OkStatus
  IN
  /\ pc[t] = "exited"
  /\ op[t] \in {"Call", "Destroy"}
  /\ inBuf' = [inBuf EXCEPT ![t] = Free(@)]
  /\ outBuf' = [outBuf EXCEPT ![t] = IF status = OkStatus THEN Free(@) ELSE @]
  /\ IF op[t] = "Destroy" /\ status = OkStatus
       THEN /\ pc' = [pc EXCEPT ![t] = "destroying"]
            /\ UNCHANGED result
       ELSE /\ pc' = [pc EXCEPT ![t] = "idle"]
            /\ result' = [result EXCEPT ![t] = status]
  /\ UNCHANGED <<loadVars, clientVars, op, nOps, closedAtStart, outLen, gate, retval>>

(* EnclaveCallInternal after sgx_ecall: map the gate status and ms_retval  *)
(* to a Status, deserialize the output, and let Cleanup free both buffers. *)
(* For Destroy, an OK fini call goes on to sgx_destroy_enclave.            *)
EnclaveCallReturn(t) ==
  LET status == IF gate[t] # "SGX_SUCCESS" THEN Status("SGX", "none")
                ELSE IF retval[t] # 0 THEN Status("INTERNAL", "none")
                ELSE OkStatus
  IN
  /\ pc[t] = "exited"
  /\ op[t] \in {"Call", "Destroy"}
  /\ inBuf' = [inBuf EXCEPT ![t] = Free(@)]
  /\ outBuf' = [outBuf EXCEPT ![t] = Free(@)]
  /\ IF op[t] = "Destroy" /\ status = OkStatus
       THEN /\ pc' = [pc EXCEPT ![t] = "destroying"]
            /\ UNCHANGED result
       ELSE /\ pc' = [pc EXCEPT ![t] = "idle"]
            /\ result' = [result EXCEPT ![t] = status]
  /\ UNCHANGED <<loadVars, clientVars, op, nOps, closedAtStart, outLen, gate, retval>>

(* Mutant: the switch without its default case, leaving the message empty. *)
SignalMsgNoDefault(r) ==
  CASE r = 1  -> "unregistered"
    [] r = 2  -> "bad_state"
    [] r = -1 -> "blocked"
    [] OTHER  -> ""

(* The message of a failed signal delivery (the switch on ms_retval).      *)
SignalMsg(r) ==
  CASE r = 1  -> "unregistered"
    [] r = 2  -> "bad_state"
    [] r = -1 -> "blocked"
    [] OTHER  -> "unexpected"

(* DeliverSignalInternal after sgx_ecall: Cleanup frees only the input.    *)
DeliverSignalReturn(t) ==
  /\ pc[t] = "exited"
  /\ op[t] = "Signal"
  /\ inBuf' = [inBuf EXCEPT ![t] = Free(@)]
  /\ pc' = [pc EXCEPT ![t] = "idle"]
  /\ result' = [result EXCEPT ![t] =
                  IF gate[t] # "SGX_SUCCESS" THEN Status("SGX", "none")
                  ELSE IF retval[t] # 0 THEN Status("INTERNAL", SignalMsg(retval[t]))
                  ELSE OkStatus]
  /\ UNCHANGED <<loadVars, clientVars, op, nOps, closedAtStart, outBuf, outLen,
                 gate, retval>>

(* Mutant: the empty-output check of TakeSnapshot dropped.                 *)
TakeSnapshotStatusNoEmptyCheck(t) ==
  IF gate[t] # "SGX_SUCCESS" THEN Status("SGX", "none")
  ELSE IF retval[t] # 0 THEN Status("INTERNAL", "none")
  ELSE OkStatus

(* The status of the static TakeSnapshot: a failed gate, a non-zero        *)
(* ms_retval or an empty output are errors, even when the gate and the     *)
(* trusted side both reported success.                                     *)
TakeSnapshotStatus(t) ==
  IF gate[t] # "SGX_SUCCESS" THEN Status("SGX", "none")
  ELSE IF retval[t] # 0 \/ outLen[t] = 0 THEN Status("INTERNAL", "none")
  ELSE OkStatus

(* The status of the static TransferSecureSnapshotKey, a copy of           *)
(* TakeSnapshot's contract for entry point 4.                              *)
TransferKeyStatus(t) ==
  IF gate[t] # "SGX_SUCCESS" THEN Status("SGX", "none")
  ELSE IF retval[t] # 0 \/ outLen[t] = 0 THEN Status("INTERNAL", "none")
  ELSE OkStatus

(* EnterAndTakeSnapshot after sgx_ecall: return the error of TakeSnapshot  *)
(* at once; otherwise parse the output, restore its embedded status and    *)
(* free the buffer.                                                        *)
TakeSnapshotReturn(t) ==
  /\ pc[t] = "exited"
  /\ op[t] = "Snapshot"
  /\ pc' = [pc EXCEPT ![t] = "idle"]
  /\ IF TakeSnapshotStatus(t) # OkStatus
       THEN /\ result' = [result EXCEPT ![t] = TakeSnapshotStatus(t)]
            /\ UNCHANGED outBuf
       ELSE /\ \E inner \in {"OK", "INTERNAL"} :
                 result' = [result EXCEPT ![t] = Status(inner, "none")]
            /\ outBuf' = [outBuf EXCEPT ![t] = Free(@)]
  /\ UNCHANGED <<loadVars, clientVars, op, nOps, closedAtStart, inBuf, outLen,
                 gate, retval>>

(* EnterAndTransferSecureSnapshotKey after sgx_ecall: the same contract;   *)
(* the output is a StatusProto returned as the call's own status.          *)
TransferKeyReturn(t) ==
  /\ pc[t] = "exited"
  /\ op[t] = "Transfer"
  /\ pc' = [pc EXCEPT ![t] = "idle"]
  /\ IF TransferKeyStatus(t) # OkStatus
       THEN /\ result' = [result EXCEPT ![t] = TransferKeyStatus(t)]
            /\ UNCHANGED outBuf
       ELSE /\ \E inner \in {"OK", "INTERNAL"} :
                 result' = [result EXCEPT ![t] = Status(inner, "none")]
            /\ outBuf' = [outBuf EXCEPT ![t] = Free(@)]
  /\ UNCHANGED <<loadVars, clientVars, op, nOps, closedAtStart, inBuf, outLen,
                 gate, retval>>

(* Mutant: is_destroyed_ set whatever sgx_destroy_enclave returned.       *)
DestroyEnclaveIgnoreStatus(t) ==
  /\ pc[t] = "destroying"
  /\ pc' = [pc EXCEPT ![t] = "idle"]
  /\ is_destroyed' = TRUE
  /\ \E ok \in BOOLEAN :
       IF ok
         THEN /\ hw' = "gone"
              /\ result' = [result EXCEPT ![t] = OkStatus]
         ELSE /\ result' = [result EXCEPT ![t] = Status("SGX", "none")]
              /\ UNCHANGED hw
  /\ UNCHANGED <<loadVars, finiOk, op, nOps, closedAtStart, inBuf, outBuf, outLen,
                 gate, retval>>

(* Destroy after the fini call: sgx_destroy_enclave, and is_destroyed_ is  *)
(* set only when it succeeds.                                              *)
DestroyEnclave(t) ==
  /\ pc[t] = "destroying"
  /\ pc' = [pc EXCEPT ![t] = "idle"]
  /\ \E ok \in BOOLEAN :
       IF ok
         THEN /\ hw' = "gone"
              /\ is_destroyed' = TRUE
              /\ result' = [result EXCEPT ![t] = OkStatus]
         ELSE /\ result' = [result EXCEPT ![t] = Status("SGX", "none")]
              /\ UNCHANGED <<hw, is_destroyed>>
  /\ UNCHANGED <<loadVars, finiOk, op, nOps, closedAtStart, inBuf, outBuf, outLen,
                 gate, retval>>

(* Nothing is left to do: Load failed, or every thread has used its        *)
(* operations and returned.                                                *)
Terminating ==
  /\ \/ loadPc = "failed"
     \/ \A t \in Threads : pc[t] = "idle" /\ nOps[t] = MaxOps
  /\ UNCHANGED vars

ThreadNext(t) ==
  \/ \E h \in BOOLEAN : EnclaveCallBegin(t, "Call", h)
  \/ \E h \in BOOLEAN : DeliverSignalBegin(t, h)
  \/ DestroyBegin(t)
  \/ TakeSnapshotBegin(t)
  \/ TransferKeyBegin(t)
  \/ GateEnter(t)
  \/ GateReject(t)
  \/ EnclaveReturn(t)
  \/ EnclaveCallReturn(t)
  \/ DeliverSignalReturn(t)
  \/ TakeSnapshotReturn(t)
  \/ TransferKeyReturn(t)
  \/ DestroyEnclave(t)

Next ==
  \/ LoadAttempt
  \/ LoadReturn
  \/ \E t \in Threads : ThreadNext(t)
  \/ Terminating

Spec == Init /\ [][Next]_vars

-----------------------------------------------------------------------------
(***************************************************************************)
(* Properties                                                              *)
(***************************************************************************)

(* Load's retry contract (spec 4.1, 8): sgx_create_enclave_ex is retried   *)
(* only after the interrupted status, at most kMaxEnclaveCreateAttempts    *)
(* times, and Load succeeds exactly when the last attempt did.             *)
LoadRetryContract ==
  LET n == Len(createHistory) IN
  /\ n <= kMaxEnclaveCreateAttempts
  /\ \A i \in 1..(n - 1) : createHistory[i] = "INTERRUPTED"
  /\ loadPc \in {"returning", "loaded", "failed"} =>
       /\ n >= 1
       /\ createHistory[n] = "INTERRUPTED" => n = kMaxEnclaveCreateAttempts
  /\ loadPc = "loaded" => createHistory[n] = "SGX_SUCCESS" /\ hw # "none"
  /\ loadPc = "failed" => createHistory[n] # "SGX_SUCCESS"

(* Buffer ownership (spec 3, 8): every buffer of a call -- the input the   *)
(* host malloc'ed and the output the enclave allocated in untrusted memory *)
(* -- is freed at most once, and no longer held when the call returns,     *)
(* whatever the gate and the trusted side answered and however the         *)
(* threads interleave with Destroy.                                        *)
BuffersReleasedOnce ==
  \A t \in Threads :
    /\ inBuf[t] # "double"
    /\ outBuf[t] # "double"
    /\ pc[t] = "idle" => inBuf[t] # "alloc" /\ outBuf[t] # "alloc"

(* Closing (spec 3, 4.1): once IsClosed() reports TRUE the platform        *)
(* enclave has been destroyed and the trusted teardown had completed       *)
(* successfully before it.                                                 *)
DestroyedAfterTeardown ==
  is_destroyed => hw = "gone" /\ finiOk

(* Calls on a closed client (spec 3, 8): an operation that began when      *)
(* IsClosed() was already TRUE never reaches the hardware call gate.       *)
ClosedCallsSkipGate ==
  \A t \in Threads :
    pc[t] \in {"entering", "inside"} => ~closedAtStart[t]

(* The snapshot contract (spec 4.5, 8): a snapshot or key transfer reports *)
(* OK only if the gate succeeded, the trusted side returned 0 and it       *)
(* produced a non-empty output whose embedded status was OK.               *)
StructuredOkHasContent ==
  \A t \in Threads :
    (pc[t] = "idle" /\ op[t] \in {"Snapshot", "Transfer"} /\ result[t] = OkStatus
       /\ nOps[t] > 0)
      => gate[t] = "SGX_SUCCESS" /\ retval[t] = 0 /\ outLen[t] > 0

(* Teardown is the last call (spec 2): Destroy performs "one last          *)
(* in-enclave call" to run the trusted teardown, so once that fini call    *)
(* has completed no thread is inside the enclave.  EnclaveCallInternal's   *)
(* unlocked is_destroyed_ test (line 288) lets a call that passed it enter *)
(* after the fini call, and a Destroy retried after sgx_destroy_enclave    *)
(* failed (line 266) runs the fini call again.                             *)
TeardownIsLastCall ==
  finiOk => Inside = {}
=============================================================================
