----------------------- MODULE SignalTestEnclaveProofs -----------------------
(***************************************************************************)
(* Type correctness of the active-enclave signal test for every timeout   *)
(* and every set of test types the host may send: the poll counter and    *)
(* SetSignalMask's loop counter stay within kTimeout, and every thread's   *)
(* stack of running handlers stays a sequence of well-formed frames.       *)
(***************************************************************************)
EXTENDS SignalTestEnclave, SequenceTheorems, TLAPS

(* RunSignalTest's counter is only advanced by the poll loop, which is     *)
(* re-entered only while `++count < kTimeout` held: before and in the loop *)
(* main has polled fewer than kTimeout times.                              *)
PollBelowTimeout == mpc \in {"start", "poll"} => count < kTimeout

IInv == TypeOK /\ PollBelowTimeout

(* A frame of a thread's stack of running handlers.                        *)
Frame == [sig : Sigs, step : {1, 2}]

-----------------------------------------------------------------------------

LEMMA InitIInv == Init => IInv
<1> SUFFICES ASSUME Init PROVE IInv
  OBVIOUS
<1>1. frames \in [Thr -> Seq(Frame)]
  BY EmptySeq DEF Init
<1>2. flags \in [Thr -> Flags] /\ mask \in [Thr -> SUBSET Sigs]
  BY DEF Init, Flags, NoFlags
<1>3. count \in 0..kTimeout /\ count < kTimeout /\ mi \in 0..kTimeout
  BY SignalTestAssumption DEF Init
<1>4. QED
  BY <1>1, <1>2, <1>3 DEF Init, IInv, TypeOK, PollBelowTimeout, Verdicts,
                          Frame

(* Starting a handler pushes a well-formed frame.                          *)
LEMMA PushType ==
  ASSUME TypeOK, NEW th \in Thr, NEW s \in Sigs, Push(th, s)
  PROVE  frames' \in [Thr -> Seq(Frame)] /\ nested' \in BOOLEAN
<1>1. frames[th] \in Seq(Frame)
  BY DEF TypeOK, Frame
<1>2. Append(frames[th], [sig |-> s, step |-> 1]) \in Seq(Frame)
  BY <1>1, AppendProperties DEF Frame
<1>3. QED
  BY <1>2 DEF TypeOK, Push, Frame

(* Returning from, or advancing, the innermost handler leaves the stack of *)
(* frames well formed.                                                     *)
LEMMA HandlerStepType ==
  ASSUME TypeOK, NEW th \in Thr, HandlerStep(th)
  PROVE  frames' \in [Thr -> Seq(Frame)] /\ flags' \in [Thr -> Flags]
<1> DEFINE top == Len(frames[th])
           f   == frames[th][top]
           h   == handler[f.sig]
           fl  == flags[th]
<1>1. frames[th] \in Seq(Frame) /\ frames[th] # <<>>
  BY DEF TypeOK, Frame, HandlerStep
<1>2. top \in Nat \ {0} /\ f \in Frame
  BY <1>1, LenProperties, ElementOfSeq, EmptySeq
<1>3. fl \in Flags
  BY DEF TypeOK
<1>4. CASE h = "SigActionMask" /\ f.step = 1
  <2>1. flags' = [flags EXCEPT ![th].sh = @ \/ f.sig = "SIGUSR1"]
        /\ frames' = [frames EXCEPT ![th][top].step = 2]
    BY <1>4 DEF HandlerStep
  <2>2. [frames[th] EXCEPT ![top].step = 2] \in Seq(Frame)
    BY <1>1, <1>2, LenProperties DEF Frame
  <2>3. QED
    BY <1>3, <2>1, <2>2 DEF TypeOK, Flags, Frame
<1>5. CASE ~(h = "SigActionMask" /\ f.step = 1)
  <2>1. frames' = [frames EXCEPT ![th] = SubSeq(@, 1, top - 1)]
        /\ flags' = [flags EXCEPT ![th] =
                     IF h = "SigActionMask"
                       THEN [fl EXCEPT !.shi = @ \/ fl.bsh]
                       ELSE [fl EXCEPT !.sh = @ \/ f.sig = "SIGUSR1",
                                       !.bsh = @ \/ (h = "Handler" /\ f.sig = "SIGUSR2")]]
    BY <1>5 DEF HandlerStep
  <2>2. SubSeq(frames[th], 1, top - 1) \in Seq(Frame)
    <3>1. \A i \in 1..(top - 1) : frames[th][i] \in Frame
      BY <1>1, <1>2, ElementOfSeq
    <3>2. QED
      BY <1>2, <3>1, SubSeqProperties
  <2>3. QED
    BY <1>3, <2>1, <2>2 DEF TypeOK, Flags, Frame
<1>6. QED
  BY <1>4, <1>5
(* Every step of main, of the masker, of the host and of a handler keeps   *)
(* the strengthened invariant.                                             *)
LEMMA NextIInv == IInv /\ [Next]_vars => IInv'
<1> SUFFICES ASSUME IInv, [Next]_vars PROVE IInv'
  OBVIOUS
<1>0. TypeOK /\ PollBelowTimeout /\ kTimeout \in Nat \ {0}
  BY SignalTestAssumption DEF IInv
<1>1. CASE RunStart
  <2>1. CASE type \notin ValidTypes
    BY <1>0, <1>1, <2>1 DEF RunStart, IInv, TypeOK, PollBelowTimeout, Verdicts
  <2>2. CASE type \in ValidTypes
    <3>1. PICK g \in SUBSET Sigs :
            saMask' =
              CASE type = "SIGNAL" -> [s \in Sigs |-> {}]
                [] type = "SIGACTIONMASK" ->
                     [s \in Sigs |-> IF s = "SIGUSR1" THEN {"SIGUSR2"} ELSE g]
                [] OTHER -> [s \in Sigs |-> IF s = "SIGUSR1" THEN g ELSE {}]
      BY <1>1, <2>2 DEF RunStart
    <3>2. saMask' \in [Sigs -> SUBSET Sigs]
      BY <3>1 DEF Sigs
    <3>3. handler' \in [Sigs -> {"default", "Handler", "SigAction", "SigActionMask"}]
      BY <1>1, <2>2 DEF RunStart, HandlerOf
    <3>4. mask' \in [Thr -> SUBSET Sigs]
      BY <1>0, <1>1, <2>2 DEF RunStart, TypeOK, Sigs, Thr
    <3>5. QED
      BY <1>0, <1>1, <2>2, <3>2, <3>3, <3>4
         DEF RunStart, IInv, TypeOK, PollBelowTimeout
  <2>3. QED
    BY <2>1, <2>2
<1>2. CASE PollStep
  <2>1. flags["main"] \in Flags
    BY <1>0 DEF TypeOK, Thr
  <2>2. CASE allHandled \/ count + 1 >= kTimeout
    <3>1. count < kTimeout /\ count \in 0..kTimeout
      BY <1>0, <1>2 DEF PollStep, PollBelowTimeout, TypeOK
    <3>2. count' \in {count, count + 1} /\ mpc' = "check"
      BY <1>2, <2>2 DEF PollStep
    <3>3. count' \in 0..kTimeout
      BY <1>0, <3>1, <3>2
    <3>4. QED
      BY <1>0, <1>2, <2>2, <3>2, <3>3 DEF PollStep, IInv, TypeOK,
                                          PollBelowTimeout
  <2>3. CASE ~(allHandled \/ count + 1 >= kTimeout)
    <3>1. count' = count + 1 /\ mpc' = mpc /\ mpc = "poll"
      BY <1>2, <2>3 DEF PollStep
    <3>2. count' \in 0..kTimeout /\ count' < kTimeout
      BY <1>0, <2>3, <3>1 DEF TypeOK
    <3>3. allHandled' \in BOOLEAN
      BY <1>2, <2>1, <2>3 DEF PollStep, Flags
    <3>4. QED
      BY <1>0, <1>2, <3>1, <3>2, <3>3 DEF PollStep, IInv, TypeOK,
                                          PollBelowTimeout
  <2>4. QED
    BY <2>2, <2>3
<1>3. CASE Check
  <2>1. flags["main"] \in Flags
    BY <1>0 DEF TypeOK, Thr
  <2>2. CASE \/ type = "SIGACTIONMASK" /\ flags["main"].shi
             \/ type # "SIGMASK"
             \/ flags["main"].sh
    BY <1>0, <1>3, <2>1, <2>2 DEF Check, Finish, IInv, TypeOK,
                                  PollBelowTimeout, Verdicts
  <2>3. CASE ~(\/ type = "SIGACTIONMASK" /\ flags["main"].shi
               \/ type # "SIGMASK"
               \/ flags["main"].sh)
    <3>1. mask' \in [Thr -> SUBSET Sigs]
      BY <1>0, <1>3, <2>3 DEF Check, TypeOK
    <3>2. frames' \in [Thr -> Seq(Frame)] /\ nested' \in BOOLEAN
          /\ pending' \subseteq Sigs
      BY <1>0, <1>3, <2>3, PushType DEF Check, TypeOK, Frame, Thr, Sigs
    <3>3. QED
      BY <1>0, <1>3, <2>3, <3>1, <3>2 DEF Check, IInv, TypeOK,
                                          PollBelowTimeout, Frame
  <2>4. QED
    BY <2>2, <2>3
<1>4. CASE Final \/ Join
  BY <1>0, <1>4 DEF Final, Join, Finish, IInv, TypeOK, PollBelowTimeout,
                    Verdicts
<1>5. CASE MaskerStep
  BY <1>0, <1>5 DEF MaskerStep, IInv, TypeOK, PollBelowTimeout, Thr
<1>6. CASE \E s \in Sigs : Send(s)
  <2>1. PICK s \in Sigs : Send(s)
    BY <1>6
  <2>2. CASE Live = {}
    BY <1>0, <2>1, <2>2 DEF Send, IInv, TypeOK, PollBelowTimeout
  <2>3. CASE Live # {}
    <3>1. PICK th \in Live :
            IF s \in Blocked(th)
              THEN pending' = pending \cup {s} /\ UNCHANGED <<frames, nested>>
              ELSE Push(th, s) /\ UNCHANGED pending
      BY <2>1, <2>3 DEF Send
    <3>2. th \in Thr
      BY DEF Live
    <3>3. frames' \in [Thr -> Seq(Frame)] /\ nested' \in BOOLEAN
          /\ pending' \subseteq Sigs
      BY <1>0, <3>1, <3>2, PushType DEF TypeOK, Frame
    <3>4. QED
      BY <1>0, <2>1, <3>3 DEF Send, IInv, TypeOK, PollBelowTimeout, Frame
  <2>4. QED
    BY <2>2, <2>3
<1>7. CASE \E th \in Thr, s \in Sigs : DeliverPending(th, s)
  <2>1. PICK th \in Thr, s \in Sigs : DeliverPending(th, s)
    BY <1>7
  <2>2. frames' \in [Thr -> Seq(Frame)] /\ nested' \in BOOLEAN
    BY <1>0, <2>1, PushType DEF DeliverPending
  <2>3. QED
    BY <1>0, <2>1, <2>2 DEF DeliverPending, IInv, TypeOK, PollBelowTimeout,
                            Frame
<1>8. CASE \E th \in Thr : HandlerStep(th)
  <2>1. PICK th \in Thr : HandlerStep(th)
    BY <1>8
  <2>2. frames' \in [Thr -> Seq(Frame)] /\ flags' \in [Thr -> Flags]
    BY <1>0, <2>1, HandlerStepType
  <2>3. QED
    BY <1>0, <2>1, <2>2 DEF HandlerStep, IInv, TypeOK, PollBelowTimeout,
                            Frame
<1>9. CASE Terminating \/ UNCHANGED vars
  BY <1>0, <1>9 DEF Terminating, vars, IInv, TypeOK, PollBelowTimeout
<1>10. QED
  BY <1>1, <1>2, <1>3, <1>4, <1>5, <1>6, <1>7, <1>8, <1>9 DEF Next, MainStep

(* The signal test enclave is type-correct for every timeout and every    *)
(* set of test types: RunSignalTest's poll counter and SetSignalMask's     *)
(* loop counter never pass kTimeout, and the handlers running on each      *)
(* thread always form a well-formed stack.                                 *)
THEOREM TypeCorrect == Spec => []TypeOK
<1>1. IInv => TypeOK
  BY DEF IInv
<1>2. QED
  BY InitIInv, NextIInv, <1>1, PTL DEF Spec
=============================================================================
