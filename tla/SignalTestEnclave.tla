--------------------------- MODULE SignalTestEnclave ---------------------------
(***************************************************************************)
(* The trusted half of the active-enclave signal test                     *)
(* (src/asylo/test/misc/active_enclave_signal_test_enclave.cc).  The test  *)
(* thread ("main") registers handlers, tells the host it is ready, and     *)
(* polls thread_local flags set by the handlers, sleeping between polls    *)
(* and giving up after kTimeout polls.  In the SIGMASK test a second       *)
(* thread ("masker", std::async) keeps unblocking SIGUSR1 in its own mask  *)
(* while main blocks it.  The host sends SIGUSR1 (and SIGUSR2 in the       *)
(* SIGACTIONMASK test) once it reads "ready"; each signal enters the       *)
(* enclave on a thread that is inside it, runs its handler there if that   *)
(* thread does not block it, and otherwise stays queued until a thread     *)
(* that does not block it can take it.                                    *)
(***************************************************************************)
EXTENDS Naturals, Sequences

CONSTANTS
  kTimeout,   \* polls of RunSignalTest and iterations of SetSignalMask
  TestTypes   \* the signal_test_type values the host may send

Sigs == {"SIGUSR1", "SIGUSR2"}
Thr == {"main", "masker"}
ValidTypes == {"HANDLER", "SIGNAL", "SIGACTION", "SIGMASK", "SIGACTIONMASK"}

ASSUME SignalTestAssumption ==
  /\ kTimeout \in Nat \ {0}
  /\ TestTypes \subseteq ValidTypes \cup {"MISSING"}

(* The statuses Run can return, named after their messages.               *)
Verdicts == {"none", "OK", "invalid", "interrupted", "not_received",
             "received_blocked", "not_after_unblock"}

(* The handler each test type installs for each signal.                   *)
HandlerOf(ty) ==
  CASE ty = "SIGACTION"     -> [s \in Sigs |-> IF s = "SIGUSR1" THEN "SigAction" ELSE "default"]
    [] ty = "SIGACTIONMASK" -> [s \in Sigs |-> IF s = "SIGUSR1" THEN "SigActionMask" ELSE "Handler"]
    [] OTHER                -> [s \in Sigs |-> IF s = "SIGUSR1" THEN "Handler" ELSE "default"]

(* The signals the host sends for each test type.                          *)
ToSend(ty) == IF ty = "SIGACTIONMASK" THEN Sigs ELSE {"SIGUSR1"}

Flags == [sh : BOOLEAN, bsh : BOOLEAN, shi : BOOLEAN]
NoFlags == [sh |-> FALSE, bsh |-> FALSE, shi |-> FALSE]

VARIABLES
  type,        \* the test type of this Run
  mpc,         \* main: "start", "poll", "check", "final", "join" or "done"
  count,       \* the poll counter
  allHandled,  \* all_signals_handled, as last computed by the poll loop
  verdict,     \* the status RunSignalTest computed
  mstate,      \* masker: "none", "running" or "done"
  mi,          \* masker's loop counter
  mask,        \* per-thread blocked signals
  handler,     \* the installed handler of each signal
  saMask,      \* the sa_mask installed with each handler
  frames,      \* per-thread stack of running handlers, [sig, step]
  flags,       \* the thread_local flags of each thread
  pending,     \* signals that arrived blocked and wait for a thread
  sent,        \* signals the host has sent
  nested       \* history: SIGUSR2's handler started inside SIGUSR1's

vars == <<type, mpc, count, allHandled, verdict, mstate, mi, mask, handler,
          saMask, frames, flags, pending, sent, nested>>

(* Type invariant.                                                        *)
TypeOK ==
  /\ type \in TestTypes
  /\ mpc \in {"start", "poll", "check", "final", "join", "done"}
  /\ count \in 0..kTimeout
  /\ allHandled \in BOOLEAN
  /\ verdict \in Verdicts
  /\ mstate \in {"none", "running", "done"}
  /\ mi \in 0..kTimeout
  /\ mask \in [Thr -> SUBSET Sigs]
  /\ handler \in [Sigs -> {"default", "Handler", "SigAction", "SigActionMask"}]
  /\ saMask \in [Sigs -> SUBSET Sigs]
  /\ frames \in [Thr -> Seq([sig : Sigs, step : {1, 2}])]
  /\ flags \in [Thr -> Flags]
  /\ pending \subseteq Sigs
  /\ sent \subseteq Sigs
  /\ nested \in BOOLEAN

(* Run has been entered with some test type; for SIGMASK it has already    *)
(* launched SetSignalMask on its own thread.                               *)
Init ==
  /\ type \in TestTypes
  /\ mpc = "start"
  /\ count = 0
  /\ allHandled = FALSE
  /\ verdict = "none"
  /\ mstate = IF type = "SIGMASK" THEN "running" ELSE "none"
  /\ mi = 0
  /\ mask = [th \in Thr |-> {}]
  /\ handler = [s \in Sigs |-> "default"]
  /\ saMask = [s \in Sigs |-> {}]
  /\ frames = [th \in Thr |-> <<>>]
  /\ flags = [th \in Thr |-> NoFlags]
  /\ pending = {}
  /\ sent = {}
  /\ nested = FALSE

(* The threads inside the enclave that a signal can enter on.             *)
Live == {th \in Thr : \/ th = "main" /\ mpc # "done"
                      \/ th = "masker" /\ mstate = "running"}

(* What a thread blocks now: its mask, each signal whose handler it is     *)
(* running, and the sa_mask of each of those handlers.                     *)
Blocked(th) ==
  LET running == {frames[th][i].sig : i \in 1..Len(frames[th])}
  IN  mask[th] \cup running \cup UNION {saMask[s] : s \in running}

(* Starting signal s's handler on thread th.                               *)
Push(th, s) ==
  /\ frames' = [frames EXCEPT ![th] = Append(@, [sig |-> s, step |-> 1])]
  /\ nested' = (nested \/ (s = "SIGUSR2" /\ \E i \in 1..Len(frames[th]) :
                                  frames[th][i].sig = "SIGUSR1"))

(* Main returns status v from RunSignalTest; SIGMASK then waits for the    *)
(* masker's future.                                                        *)
Finish(v) ==
  /\ verdict' = v
  /\ mpc' = IF type = "SIGMASK" THEN "join" ELSE "done"

(* Main runs only when no handler is running on it.                       *)
MainFree == frames["main"] = <<>>

(* Run's argument checks, then RunSignalTest up to printf("ready ...") and *)
(* fclose(stdout): SIGMASK blocks SIGUSR1, and the handlers are installed. *)
(* `act` is an uninitialized local, so every handler installed through it  *)
(* gets whatever sa_mask the stack held, except SIGUSR1's in SIGACTIONMASK;*)
(* signal() installs an empty one.                                         *)
RunStart ==
  /\ mpc = "start"
  /\ MainFree
  /\ IF type \notin ValidTypes
       THEN /\ verdict' = "invalid"
            /\ mpc' = "done"
            /\ UNCHANGED <<mask, handler, saMask>>
       ELSE /\ mask' = IF type = "SIGMASK"
                         THEN [mask EXCEPT !["main"] = @ \cup {"SIGUSR1"}]
                         ELSE mask
            /\ handler' = HandlerOf(type)
            /\ \E g \in SUBSET Sigs :
                 saMask' =
                   CASE type = "SIGNAL" -> [s \in Sigs |-> {}]
                     [] type = "SIGACTIONMASK" ->
                          [s \in Sigs |-> IF s = "SIGUSR1" THEN {"SIGUSR2"} ELSE g]
                     [] OTHER -> [s \in Sigs |-> IF s = "SIGUSR1" THEN g ELSE {}]
            /\ mpc' = "poll"
            /\ UNCHANGED verdict
  /\ UNCHANGED <<type, count, allHandled, mstate, mi, frames, flags, pending,
                 sent, nested>>

(* Mutant: the poll loop without its timeout (count never advanced).       *)
PollStepNoTimeout ==
  /\ mpc = "poll"
  /\ MainFree
  /\ IF allHandled
       THEN mpc' = "check" /\ UNCHANGED allHandled
       ELSE /\ allHandled' = IF type = "SIGACTIONMASK"
                               THEN flags["main"].sh /\ flags["main"].bsh
                               ELSE flags["main"].sh
            /\ UNCHANGED mpc
  /\ UNCHANGED <<type, count, verdict, mstate, mi, mask, handler, saMask, frames,
                 flags, pending, sent, nested>>

(* One evaluation of `!all_signals_handled && ++count < kTimeout` and, if  *)
(* it holds, one pass of the body: read main's flags, then sleep(1).       *)
PollStep ==
  /\ mpc = "poll"
  /\ MainFree
  /\ IF allHandled \/ count + 1 >= kTimeout
       THEN /\ count' = IF allHandled THEN count ELSE count + 1
            /\ mpc' = "check"
            /\ UNCHANGED allHandled
       ELSE /\ count' = count + 1
            /\ allHandled' = IF type = "SIGACTIONMASK"
                               THEN flags["main"].sh /\ flags["main"].bsh
                               ELSE flags["main"].sh
            /\ UNCHANGED mpc
  /\ UNCHANGED <<type, verdict, mstate, mi, mask, handler, saMask, frames,
                 flags, pending, sent, nested>>

(* After the loop: the SIGACTIONMASK interruption check, the verdict of    *)
(* the non-mask tests, and for SIGMASK the "received while blocked" check  *)
(* and then sigprocmask(SIG_UNBLOCK), which runs a queued SIGUSR1 at once. *)
Check ==
  /\ mpc = "check"
  /\ MainFree
  /\ IF \/ type = "SIGACTIONMASK" /\ flags["main"].shi
        \/ type # "SIGMASK"
        \/ flags["main"].sh
       THEN /\ Finish(CASE type = "SIGACTIONMASK" /\ flags["main"].shi -> "interrupted"
                        [] type # "SIGMASK" ->
                             IF allHandled THEN "OK" ELSE "not_received"
                        [] OTHER -> "received_blocked")
            /\ UNCHANGED <<mask, frames, pending, nested>>
       ELSE /\ mpc' = "final"
            /\ mask' = [mask EXCEPT !["main"] = @ \ {"SIGUSR1"}]
            /\ IF "SIGUSR1" \in pending
                 THEN Push("main", "SIGUSR1") /\ pending' = pending \ {"SIGUSR1"}
                 ELSE UNCHANGED <<frames, pending, nested>>
            /\ UNCHANGED verdict
  /\ UNCHANGED <<type, count, allHandled, mstate, mi, handler, saMask, flags, sent>>

(* SIGMASK after the unblock: the queued signal must have been handled.    *)
Final ==
  /\ mpc = "final"
  /\ MainFree
  /\ Finish(IF flags["main"].sh THEN "OK" ELSE "not_after_unblock")
  /\ UNCHANGED <<type, count, allHandled, mstate, mi, mask, handler, saMask,
                 frames, flags, pending, sent, nested>>

(* Run's mask_result.get(): wait for SetSignalMask, which cannot fail.     *)
Join ==
  /\ mpc = "join"
  /\ mstate = "done"
  /\ mpc' = "done"
  /\ UNCHANGED <<type, count, allHandled, verdict, mstate, mi, mask, handler,
                 saMask, frames, flags, pending, sent, nested>>

(* Mutant: SetSignalMask's loop running one iteration too many.            *)
MaskerStepOffByOne ==
  /\ mstate = "running"
  /\ frames["masker"] = <<>>
  /\ IF mi <= kTimeout
       THEN /\ mask' = [mask EXCEPT !["masker"] = @ \ {"SIGUSR1"}]
            /\ mi' = mi + 1
            /\ UNCHANGED mstate
       ELSE mstate' = "done" /\ UNCHANGED <<mask, mi>>
  /\ UNCHANGED <<type, mpc, count, allHandled, verdict, handler, saMask, frames,
                 flags, pending, sent, nested>>

(* One iteration of SetSignalMask: unblock SIGUSR1 in its own thread and   *)
(* sleep; after kTimeout iterations the thread returns OK.                 *)
MaskerStep ==
  /\ mstate = "running"
  /\ frames["masker"] = <<>>
  /\ IF mi < kTimeout
       THEN /\ mask' = [mask EXCEPT !["masker"] = @ \ {"SIGUSR1"}]
            /\ mi' = mi + 1
            /\ UNCHANGED mstate
       ELSE mstate' = "done" /\ UNCHANGED <<mask, mi>>
  /\ UNCHANGED <<type, mpc, count, allHandled, verdict, handler, saMask, frames,
                 flags, pending, sent, nested>>

(* The host test sends signal s once the enclave said it was ready.  The  *)
(* signal enters the enclave on a thread inside it; if that thread blocks  *)
(* it, it is queued, and if no thread is inside any more it is lost.       *)
Send(s) ==
  /\ type \in ValidTypes
  /\ mpc # "start"
  /\ s \in ToSend(type) \ sent
  /\ sent' = sent \cup {s}
  /\ IF Live = {}
       THEN UNCHANGED <<frames, pending, nested>>
       ELSE \E th \in Live :
              IF s \in Blocked(th)
                THEN pending' = pending \cup {s} /\ UNCHANGED <<frames, nested>>
                ELSE Push(th, s) /\ UNCHANGED pending
  /\ UNCHANGED <<type, mpc, count, allHandled, verdict, mstate, mi, mask,
                 handler, saMask, flags>>

(* A queued signal runs on a thread inside the enclave that no longer     *)
(* blocks it.                                                              *)
DeliverPending(th, s) ==
  /\ s \in pending
  /\ th \in Live
  /\ s \notin Blocked(th)
  /\ Push(th, s)
  /\ pending' = pending \ {s}
  /\ UNCHANGED <<type, mpc, count, allHandled, verdict, mstate, mi, mask,
                 handler, saMask, flags, sent>>

(* One step of the innermost handler running on th.  HandleSignalWithHandler*)
(* and HandleSignalWithSigAction are one step each; HandleSignalWithSigAction*)
(* Mask sets signal_handled, and in a second step reads                    *)
(* blocked_signal_handled, so a signal it does not block can run between.  *)
(* The flags are the thread_local ones of th.                              *)
HandlerStep(th) ==
  /\ frames[th] # <<>>
  /\ LET top == Len(frames[th])
         f   == frames[th][top]
         h   == handler[f.sig]
         fl  == flags[th]
     IN  IF h = "SigActionMask" /\ f.step = 1
           THEN /\ flags' = [flags EXCEPT ![th].sh = @ \/ f.sig = "SIGUSR1"]
                /\ frames' = [frames EXCEPT ![th][top].step = 2]
           ELSE /\ flags' = [flags EXCEPT ![th] =
                     IF h = "SigActionMask"
                       THEN [fl EXCEPT !.shi = @ \/ fl.bsh]
                       ELSE [fl EXCEPT !.sh = @ \/ f.sig = "SIGUSR1",
                                       !.bsh = @ \/ (h = "Handler" /\ f.sig = "SIGUSR2")]]
                /\ frames' = [frames EXCEPT ![th] = SubSeq(@, 1, top - 1)]
  /\ UNCHANGED <<type, mpc, count, allHandled, verdict, mstate, mi, mask,
                 handler, saMask, pending, sent, nested>>

(* Run has returned and the masker has finished.                          *)
Terminating ==
  /\ mpc = "done"
  /\ mstate # "running"
  /\ UNCHANGED vars

MainStep == RunStart \/ PollStep \/ Check \/ Final \/ Join

Next ==
  \/ MainStep
  \/ MaskerStep
  \/ \E s \in Sigs : Send(s)
  \/ \E th \in Thr, s \in Sigs : DeliverPending(th, s)
  \/ \E th \in Thr : HandlerStep(th)
  \/ Terminating

Spec == Init /\ [][Next]_vars

(* Both enclave threads are scheduled and every handler that started runs  *)
(* to its end; the host is not assumed to send anything.                   *)
FairSpec ==
  /\ Spec
  /\ WF_vars(MainStep)
  /\ WF_vars(MaskerStep)
  /\ \A th \in Thr : WF_vars(HandlerStep(th))

-----------------------------------------------------------------------------

(* Bounded waiting (spec 5: timeouts are the caller's): whether or not the *)
(* host ever sends, RunSignalTest returns, because the poll loop gives up  *)
(* after kTimeout polls and SetSignalMask after kTimeout iterations.       *)
RunSignalTestTerminates == <>(mpc = "done")

(* The verdicts "Signal not received" and "Signal not received after      *)
(* unblocked" are true when given: no handler of SIGUSR1 had run in the    *)
(* enclave by the step in which RunSignalTest chose its status.            *)
NotReceivedVerdictTrue ==
  [][verdict = "none" /\ verdict' \in {"not_received", "not_after_unblock"}
       => \A th \in Thr : ~flags[th].sh]_vars

(* The verdict "Signal handler interrupted by a masked signal" is true:    *)
(* SIGUSR2's handler did start while SIGUSR1's was running.                *)
InterruptedVerdictTrue ==
  verdict = "interrupted" => nested
=============================================================================
