--------------------------- MODULE TrustedHostCalls ---------------------------
(***************************************************************************)
(* The trusted side of the host-call bridge that receives pointers from    *)
(* the host: src/asylo/platform/arch/sgx/trusted/host_calls.cc.            *)
(*                                                                         *)
(* Trusted code asks the host for `count` buffers of `size` bytes.  The    *)
(* host (untrusted, possibly hostile) answers with the address of an array *)
(* of `count` pointers.  CHECK_OCALL aborts when the ocall itself failed;  *)
(* enc_untrusted_allocate_buffers aborts when the answer is null or fails  *)
(* sgx_is_outside_enclave, and otherwise hands the array to its caller,    *)
(* which reads the `count` pointers and writes `size` bytes through each.  *)
(* Memory is a small address space of pointer-sized cells with the enclave *)
(* occupying [EnclaveBase, EnclaveBase + EnclaveSize).                     *)
(***************************************************************************)
EXTENDS Integers

CONSTANTS
  AddrBits,     \* width of an address
  EnclaveBase,  \* first address of the enclave's protected range
  EnclaveSize,  \* length of the protected range
  PtrSize,      \* bytes in one pointer of the returned array
  MaxCount,     \* bound on `count`
  MaxSize,      \* bound on `size`
  MaxCalls,     \* bound on host calls made by the trusted thread
  MaxEventsLen  \* bound on the serialized inotify events the host reports

AddrSpace == 2^AddrBits
Addr == 0..(AddrSpace - 1)
Null == 0

(* The constants are positive naturals, and the enclave range lies in the *)
(* address space above the null page: EnclaveBase \in Addr \ {Null} and   *)
(* EnclaveBase + EnclaveSize <= AddrSpace.                                 *)

InEnclave(a) == EnclaveBase <= a /\ a < EnclaveBase + EnclaveSize

(* The bytes [a, a + n), wrapping at the top of the address space as the   *)
(* hardware does when trusted code indexes past it.                        *)
Region(a, n) == {(a + k) % AddrSpace : k \in 0..(n - 1)}

(* sgx_is_outside_enclave (SGX SDK): the range does not wrap and has no    *)
(* byte inside the enclave.                                                *)
sgx_is_outside_enclave(a, n) ==
  /\ a + n <= AddrSpace
  /\ \A x \in Region(a, n) : ~InEnclave(x)

VARIABLES
  phase,    \* "idle", "returned" (the buffers were handed out) or "aborted"
  calls,    \* host calls made so far
  count,    \* `count` of the last allocation
  size,     \* `size` of the last allocation
  buffers,  \* array address returned by the host for the last allocation
  ptrs,     \* the pointers stored in that array, 1..count -> Addr
  events,   \* *serialized_events of the last inotify_read, Null if none yet
  eventsLen \* *serialized_events_len of the last inotify_read

vars == <<phase, calls, count, size, buffers, ptrs, events, eventsLen>>

Init ==
  /\ phase = "idle"
  /\ calls = 0
  /\ count = 0
  /\ size = 0
  /\ buffers = Null
  /\ ptrs = <<>>
  /\ events = Null
  /\ eventsLen = 0

Running ==
  /\ phase # "aborted"
  /\ calls < MaxCalls

(* CHECK_OCALL: a failed ocall aborts the enclave.                         *)
CheckOcall(ok) == IF ok THEN UNCHANGED phase ELSE phase' = "aborted"

(* enc_untrusted_allocate_buffers(count, size): the ocall, CHECK_OCALL,    *)
(* and the null / sgx_is_outside_enclave check on the returned array.     *)
AllocateBuffers ==
  /\ Running
  /\ calls' = calls + 1
  /\ \E c \in 1..MaxCount, s \in 1..MaxSize, ocallOk \in BOOLEAN, a \in Addr :
       /\ count' = c
       /\ size' = s
       /\ buffers' = a
       /\ \E p \in [1..c -> Addr] : ptrs' = p
       /\ phase' = IF ~ocallOk \/ a = Null \/ ~sgx_is_outside_enclave(a, s)
                     THEN "aborted" ELSE "returned"
  /\ UNCHANGED <<events, eventsLen>>

(* enc_untrusted_deallocate_free_list: the ocall and CHECK_OCALL; the      *)
(* pointers go back to the host and nothing is read from it.               *)
DeallocateFreeList ==
  /\ Running
  /\ calls' = calls + 1
  /\ \E ok \in BOOLEAN : CheckOcall(ok)
  /\ UNCHANGED <<count, size, buffers, ptrs, events, eventsLen>>

(* enc_untrusted_inotify_read: the ocall, in which the host writes the     *)
(* address and length of the serialized events, and CHECK_OCALL; both are  *)
(* handed to the caller as the host wrote them.                            *)
InotifyRead ==
  /\ Running
  /\ calls' = calls + 1
  /\ \E ok \in BOOLEAN, e \in Addr, n \in 0..MaxEventsLen :
       /\ CheckOcall(ok)
       /\ events' = e
       /\ eventsLen' = n
  /\ UNCHANGED <<count, size, buffers, ptrs>>

(* enc_untrusted_openlog and enc_untrusted_syslog: strings go out, nothing *)
(* comes back but the ocall status, checked by CHECK_OCALL.                *)
Openlog ==
  /\ Running
  /\ calls' = calls + 1
  /\ \E ok \in BOOLEAN : CheckOcall(ok)
  /\ UNCHANGED <<count, size, buffers, ptrs, events, eventsLen>>

Syslog ==
  /\ Running
  /\ calls' = calls + 1
  /\ \E ok \in BOOLEAN : CheckOcall(ok)
  /\ UNCHANGED <<count, size, buffers, ptrs, events, eventsLen>>

(* The trusted thread stops: it aborted, or used its calls.                *)
Terminating ==
  /\ ~Running
  /\ UNCHANGED vars

Next ==
  \/ AllocateBuffers
  \/ DeallocateFreeList
  \/ InotifyRead
  \/ Openlog
  \/ Syslog
  \/ Terminating

Spec == Init /\ [][Next]_vars

-----------------------------------------------------------------------------

=============================================================================
