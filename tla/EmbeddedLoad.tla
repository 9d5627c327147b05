----------------------------- MODULE EmbeddedLoad -----------------------------
(***************************************************************************)
(* SgxEmbeddedBackend::Load (untrusted_sgx.cc): load an enclave whose      *)
(* image is a section of the host's own binary.  When a base address and a *)
(* size are given, the region is first reserved with an access-denied      *)
(* anonymous mmap; the binary is mapped, parsed and searched for the       *)
(* section; the reservation is released; and creation is retried while    *)
(* the platform reports INTERRUPTED, at most kMaxEnclaveCreateAttempts     *)
(* times.  Another thread of the host may map memory at any moment, and in *)
(* particular at the base address once nothing holds it.                   *)
(***************************************************************************)
EXTENDS Naturals, Sequences

CONSTANTS kMaxEnclaveCreateAttempts

ASSUME EmbeddedAttemptsAssumption == kMaxEnclaveCreateAttempts \in Nat \ {0}

CreateStatuses == {"SGX_SUCCESS", "INTERRUPTED", "OTHER"}

(* The status Load returns: none yet, success, the INTERNAL error of the   *)
(* mmap / munmap checks, an error propagated from FileMapping / ElfReader, *)
(* or the platform status of the last creation attempt.                    *)
Results == {"none", "OK", "INTERNAL", "PROPAGATED", "SGX"}

(* The steps of Load, in the order the code takes them.                   *)
LoadSteps == {"reserve", "mapfile", "elf", "section", "release", "creating",
              "returning", "done"}

(* The three ASYLO_ASSIGN_OR_RETURN steps that locate the image.           *)
ImageSteps == {"mapfile", "elf", "section"}
AfterImageStep == [mapfile |-> "elf", elf |-> "section", section |-> "release"]

VARIABLES
  lpc,            \* where Load is
  wantReserve,    \* base_address && enclave_size > 0
  mapping,        \* Load's own PROT_NONE mapping: "none", "base" or "elsewhere"
  foreign,        \* another mapping of the host occupies the base region
  createHistory,  \* statuses of sgx_create_enclave_from_buffer_ex, in order
  hw,             \* the platform enclave: "none" or "live"
  result          \* the status Load returned

vars == <<lpc, wantReserve, mapping, foreign, createHistory, hw, result>>

(* Type invariant.                                                        *)
TypeOK ==
  /\ lpc \in LoadSteps
  /\ wantReserve \in BOOLEAN
  /\ mapping \in {"none", "base", "elsewhere"}
  /\ foreign \in BOOLEAN
  /\ createHistory \in Seq(CreateStatuses)
  /\ Len(createHistory) <= kMaxEnclaveCreateAttempts
  /\ hw \in {"none", "live"}
  /\ result \in Results

(* Any base address and size, and any state of the rest of the host's     *)
(* address space, are possible when Load is called.                       *)
Init ==
  /\ lpc = "reserve"
  /\ wantReserve \in BOOLEAN
  /\ mapping = "none"
  /\ foreign \in BOOLEAN
  /\ createHistory = <<>>
  /\ hw = "none"
  /\ result = "none"

(* Load returns with status r.                                             *)
Return(r) == lpc' = "done" /\ result' = r

(* The reservation.  mmap without MAP_FIXED takes base_address only as a   *)
(* hint: it lands there when the region is free and elsewhere when it is   *)
(* not, or fails; any address but base_address is an error.               *)
Reserve ==
  /\ lpc = "reserve"
  /\ IF wantReserve
       THEN \E r \in IF foreign THEN {"elsewhere", "failed"}
                                ELSE {"base", "failed"} :
              IF r = "base"
                THEN mapping' = "base" /\ lpc' = "mapfile" /\ UNCHANGED result
                ELSE /\ mapping' = IF r = "elsewhere" THEN "elsewhere" ELSE "none"
                     /\ Return("INTERNAL")
       ELSE lpc' = "mapfile" /\ UNCHANGED <<mapping, result>>
  /\ UNCHANGED <<wantReserve, foreign, createHistory, hw>>

(* FileMapping::CreateFromFile("/proc/self/exe"), ElfReader::CreateFromSpan *)
(* and GetSectionData(section_name): each may fail, and its error is       *)
(* returned as it is.                                                      *)
LocateImage(s) ==
  /\ lpc = s
  /\ \E ok \in BOOLEAN :
       IF ok THEN lpc' = AfterImageStep[s] /\ UNCHANGED result
             ELSE Return("PROPAGATED")
  /\ UNCHANGED <<wantReserve, mapping, foreign, createHistory, hw>>

(* Releasing the reservation just before creation.                        *)
Release ==
  /\ lpc = "release"
  /\ IF wantReserve
       THEN \E ok \in BOOLEAN :
              IF ok THEN mapping' = "none" /\ lpc' = "creating" /\ UNCHANGED result
                    ELSE Return("INTERNAL") /\ UNCHANGED mapping
       ELSE lpc' = "creating" /\ UNCHANGED <<mapping, result>>
  /\ UNCHANGED <<wantReserve, foreign, createHistory, hw>>

(* The platform cannot place the enclave at base_address while any mapping *)
(* occupies it.                                                            *)
BaseOccupied == wantReserve /\ (foreign \/ mapping = "base")

(* Mutant: the loop bound off by one (i <= kMaxEnclaveCreateAttempts).   *)
CreateAttemptOffByOne ==
  /\ lpc = "creating"
  /\ \E s \in IF BaseOccupied THEN CreateStatuses \ {"SGX_SUCCESS"}
                              ELSE CreateStatuses :
       /\ createHistory' = Append(createHistory, s)
       /\ hw' = IF s = "SGX_SUCCESS" THEN "live" ELSE hw
       /\ lpc' = IF s # "INTERRUPTED"
                    \/ Len(createHistory) + 1 > kMaxEnclaveCreateAttempts
                 THEN "returning" ELSE "creating"
  /\ UNCHANGED <<wantReserve, mapping, foreign, result>>

(* Mutant: the retry test on any failure, not only on INTERRUPTED.         *)
CreateAttemptAnyFailure ==
  /\ lpc = "creating"
  /\ \E s \in IF BaseOccupied THEN CreateStatuses \ {"SGX_SUCCESS"}
                              ELSE CreateStatuses :
       /\ createHistory' = Append(createHistory, s)
       /\ hw' = IF s = "SGX_SUCCESS" THEN "live" ELSE hw
       /\ lpc' = IF s = "SGX_SUCCESS"
                    \/ Len(createHistory) + 1 >= kMaxEnclaveCreateAttempts
                 THEN "returning" ELSE "creating"
  /\ UNCHANGED <<wantReserve, mapping, foreign, result>>

(* One pass of the creation loop.                                          *)
CreateAttempt ==
  /\ lpc = "creating"
  /\ \E s \in IF BaseOccupied THEN CreateStatuses \ {"SGX_SUCCESS"}
                              ELSE CreateStatuses :
       /\ createHistory' = Append(createHistory, s)
       /\ hw' = IF s = "SGX_SUCCESS" THEN "live" ELSE hw
       /\ lpc' = IF s # "INTERRUPTED"
                    \/ Len(createHistory) + 1 >= kMaxEnclaveCreateAttempts
                 THEN "returning" ELSE "creating"
  /\ UNCHANGED <<wantReserve, mapping, foreign, result>>

(* After the loop: the platform status of the last attempt, or a client   *)
(* marked live.                                                           *)
CreateReturn ==
  /\ lpc = "returning"
  /\ Return(IF createHistory[Len(createHistory)] = "SGX_SUCCESS" THEN "OK" ELSE "SGX")
  /\ UNCHANGED <<wantReserve, mapping, foreign, createHistory, hw>>

(* Another thread of the host maps memory, and the kernel places it at     *)
(* base_address because nothing holds that region (mmap with a null hint   *)
(* may return any free range).                                             *)
ForeignMap ==
  /\ wantReserve
  /\ lpc # "done"
  /\ ~foreign
  /\ mapping # "base"
  /\ foreign' = TRUE
  /\ UNCHANGED <<lpc, wantReserve, mapping, createHistory, hw, result>>

(* Load has returned; the caller goes on with the client or the error.    *)
Terminating ==
  /\ lpc = "done"
  /\ UNCHANGED vars

Next ==
  \/ Reserve
  \/ \E s \in ImageSteps : LocateImage(s)
  \/ Release
  \/ CreateAttempt
  \/ CreateReturn
  \/ ForeignMap
  \/ Terminating

Spec == Init /\ [][Next]_vars

-----------------------------------------------------------------------------

(* The retry contract of the embedded creation loop (spec 4.1, 8): every   *)
(* attempt but the last was INTERRUPTED; a returned Load stopped on a      *)
(* status other than INTERRUPTED or after exactly kMaxEnclaveCreateAttempts*)
(* attempts, and succeeded exactly when its last attempt did.              *)
EmbeddedRetryContract ==
  /\ \A i \in 1..(Len(createHistory) - 1) : createHistory[i] = "INTERRUPTED"
  /\ (lpc = "done" /\ createHistory # <<>>) =>
       LET last == createHistory[Len(createHistory)] IN
       /\ last = "INTERRUPTED" => Len(createHistory) = kMaxEnclaveCreateAttempts
       /\ (result = "OK") <=> (last = "SGX_SUCCESS")

(* The reservation is temporary (spec 4.1): whichever way Load returns, it *)
(* leaves no PROT_NONE mapping of its own in the host's address space.     *)
ReservationReleasedOnReturn ==
  lpc = "done" => mapping = "none"
=============================================================================
