-------------------------------- MODULE VSKM --------------------------------
(***************************************************************************)
(* The versioned speculative KV manager (ONNXim/src/async_queue/VSKM.h):   *)
(* per request the committed length, the speculative region of the round   *)
(* in flight and the version the round was given, and the total of the     *)
(* speculative bytes.                                                      *)
(*                                                                         *)
(* The management mode and kv_bytes_per_token enter only through the bytes *)
(* one draft token occupies, so they are one constant.  The statistics are *)
(* left out.                                                               *)
(***************************************************************************)
EXTENDS Naturals

CONSTANTS Requests,        \* request ids
          ResidentBytes,   \* bytes draft_token adds (scaled_bytes(...) >= 1)
          VersionEntries   \* VSKMConfig.version_entries

VARIABLES vskm,            \* requests_: id -> RequestState
          nextVersion,     \* next_version_id_
          specBytes        \* current_speculative_kv_bytes_

\* The default-constructed RequestState.
FreshState == [commit |-> 0, drafted |-> 0, version |-> 0, region |-> 0]

VSKMInit == /\ vskm = [r \in Requests |-> FreshState]
            /\ nextVersion = 1
            /\ specBytes = 0

ResetRequest(r, committed) ==
    /\ vskm' = [vskm EXCEPT ![r] = [FreshState EXCEPT !.commit = committed]]
    /\ UNCHANGED <<nextVersion, specBytes>>

\* next_version_id_++ and the wrap to 1; version_entries = 0 never wraps.
VersionAfter(v) ==
    IF v + 1 > VersionEntries /\ VersionEntries > 0 THEN 1 ELSE v + 1

\* begin_round forgets the region of an earlier round without giving its
\* bytes back.
BeginRound(r, committed) ==
    /\ vskm' = [vskm EXCEPT ![r] = [commit |-> committed, drafted |-> 0,
                                    version |-> nextVersion, region |-> 0]]
    /\ nextVersion' = VersionAfter(nextVersion)
    /\ UNCHANGED specBytes

DraftToken(r) ==
    /\ vskm' = [vskm EXCEPT ![r] =
                  [@ EXCEPT !.drafted = vskm[r].drafted + 1,
                            !.region = vskm[r].region + ResidentBytes]]
    /\ specBytes' = specBytes + ResidentBytes
    /\ UNCHANGED nextVersion

\* The tokens complete_verify takes the round to have drafted, and the ones
\* of them it rolls back.
DraftedTokens(r, k) == IF vskm[r].drafted > k THEN vskm[r].drafted ELSE k
\* Mutant: the rejected tokens are committed too.
AcceptedTokensAll(r, k, accepted) == DraftedTokens(r, k)

AcceptedTokens(r, k, accepted) ==
    IF accepted < DraftedTokens(r, k) THEN accepted ELSE DraftedTokens(r, k)
Rejected(r, k, accepted) == DraftedTokens(r, k) - AcceptedTokens(r, k, accepted)

\* Mutant: the bytes of the region are not given back.
CompleteVerifyLeaks(r, k, accepted) ==
    /\ vskm' = [vskm EXCEPT ![r] =
                  [@ EXCEPT !.commit = vskm[r].commit + AcceptedTokens(r, k, accepted),
                            !.drafted = 0, !.region = 0]]
    /\ UNCHANGED <<specBytes, nextVersion>>

CompleteVerify(r, k, accepted) ==
    /\ vskm' = [vskm EXCEPT ![r] =
                  [@ EXCEPT !.commit = vskm[r].commit + AcceptedTokens(r, k, accepted),
                            !.drafted = 0, !.region = 0]]
    /\ specBytes' = IF vskm[r].region <= specBytes
                    THEN specBytes - vskm[r].region ELSE 0
    /\ UNCHANGED nextVersion
=============================================================================
