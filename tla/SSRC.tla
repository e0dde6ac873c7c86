-------------------------------- MODULE SSRC --------------------------------
(***************************************************************************)
(* The SSRC coordinator (ONNXim/src/SSRC.h): the record of the speculative *)
(* rounds whose K/V writes are deferred, and the byte budget they reserve. *)
(* A request has at most one record, keyed by its id; spec_round = 0       *)
(* stands for an absent key (real rounds count from 1).  The scheduler     *)
(* (module SpecDecode) is the only caller of the two operations.           *)
(*                                                                         *)
(* Left out: the statistics, and abort_request, which nothing calls.       *)
(***************************************************************************)
EXTENDS Naturals

CONSTANTS Requests,            \* request ids
          StateBytesPerToken,  \* SSRCConfig.state_bytes_per_token
          ResidentLimitBytes   \* SSRCConfig.resident_limit_bytes

VARIABLES deferred,            \* _active_requests: id -> RoundRecord
          residentBytes        \* _resident_bytes

NoRecord == [spec_round |-> 0, reserved |-> 0]

SSRCInit == /\ deferred = [r \in Requests |-> NoRecord]
            /\ residentBytes = 0

\* The bytes a round of k draft tokens reserves.
RoundBytes(k) == k * StateBytesPerToken

\* The decision of should_defer_round: the entropy hint is above the
\* confidence threshold and the reservation still fits in the budget.
Defers(k, lowConfidence) ==
    /\ lowConfidence
    /\ residentBytes + RoundBytes(k) <= ResidentLimitBytes

\* The effect of should_defer_round.  A record the request already had is
\* overwritten: its bytes are NOT given back.
ShouldDeferRound(r, round, k, lowConfidence) ==
    IF Defers(k, lowConfidence)
    THEN /\ deferred' = [deferred EXCEPT ![r] =
                           [spec_round |-> round, reserved |-> RoundBytes(k)]]
         /\ residentBytes' = residentBytes + RoundBytes(k)
    ELSE UNCHANGED <<deferred, residentBytes>>

\* on_round_verified: the record of this very round, if there is one, is
\* retired and its bytes are released (saturating at 0).
OnRoundVerified(r, round) ==
    IF deferred[r].spec_round # 0 /\ deferred[r].spec_round = round
    THEN /\ deferred' = [deferred EXCEPT ![r] = NoRecord]
         /\ residentBytes' = IF residentBytes >= deferred[r].reserved
                             THEN residentBytes - deferred[r].reserved
                             ELSE 0
    ELSE UNCHANGED <<deferred, residentBytes>>
=============================================================================
