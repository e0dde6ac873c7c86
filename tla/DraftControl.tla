---------------------------- MODULE DraftControl ----------------------------
(***************************************************************************)
(* The drafting half of AHASDIntegration (ONNXim/src/AHASDIntegration.h):  *)
(* ONE EDC polled for the rounds of all requests and told the outcome of   *)
(* all verifications.  The calls come from SpecDecodeScheduler, which      *)
(* plans a round of a request, may run one PRE_VERIFY of a proper prefix   *)
(* of it, and then the VERIFY; the rounds of different requests interleave *)
(* freely.                                                                 *)
(***************************************************************************)
EXTENDS EDC, FiniteSetsExt

CONSTANTS Requests,        \* the requests in flight; the next one that arrives
                           \* takes the place of one that completed
          MaxDraft,        \* _max_draft_length
          EnableTVC,       \* PRE_VERIFYs may run
          EntropyBuckets   \* bound: the buckets the entropy hints fall into

ASSUME DraftControlAssumption ==
    /\ IsFiniteSet(Requests)
    /\ MaxDraft \in Nat \ {0}
    /\ EnableTVC \in BOOLEAN
    /\ EntropyBuckets \subseteq Buckets

VARIABLES
    edc,      \* the state of the one EDC
    round,    \* request -> its round: stage, planned length k, the number of
              \* polls that planned it and, to state RejectionRestores, the
              \* history the round started from
    nvct      \* TVC's NVCT has a record: no PRE_VERIFY runs before that

controlVars == <<edc, round, nvct>>

Open(r) == round[r].stage # "idle"

NoRound == [stage |-> "idle", k |-> 0, polls |-> 0, hist |-> EdcFresh.leht]

ControlInit ==
    /\ edc = EdcFresh
    /\ round = [r \in Requests |-> NoRound]
    /\ nvct = FALSE

\* decide_draft_length: poll until EDC says stop or the cap is reached.
PlanOf(bucket, cap) ==
    LET after[n \in 0 .. MaxDraft] ==
          IF n = 0 THEN edc ELSE Poll(after[n - 1], bucket)
        stops == {n \in 1 .. cap - 1 : ~Continues(after[n])}
        polls == IF stops = {} THEN cap - 1 ELSE Min(stops)
    IN  [k |-> IF stops = {} THEN cap ELSE polls, polls |-> polls,
         state |-> after[polls]]

\* pick_draft_length at the start of a round, the request having cap tokens
\* left (at most MaxDraft).
Plan(r, cap) ==
    /\ round[r].stage = "idle"
    /\ \E bucket \in EntropyBuckets :
         LET p == PlanOf(bucket, cap)
         IN  /\ edc' = p.state
             /\ round' = [round EXCEPT ![r] =
                            [stage |-> "planned", k |-> p.k, polls |-> p.polls,
                             hist |-> edc.leht]]
    /\ UNCHANGED nvct

\* record_verify_result of a PRE_VERIFY of the first pv tokens.
PreVerify(r) ==
    /\ EnableTVC /\ nvct
    /\ round[r].stage = "planned"
    /\ \E pv \in 1 .. round[r].k - 1 : \E accepted \in 0 .. pv :
         edc' = UpdateOnVerification(edc, accepted = pv, accepted)
    /\ round' = [round EXCEPT ![r].stage = "preverified"]
    /\ UNCHANGED nvct

\* record_verify_result of the VERIFY of the round.
Verify(r, accepted) ==
    /\ Open(r)
    /\ edc' = UpdateOnVerification(edc, accepted = round[r].k, accepted)
    /\ round' = [round EXCEPT ![r] = NoRound]
    /\ nvct' = EnableTVC

ControlNext ==
    \E r \in Requests :
        \/ \E cap \in 1 .. MaxDraft : Plan(r, cap)
        \/ PreVerify(r)
        \/ \E accepted \in 0 .. round[r].k : Verify(r, accepted)

ControlSpec == ControlInit /\ [][ControlNext]_controlVars

\* The simulation goes on: some request always has a next step.
FairControlSpec == ControlSpec /\ WF_controlVars(ControlNext)

-----------------------------------------------------------------------------
(* Properties.                                                             *)

Histories == [Slots -> Buckets]
Predictions == [index : 0 .. PhtSize - 1, go : BOOLEAN]

\* The LLR and the pending predictions are two counts of the same polls.
LlrTracksPending ==
    edc.llr = IF Len(edc.pending) < LlrMax THEN Len(edc.pending) ELSE LlrMax

\* The working history runs ahead of the committed one by exactly the polls
\* that wait for a verification: the pointers are that far apart (modulo the
\* ring), and only the slots in between may differ.
HistoryAhead ==
    LET n == Len(edc.pending)
        ahead == {(edc.commitPtr + i) % LehtSize : i \in 0 .. n - 1}
    IN  /\ edc.ptr = (edc.commitPtr + n) % LehtSize
        /\ \A i \in Slots : edc.leht[i] # edc.lceht[i] => i \in ahead

\* The pending predictions stay within the polls of the rounds in flight,
\* although any request's verification clears all of them.
PendingBounded ==
    Len(edc.pending) <=
        MapThenSumSet(LAMBDA r : IF Open(r) THEN round[r].polls ELSE 0, Requests)

\* "Rollback: Restored on rejection" (LCEHT), and a PRE_VERIFY does "NOT commit":
\* a VERIFY that rejects a token leaves the history as it was before the round.
RejectionRestores ==
    [][\A r \in Requests :
         Open(r) /\ (\E a \in 0 .. round[r].k - 1 : Verify(r, a))
           => edc'.leht = round[r].hist]_controlVars

\* Suppression is not for ever: if from some time on the requests have tokens
\* left and every verification accepts all of its tokens, rounds of the
\* maximal length come back again and again.
Favourable ==
    \E r \in Requests : \/ Plan(r, MaxDraft)
                       \/ Verify(r, round[r].k)
PlansFull == \E r \in Requests : Open(r) /\ round[r].k = MaxDraft
Recovers == <>[][Favourable]_controlVars => []<>PlansFull
=============================================================================
