--------------------------- MODULE SpecDecodeInv ----------------------------
(***************************************************************************)
(* The inductive invariant of SpecDecode.                                  *)
(*                                                                         *)
(* cycle() admits requests and then issues a model from the table the      *)
(* admission left, so the invariant is stated of a request table q and a   *)
(* number n of admitted requests: it holds of (req, admitted), admission   *)
(* takes it to (AfterAdmission, admitted + AdmitCount), and issuing a      *)
(* model from there takes it to (req', admitted').                         *)
(***************************************************************************)
EXTENDS SpecDecode

RoundPhases  == {"DRAFTING", "AWAIT_VERIFY"}
DecodePhases == {"DRAFT_ROUND_START"} \cup RoundPhases

\* The lengths of a request x whose id is r, phase by phase.
RoundShape(r, x) ==
    /\ x.current <= TargetLen(r)
    /\ x.phase = "PROMPT_PENDING" => x.current = CachedLen[r]
    /\ x.phase \in DecodePhases => x.current < TargetLen(r) \/ GenLen[r] = 0
    /\ x.phase = "DONE" => x.current = TargetLen(r)
    /\ x.phase \in RoundPhases =>
         /\ x.round >= 1
         /\ x.planned >= 1
         /\ x.planned <= MaxDraft
         /\ x.planned = 1 \/ x.current + x.planned <= TargetLen(r)
         /\ x.kv = x.current + x.drafted
    /\ x.phase = "DRAFTING" => x.drafted < x.planned
    /\ x.phase = "AWAIT_VERIFY" => x.drafted = x.planned

\* The SSRC record of request r belongs to the round x is in.
DeferralFits(r, x) ==
    /\ deferredRound[r] = deferred[r].spec_round
    /\ ~EnableSSRC => deferred[r].spec_round = 0
    /\ deferred[r].spec_round # 0 =>
         /\ x.phase \in RoundPhases
         /\ deferred[r].spec_round = x.round
         /\ deferred[r].reserved = x.planned * StateBytesPerToken
    /\ deferred[r].spec_round = 0 => deferred[r].reserved = 0

\* VSKM's view of request r is the scheduler's.
VskmFits(r, x) ==
    x.phase \in DecodePhases =>
      /\ vskm[r].commit = x.current
      /\ vskm[r].drafted = (IF x.phase \in RoundPhases THEN x.drafted ELSE 0)
      /\ vskm[r].region = ResidentBytes * vskm[r].drafted

StallFits(r, x) ==
    stall[r] > 0 => ~x.running /\ x.phase = "DRAFT_ROUND_START"

RequestFits(r, x) == /\ RoundShape(r, x)
                     /\ DeferralFits(r, x)
                     /\ VskmFits(r, x)
                     /\ StallFits(r, x)

\* An outstanding model is the one request x = q[m.req] waits for.
ModelFits(m, x) ==
    /\ x.running
    /\ m.task = "PROMPT" => x.phase = "PROMPT_PENDING"
    /\ m.task = "DRAFT"  => x.phase = "DRAFTING"
    /\ m.task \in {"VERIFY", "PRE_VERIFY"} => x.phase = "AWAIT_VERIFY"
    /\ m.task # "PROMPT" => m.round = x.round
    /\ m.task = "VERIFY" => m.k = x.planned
    /\ m.task = "PRE_VERIFY" => m.k >= 1 /\ m.k < x.planned

\* Requests still in the queue are untouched; settled tensors of the others
\* hold no speculative token.
TableFits(q, n) ==
    \A r \in Requests :
        /\ r >= n => q[r] = QueuedRequest(r)
        /\ r < n /\ q[r].phase \notin RoundPhases => q[r].kv = q[r].current

ModelsFit(q, n) ==
    /\ \A m \in models : m.req < n /\ ModelFits(m, q[m.req])
    /\ \A m1, m2 \in models : m1.req = m2.req => m1 = m2
    /\ \A r \in Requests : q[r].running => \E m \in models : m.req = r

InvAt(q, n) ==
    /\ TableFits(q, n)
    /\ ModelsFit(q, n)
    /\ \A r \in Requests : RequestFits(r, q[r])

\* The inductive invariant: the types, and the agreement of the scheduler's
\* table, its outstanding models, SSRC and VSKM on the state of every request.
IndInv == TypeOK /\ InvAt(req, admitted)
=============================================================================
