----------------------------- MODULE SpecDecode -----------------------------
(***************************************************************************)
(* The speculative-decoding scheduler of ONNXim                            *)
(* (ONNXim/src/scheduler/SpecDecodeScheduler.cc) with the target model     *)
(* attached, composed with the two components its handlers update: the KV  *)
(* manager (module VSKM) and the SSRC coordinator (module SSRC).           *)
(*                                                                         *)
(* A request is prefilled by one PROMPT model, and then decoded in rounds: *)
(* k DRAFT models of one token each, at most one PRE_VERIFY of a proper    *)
(* prefix, one VERIFY whose accepted tokens are committed.  The simulator  *)
(* runs the issued models and reports each one's completion, in any order  *)
(* between requests.                                                       *)
(*                                                                         *)
(* What is abstracted.  EDC's choice of k and TVC's choice of a            *)
(* pre-verification are nondeterministic within the range the code clamps  *)
(* them to; so are the sampled acceptance, the entropy test of SSRC and    *)
(* the length of a KV rollback.  The cycle counter is not kept: the        *)
(* deadline of a stall is kept as the cycles that remain, and the arrival  *)
(* times as the number of requests that are due.  Logging, statistics and  *)
(* the round traces are left out.                                          *)
(***************************************************************************)
EXTENDS Integers, FiniteSets, FiniteSetsExt

CONSTANTS
    NumRequests,         \* rows of the request trace
    CachedLen,           \* cached_len column: request -> tokens
    PromptLen,           \* prompt_length column: request -> tokens
    GenLen,              \* target_length column: request -> tokens
    MaxDraft,            \* _max_draft_length (>= 1)
    MaxBatch,            \* _max_batch_size, 0 = unlimited
    EnableEDC,           \* EDC decides the draft length
    EnableTVC,           \* TVC may insert a PRE_VERIFY
    MinPreVerify,        \* AHASDConfig.min_preverify_length
    PreVerifyMax,        \* AHASDConfig.pre_verify_max
    EnableSSRC,          \* an enabled SSRC coordinator is attached
    PimActive,           \* an active PIM backend and AHASD are attached
    StateBytesPerToken, ResidentLimitBytes,   \* of module SSRC
    ResidentBytes, VersionEntries,            \* of module VSKM
    RollbackCycles,      \* the values estimate_rollback_cycles may return
    ZeroAcceptRounds,    \* bound: from this round on, a VERIFY accepts >= 1
    ModelIds             \* bound: ids of models outstanding at one time

Requests == 0 .. NumRequests - 1

ASSUME SpecDecodeAssumption ==
    /\ NumRequests \in Nat
    /\ CachedLen \in [Requests -> Nat]
    /\ PromptLen \in [Requests -> Nat]
    /\ GenLen \in [Requests -> Nat]
    /\ MaxDraft \in Nat \ {0}
    /\ MaxBatch \in Nat
    /\ EnableEDC \in BOOLEAN /\ EnableTVC \in BOOLEAN
    /\ EnableSSRC \in BOOLEAN /\ PimActive \in BOOLEAN
    /\ MinPreVerify \in Nat /\ PreVerifyMax \in Nat
    /\ StateBytesPerToken \in Nat /\ ResidentLimitBytes \in Nat
    /\ ResidentBytes \in Nat \ {0} /\ VersionEntries \in Nat
    /\ RollbackCycles \subseteq Nat \ {0}
    /\ ZeroAcceptRounds \in Nat

VARIABLES
    due,            \* requests 0 .. due-1 have request_time <= _cycle
    admitted,       \* requests 0 .. admitted-1 have left _request_queue
    req,            \* id -> LangRequest
    models,         \* _model_meta: the issued models that have not finished
    stall,          \* _kv_state_stall_until, as the cycles that remain
    preVerified,    \* _pre_verified_in_round: id -> round, 0 = absent
    deferredRound,  \* _ssrc_deferred_round: id -> round, 0 = absent
    lastRank,       \* _last_rank_mode: id -> mode, 0 when absent
    rankMode,       \* PIMBackend::_rank_mode, the same on every PIM channel
    deferred, residentBytes,       \* state of SSRC
    vskm, nextVersion, specBytes   \* state of VSKM

ssrcVars == <<deferred, residentBytes>>
vskmVars == <<vskm, nextVersion, specBytes>>
vars == <<due, admitted, req, models, stall, preVerified, deferredRound,
          lastRank, rankMode, ssrcVars, vskmVars>>

S == INSTANCE SSRC
V == INSTANCE VSKM

-----------------------------------------------------------------------------
Tasks  == {"PROMPT", "DRAFT", "VERIFY", "PRE_VERIFY"}
Phases == {"PROMPT_PENDING", "DRAFT_ROUND_START", "DRAFTING", "AWAIT_VERIFY",
           "DONE"}

\* Rank modes of the PIM channels: 0 holds draft (DLM) weights, 1 target (TLM).
DLM == 0
TLM == 1
RankOf(task) == IF task = "DRAFT" THEN DLM ELSE TLM

TargetLen(r) == CachedLen[r] + PromptLen[r] + GenLen[r]

MinOf(a, b) == IF a < b THEN a ELSE b
MaxOf(a, b) == IF a > b THEN a ELSE b

\* A request in _request_queue, as parse_request_trace leaves it.
QueuedRequest(r) ==
    [phase |-> "PROMPT_PENDING", running |-> FALSE, current |-> CachedLen[r],
     kv |-> 0, round |-> 0, planned |-> 0, drafted |-> 0]

\* The map _active_requests, q being the value of req.
ActiveIn(q, n) == {r \in 0 .. n - 1 : q[r].phase # "DONE"}
Active == ActiveIn(req, admitted)

-----------------------------------------------------------------------------
Init ==
    /\ due = 0
    /\ admitted = 0
    /\ req = [r \in Requests |-> QueuedRequest(r)]
    /\ models = {}
    /\ stall = [r \in Requests |-> 0]
    /\ preVerified = [r \in Requests |-> 0]
    /\ deferredRound = [r \in Requests |-> 0]
    /\ lastRank = [r \in Requests |-> DLM]
    /\ rankMode = DLM
    /\ S!SSRCInit
    /\ V!VSKMInit

\* The cycle counter reaches the request_time of the next queued request.
Arrive ==
    /\ due < NumRequests
    /\ due' = due + 1
    /\ UNCHANGED <<admitted, req, models, stall, preVerified, deferredRound,
                   lastRank, rankMode, ssrcVars, vskmVars>>

-----------------------------------------------------------------------------
(* cycle(): admission.                                                     *)

\* Mutant: the loop does not stop at MaxBatch.
AdmitCountNoBreak ==
    IF MaxBatch = 0 \/ Cardinality(Active) <= MaxBatch THEN due - admitted ELSE 0

\* How many requests one call admits.  The loop is entered with up to
\* MaxBatch requests active, and leaves after an admission that reaches
\* MaxBatch.
AdmitCount ==
    LET waiting == due - admitted
        n == Cardinality(Active)
    IN  CASE MaxBatch = 0 -> waiting
          [] MaxBatch # 0 /\ n <= MaxBatch ->
                MinOf(waiting, MaxOf(1, MaxBatch - n))
          [] OTHER -> 0

\* init_request and the assignments of the admission loop.
AfterAdmission ==
    [r \in Requests |->
        IF r \in admitted .. (admitted + AdmitCount) - 1
        THEN [req[r] EXCEPT !.running = FALSE, !.kv = req[r].current,
                            !.phase = "PROMPT_PENDING", !.round = 0,
                            !.drafted = 0, !.planned = 0]
        ELSE req[r]]

\* Mutant: a stall never expires.
StallTickFrozen == stall

\* The stall deadlines seen from the next cycle.
StallTick == [r \in Requests |-> IF stall[r] > 0 THEN stall[r] - 1 ELSE 0]

-----------------------------------------------------------------------------
(* try_issue_one_task().  q is the value of req after the admission loop.  *)

\* Mutants: the running flag, or the stall deadline, is not tested.
CanIssueRunning(r, q) == StallTick[r] = 0
CanIssueStalled(r, q) == ~q[r].running

\* The tests before the switch over spec_phase.
CanIssue(r, q) == ~q[r].running /\ StallTick[r] = 0

\* The request whose task the loop over _active_requests issues: the first
\* that can, in the order of the map.
IssuesFirst(r, q) ==
    LET active == ActiveIn(q, admitted + AdmitCount)
    IN  /\ r \in active /\ CanIssue(r, q)
        /\ \A s \in active : s < r => ~CanIssue(s, q)

\* The lambda request_rank_switch, and PIMBackend::switch_all_pim_to.  The
\* mode it compares with is the one this REQUEST last asked for.
RequestRankSwitch(r, desired) ==
    IF PimActive /\ lastRank[r] # desired
    THEN /\ rankMode' = desired
         /\ lastRank' = [lastRank EXCEPT ![r] = desired]
    ELSE UNCHANGED <<rankMode, lastRank>>

\* build_model, the entry in _model_meta and the push on _model_queue.
PushModel(r, task, k, round) ==
    \E id \in ModelIds :
        /\ \A m \in models : m.id # id
        /\ models' = models \cup
             {[id |-> id, req |-> r, task |-> task, k |-> k, round |-> round]}

MarkRunning(q, r) == [q EXCEPT ![r] = [@ EXCEPT !.running = TRUE]]

IssuePrompt(r, q) ==
    /\ q[r].phase = "PROMPT_PENDING"
    /\ RequestRankSwitch(r, TLM)
    /\ PushModel(r, "PROMPT", 0, 0)
    /\ req' = MarkRunning(q, r)
    /\ UNCHANGED <<preVerified, deferredRound, ssrcVars, vskmVars>>

\* Mutant: the plan ignores how many tokens are left.
DraftCapUnbounded(r, q) == MaxDraft

\* The draft lengths pick_draft_length may return.  Without EDC it is the
\* cap: the default draft length is the maximal one, as the constructor of
\* LangScheduler assigns its scheduler_config parameter to itself and the
\* default_draft_length key never reaches SpecDecodeScheduler.
DraftCap(r, q) == MinOf(MaxDraft, MaxOf(1, TargetLen(r) - q[r].current))
DraftLengths(r, q) ==
    IF EnableEDC THEN 1 .. DraftCap(r, q) ELSE {DraftCap(r, q)}

\* DRAFT_ROUND_START: plan the round, and fall through to its first DRAFT.
StartRound(r, q) ==
    /\ q[r].phase = "DRAFT_ROUND_START"
    /\ \E k \in DraftLengths(r, q), lowConfidence \in BOOLEAN :
         LET round == q[r].round + 1
         IN  /\ V!BeginRound(r, q[r].current)
             /\ IF EnableSSRC
                THEN /\ S!ShouldDeferRound(r, round, k, lowConfidence)
                     /\ deferredRound' = IF S!Defers(k, lowConfidence)
                                         THEN [deferredRound EXCEPT ![r] = round]
                                         ELSE deferredRound
                ELSE UNCHANGED <<deferredRound, ssrcVars>>
             /\ RequestRankSwitch(r, DLM)
             /\ PushModel(r, "DRAFT", k, round)
             /\ req' = [q EXCEPT ![r] =
                          [@ EXCEPT !.planned = k, !.drafted = 0, !.round = round,
                                    !.phase = "DRAFTING", !.running = TRUE]]
    /\ UNCHANGED preVerified

IssueDraft(r, q) ==
    /\ q[r].phase = "DRAFTING"
    /\ RequestRankSwitch(r, DLM)
    /\ PushModel(r, "DRAFT", q[r].planned, q[r].round)
    /\ req' = MarkRunning(q, r)
    /\ UNCHANGED <<preVerified, deferredRound, ssrcVars, vskmVars>>

\* The values decide_pre_verify may return: 0, or a proper prefix.
PreVerifyLengths(r, q) ==
    IF /\ EnableTVC
       /\ preVerified[r] # q[r].round
       /\ q[r].planned >= MinPreVerify
    THEN {0} \cup (1 .. MinOf(PreVerifyMax, q[r].planned - 1))
    ELSE {0}

\* AWAIT_VERIFY: a PRE_VERIFY when TVC asks for one, else the VERIFY.
IssueVerify(r, q) ==
    /\ q[r].phase = "AWAIT_VERIFY"
    /\ \E pv \in PreVerifyLengths(r, q) :
         LET k == MaxOf(1, q[r].planned)
         IN  IF pv > 0 /\ pv < k
             THEN /\ preVerified' = [preVerified EXCEPT ![r] = q[r].round]
                  /\ PushModel(r, "PRE_VERIFY", pv, q[r].round)
             ELSE /\ PushModel(r, "VERIFY", k, q[r].round)
                  /\ UNCHANGED preVerified
    /\ RequestRankSwitch(r, TLM)
    /\ req' = MarkRunning(q, r)
    /\ UNCHANGED <<deferredRound, ssrcVars, vskmVars>>

IssueOne(r, q) ==
    /\ IssuesFirst(r, q)
    /\ \/ IssuePrompt(r, q)
       \/ StartRound(r, q)
       \/ IssueDraft(r, q)
       \/ IssueVerify(r, q)

\* No active request can issue: cycle() only admits and counts.
IssueNone(q) ==
    /\ \A r \in Requests : ~IssuesFirst(r, q)
    /\ req' = q
    /\ UNCHANGED <<models, preVerified, deferredRound, lastRank, rankMode,
                   ssrcVars, vskmVars>>

\* cycle(): admit, then issue at most one model over all the requests.
Cycle ==
    /\ admitted' = admitted + AdmitCount
    /\ stall' = StallTick
    /\ due' = due
    /\ LET q == AfterAdmission
       IN  IssueNone(q) \/ \E r \in Requests : IssueOne(r, q)

-----------------------------------------------------------------------------
(* finish_model(), one action per task type.                               *)

FinishPrompt(m) ==
    /\ m.task = "PROMPT"
    /\ LET r == m.req
           length == req[r].current + PromptLen[r]
       IN  /\ req' = [req EXCEPT ![r] =
                        [@ EXCEPT !.current = length, !.kv = length,
                                  !.phase = "DRAFT_ROUND_START",
                                  !.running = FALSE]]
           /\ V!ResetRequest(r, length)
    /\ models' = models \ {m}
    /\ UNCHANGED <<due, admitted, stall, preVerified, deferredRound, lastRank,
                   rankMode, ssrcVars>>

\* Mutant: the round ends one token early.
PhaseAfterDraftEarly(r, n) ==
    IF n + 1 >= req[r].planned THEN "AWAIT_VERIFY" ELSE "DRAFTING"

\* The phase after the n-th token of a round.
PhaseAfterDraft(r, n) ==
    IF n >= req[r].planned THEN "AWAIT_VERIFY" ELSE "DRAFTING"

FinishDraft(m) ==
    /\ m.task = "DRAFT"
    /\ LET r == m.req
           n == req[r].drafted + 1
       IN  /\ req' = [req EXCEPT ![r] =
                        [@ EXCEPT !.kv = req[r].current + n, !.drafted = n,
                                  !.phase = PhaseAfterDraft(r, n),
                                  !.running = FALSE]]
           /\ V!DraftToken(r)
    /\ models' = models \ {m}
    /\ UNCHANGED <<due, admitted, stall, preVerified, deferredRound, lastRank,
                   rankMode, ssrcVars>>

\* Mutant: a PRE_VERIFY truncates the KV tensors to the prefix it covered.
FinishPreVerifyTruncates(m) ==
    /\ m.task = "PRE_VERIFY"
    /\ req' = [req EXCEPT ![m.req] = [@ EXCEPT !.running = FALSE,
                                              !.kv = req[m.req].current + m.k]]
    /\ models' = models \ {m}
    /\ UNCHANGED <<due, admitted, stall, preVerified, deferredRound, lastRank,
                   rankMode, ssrcVars, vskmVars>>

\* A PRE_VERIFY commits nothing: the request stays in AWAIT_VERIFY.
FinishPreVerify(m) ==
    /\ m.task = "PRE_VERIFY"
    /\ req' = [req EXCEPT ![m.req] = [@ EXCEPT !.running = FALSE]]
    /\ models' = models \ {m}
    /\ UNCHANGED <<due, admitted, stall, preVerified, deferredRound, lastRank,
                   rankMode, ssrcVars, vskmVars>>

\* Mutants: the target's own token is committed too; a request that reaches
\* its target length exactly is not done.
LengthAfterBonus(r, accepted) ==
    MinOf(TargetLen(r), req[r].current + accepted + 1)
PhaseAfterStrict(r, accepted) ==
    IF MinOf(TargetLen(r), req[r].current + accepted) > TargetLen(r)
    THEN "DONE" ELSE "DRAFT_ROUND_START"

\* apply_verify_result: the new current_length, and the phase it leads to.
LengthAfter(r, accepted) == MinOf(TargetLen(r), req[r].current + accepted)
PhaseAfter(r, accepted) ==
    IF LengthAfter(r, accepted) >= TargetLen(r) THEN "DONE"
                                                ELSE "DRAFT_ROUND_START"

\* Mutant: the key stays.
EraseNothing(f, r, done, absent) == f

\* Drop a finished request's key from one of the scheduler's maps.
Erase(f, r, done, absent) == IF done THEN [f EXCEPT ![r] = absent] ELSE f

\* A VERIFY of which the sampler accepts the first `accepted' tokens.
VerifyAccepts(m, accepted) ==
    LET r == m.req
        k == MaxOf(1, m.k)
        length == LengthAfter(r, accepted)
        done == PhaseAfter(r, accepted) = "DONE"
        retires == /\ EnableSSRC
                   /\ deferredRound[r] # 0
                   /\ deferredRound[r] = m.round
    IN  /\ accepted = 0 => req[r].round < ZeroAcceptRounds
        /\ V!CompleteVerify(r, k, accepted)
        /\ req' = [req EXCEPT ![r] =
                     [@ EXCEPT !.current = length, !.kv = length,
                               !.phase = PhaseAfter(r, accepted),
                               !.running = FALSE]]
        /\ \E rollback \in IF V!Rejected(r, k, accepted) > 0
                           THEN RollbackCycles ELSE {0} :
             stall' = IF rollback > 0 /\ ~done
                      THEN [stall EXCEPT ![r] = rollback]
                      ELSE Erase(stall, r, done, 0)
        /\ IF retires THEN S!OnRoundVerified(r, m.round)
                      ELSE UNCHANGED ssrcVars
        /\ deferredRound' = Erase(deferredRound, r, retires \/ done, 0)
        /\ lastRank' = Erase(lastRank, r, done, DLM)
        /\ preVerified' = Erase(preVerified, r, done, 0)

FinishVerify(m) ==
    /\ m.task = "VERIFY"
    /\ \E accepted \in 0 .. MaxOf(1, m.k) : VerifyAccepts(m, accepted)
    /\ models' = models \ {m}
    /\ UNCHANGED <<due, admitted, rankMode>>

FinishModel(m) == FinishPrompt(m) \/ FinishDraft(m) \/ FinishPreVerify(m)
                  \/ FinishVerify(m)

\* busy() is FALSE: the simulation ends.
AllDone == admitted = NumRequests /\ Active = {}

Next == \/ Arrive
        \/ Cycle
        \/ \E m \in models : FinishModel(m)

Spec == Init /\ [][Next]_vars

\* The simulator calls cycle() at every scheduler cycle, the clock reaches
\* every request_time, and a model that was issued finishes.
Fairness ==
    /\ WF_vars(Arrive)
    /\ WF_vars(Cycle)
    /\ \A id \in ModelIds :
         WF_vars(\E m \in models : m.id = id /\ FinishModel(m))

FairSpec == Spec /\ Fairness

-----------------------------------------------------------------------------
(* Properties.                                                             *)

InRound(r) == req[r].phase \in {"DRAFTING", "AWAIT_VERIFY"}

LangRequests == [phase : Phases, running : BOOLEAN, current : Nat, kv : Nat,
                 round : Nat, planned : Nat, drafted : Nat]
ModelMetas == [id : ModelIds, req : Requests, task : Tasks, k : Nat,
               round : Nat]

\* The types of the scheduler's, SSRC's and VSKM's state.
TypeOK ==
    /\ due \in 0 .. NumRequests
    /\ admitted \in 0 .. due
    /\ req \in [Requests -> LangRequests]
    /\ models \subseteq ModelMetas
    /\ stall \in [Requests -> Nat]
    /\ preVerified \in [Requests -> Nat]
    /\ deferredRound \in [Requests -> Nat]
    /\ lastRank \in [Requests -> {DLM, TLM}]
    /\ rankMode \in {DLM, TLM}
    /\ deferred \in [Requests -> [spec_round : Nat, reserved : Nat]]
    /\ residentBytes \in Nat
    /\ vskm \in [Requests -> [commit : Nat, drafted : Nat, version : Nat,
                              region : Nat]]
    /\ nextVersion \in Nat
    /\ specBytes \in Nat

\* A request has an outstanding model exactly while its running flag is set,
\* never two of them, and the model is the one its phase waits for
\* (try_issue_one_task / finish_model: "only one outstanding model per
\* request at a time").
TaskFitsPhase(m) ==
    CASE m.task = "PROMPT" -> req[m.req].phase = "PROMPT_PENDING"
      [] m.task = "DRAFT"  -> req[m.req].phase = "DRAFTING"
      [] OTHER             -> req[m.req].phase = "AWAIT_VERIFY"
OneModelPerRequest ==
    /\ \A m \in models :
         /\ m.req < admitted
         /\ req[m.req].running
         /\ TaskFitsPhase(m)
         /\ m.task # "PROMPT" => m.round = req[m.req].round
         /\ \A n \in models : n.req = m.req => n = m
    /\ \A r \in Requests : req[r].running => \E m \in models : m.req = r

\* A VERIFY covers exactly the tokens the round drafted, and a PRE_VERIFY a
\* proper prefix of them, whatever EDC and TVC decided in between.
VerifyCoversDraft ==
    \A m \in models :
        /\ m.task = "VERIFY" => m.k = req[m.req].drafted
        /\ m.task = "PRE_VERIFY" => m.k \in 1 .. req[m.req].drafted - 1

\* The KV tensors of an active request hold the committed tokens and, inside
\* a round, the tokens drafted so far; outside a round nothing speculative
\* is left in them (FinishDraft grows them, apply_verify_result truncates).
KvHoldsDrafts ==
    \A r \in 0 .. admitted - 1 :
        req[r].kv = req[r].current + (IF InRound(r) THEN req[r].drafted ELSE 0)

\* Speculation never runs past the end of the request: the KV tensors stay
\* within target_length (one token beyond it for a request that asks for no
\* token at all, which still runs one round).
KvWithinTarget ==
    \A r \in 0 .. admitted - 1 :
        req[r].kv <= TargetLen(r) + (IF GenLen[r] = 0 THEN 1 ELSE 0)

\* The KV manager and the scheduler agree on the committed prefix of every
\* request between its prefill and its end, and on the drafts of a round;
\* the speculative region holds exactly those drafts.
VskmAgrees ==
    \A r \in Active :
        req[r].phase # "PROMPT_PENDING" =>
          /\ vskm[r].commit = req[r].current
          /\ vskm[r].drafted = (IF InRound(r) THEN req[r].drafted ELSE 0)
          /\ vskm[r].region = ResidentBytes * vskm[r].drafted

\* The scheduler's _ssrc_deferred_round and SSRC's own record stay paired,
\* and name the round in flight: no record outlives its round.
DeferralsPaired ==
    \A r \in Requests :
        /\ deferredRound[r] = deferred[r].spec_round
        /\ deferred[r].spec_round # 0 =>
              /\ r < admitted
              /\ InRound(r)
              /\ deferred[r].spec_round = req[r].round
              /\ deferred[r].reserved = req[r].planned * StateBytesPerToken
        /\ deferred[r].spec_round = 0 => deferred[r].reserved = 0

\* No byte is lost or counted twice: current_speculative_kv_bytes_ is the sum
\* of the speculative regions of all requests (begin_round forgets a region
\* and complete_verify clamps at 0), and the resident bytes of SSRC are the
\* reservations of the rounds in flight, within its limit.
BytesConserved ==
    /\ specBytes = MapThenSumSet(LAMBDA r : vskm[r].region, Requests)
    /\ residentBytes = MapThenSumSet(LAMBDA r : deferred[r].reserved, Requests)
    /\ residentBytes <= ResidentLimitBytes

\* While a KV rollback stalls a request nothing of it runs, and the request
\* is between two rounds.
StallIdles ==
    \A r \in Requests :
        stall[r] > 0 => /\ ~req[r].running
                        /\ req[r].phase = "DRAFT_ROUND_START"

\* The admission loop overshoots max_batch_size by at most one request.
BatchBounded == MaxBatch > 0 => Cardinality(Active) <= MaxBatch + 1

\* No step takes back a committed token; no step of a decoding request commits
\* a token that its round did not draft and its VERIFY did not cover; and a
\* request runs at most one PRE_VERIFY in a round ("one PRE_VERIFY per
\* spec_round to avoid livelock").
RoundDiscipline ==
    [][/\ \A r \in Requests :
            /\ req'[r].current >= req[r].current
            /\ req'[r].current # req[r].current /\ req[r].phase # "PROMPT_PENDING"
                 => /\ req[r].phase = "AWAIT_VERIFY"
                    /\ req'[r].current - req[r].current <= req[r].drafted
                    /\ \E m \in models : m.req = r /\ m.task = "VERIFY"
       /\ \A m \in models' \ models :
            m.task = "PRE_VERIFY" => preVerified[m.req] # m.round]_vars

\* GTSU: a model is issued with the PIM ranks in the mode its task needs (the
\* comment of request_rank_switch: a switch is requested "when we are about
\* to issue a task whose rank-mode differs from the current one").
RankModeFitsTask ==
    [][\A m \in models' \ models : PimActive => rankMode' = RankOf(m.task)]_vars

\* Every request of the trace is completed.
AllComplete == <>AllDone

\* The scheduler implements the abstract service.
Status(r) ==
    CASE r >= admitted -> "waiting"
      [] r < admitted /\ req[r].phase = "PROMPT_PENDING" -> "prefill"
      [] r < admitted /\ req[r].phase = "DONE" -> "done"
      [] OTHER -> "decode"
Service == INSTANCE DecodeService WITH
             status <- [r \in Requests |-> Status(r)],
             committed <- [r \in Requests |-> req[r].current]
ImplementsService == Service!ServiceSpec
=============================================================================
