-------------------------- MODULE SpecDecodeProofs --------------------------
(***************************************************************************)
(* Proofs about SpecDecode, for every trace of requests and every value of *)
(* the configuration.  The first half shows that IndInv (SpecDecodeInv) is *)
(* inductive and what follows from it in every state; the second half is   *)
(* what a client of the scheduler sees: SpecDecode implements              *)
(* DecodeService, tokens are committed only by the VERIFY of their round,  *)
(* and the batch stays bounded.                                            *)
(***************************************************************************)
EXTENDS SpecDecodeInv, DataFacts

-----------------------------------------------------------------------------
(* Type correctness.                                                       *)

\* One call of cycle() admits some of the requests that are due.
LEMMA AdmitCountRange ==
    ASSUME TypeOK
    PROVE  AdmitCount \in 0 .. due - admitted
<1>1. due \in Int /\ admitted \in Int /\ admitted <= due /\ 0 <= admitted
  BY SpecDecodeAssumption DEF TypeOK
<1>2. Cardinality(Active) \in Nat
  <2>1. IsFiniteSet(0 .. admitted - 1)
    BY <1>1, FS_Interval
  <2>2. IsFiniteSet(Active)
    BY <2>1, FS_Subset DEF Active, ActiveIn
  <2> QED
    BY <2>2, FS_CardinalityType
<1> DEFINE n == Cardinality(Active)
<1> HIDE DEF n
<1>3. n \in Nat
  BY <1>2 DEF n
<1> QED
  BY <1>1, <1>3, SpecDecodeAssumption DEF AdmitCount, n, MinOf, MaxOf

\* The admission loop keeps the type of the request table, and admits at most
\* the requests that are due.
LEMMA AdmissionType ==
    ASSUME TypeOK
    PROVE  /\ AfterAdmission \in [Requests -> LangRequests]
           /\ admitted + AdmitCount \in 0 .. due
           /\ StallTick \in [Requests -> Nat]
<1>1. AdmitCount \in 0 .. due - admitted
  BY AdmitCountRange
<1>2. \A r \in Requests : req[r] \in LangRequests
  BY DEF TypeOK
<1>3. AfterAdmission \in [Requests -> LangRequests]
  BY <1>2, ZenonT(30) DEF AfterAdmission, LangRequests, Phases
<1>4. admitted + AdmitCount \in 0 .. due
  BY <1>1, SpecDecodeAssumption DEF TypeOK
<1>5. StallTick \in [Requests -> Nat]
  BY DEF TypeOK, StallTick
<1> QED
  BY <1>3, <1>4, <1>5

LEMMA TypeInit == Init => TypeOK
BY SpecDecodeAssumption
   DEF Init, TypeOK, S!SSRCInit, S!NoRecord, V!VSKMInit, V!FreshState,
       QueuedRequest, LangRequests, Phases, DLM, TLM, Requests

-----------------------------------------------------------------------------
(* What each handler does to the tables, field by field.                   *)

VskmStates == [commit : Nat, drafted : Nat, version : Nat, region : Nat]
RoundRecords == [spec_round : Nat, reserved : Nat]

\* PushModel adds one entry to _model_meta.
LEMMA PushModelEffect ==
    ASSUME NEW r \in Requests, NEW task \in Tasks, NEW k \in Nat,
           NEW round \in Nat, models \subseteq ModelMetas,
           PushModel(r, task, k, round)
    PROVE  /\ models' \subseteq ModelMetas
           /\ \E m \in ModelMetas :
                /\ models' = models \cup {m}
                /\ m.req = r /\ m.task = task /\ m.k = k /\ m.round = round
<1>1. PICK id \in ModelIds :
         models' = models \cup {[id |-> id, req |-> r, task |-> task, k |-> k,
                                round |-> round]}
  BY DEF PushModel
<1> DEFINE m == [id |-> id, req |-> r, task |-> task, k |-> k, round |-> round]
<1>2. /\ m \in ModelMetas
      /\ m.req = r /\ m.task = task /\ m.k = k /\ m.round = round
  BY DEF ModelMetas
<1>3. models' = models \cup {m}
  BY <1>1
<1> HIDE DEF m
<1> QED
  BY <1>2, <1>3

\* The rank-mode switch keeps the modes in {DLM, TLM}.
LEMMA RankSwitchType ==
    ASSUME NEW r \in Requests, NEW mode \in {DLM, TLM},
           lastRank \in [Requests -> {DLM, TLM}], rankMode \in {DLM, TLM},
           RequestRankSwitch(r, mode)
    PROVE  /\ lastRank' \in [Requests -> {DLM, TLM}]
           /\ rankMode' \in {DLM, TLM}
BY DEF RequestRankSwitch

\* The lengths of a request, the draft lengths and the reservations are
\* natural numbers; a round drafts at least one token, and goes past the
\* target only when one token is all there is to draft.
LEMMA DraftLengthType ==
    ASSUME NEW r \in Requests, NEW q \in [Requests -> LangRequests]
    PROVE  /\ TargetLen(r) \in Nat
           /\ \A k \in DraftLengths(r, q) :
                /\ k \in 1 .. MaxDraft
                /\ k = 1 \/ q[r].current + k <= TargetLen(r)
           /\ \A k \in Nat : S!RoundBytes(k) \in Nat
<1>1. CachedLen[r] \in Nat /\ PromptLen[r] \in Nat /\ GenLen[r] \in Nat
  BY SpecDecodeAssumption
<1>2. TargetLen(r) \in Nat
  BY <1>1 DEF TargetLen
<1>3. q[r].current \in Nat
  BY DEF LangRequests
<1> DEFINE cap == DraftCap(r, q)
           cur == q[r].current
           goal == TargetLen(r)
<1>4. cap = MinOf(MaxDraft, MaxOf(1, goal - cur))
  BY DEF DraftCap
<1>5. DraftLengths(r, q) \subseteq 1 .. cap /\ cap \in Int
      /\ cap >= 1 /\ cap <= MaxDraft /\ (cap > 1 => cur + cap <= goal)
  <2>1. cur \in Nat /\ goal \in Nat
    BY <1>2, <1>3
  <2> HIDE DEF cap, cur, goal
  <2>2. cap \in Int /\ cap >= 1 /\ cap <= MaxDraft /\ (cap > 1 => cur + cap <= goal)
    BY <1>4, <2>1, SpecDecodeAssumption DEF MinOf, MaxOf
  <2>3. DraftLengths(r, q) = IF EnableEDC THEN 1 .. cap ELSE {cap}
    BY DEF DraftLengths, cap
  <2> QED
    BY <2>2, <2>3
<1>6. \A k \in Nat : S!RoundBytes(k) \in Nat
  BY SpecDecodeAssumption DEF S!RoundBytes
<1>7. \A k \in DraftLengths(r, q) :
         /\ k \in 1 .. MaxDraft
         /\ k = 1 \/ q[r].current + k <= TargetLen(r)
  <2>1. cur \in Nat /\ goal \in Nat /\ MaxDraft \in Nat
    BY <1>2, <1>3, SpecDecodeAssumption
  <2> SUFFICES ASSUME NEW k \in DraftLengths(r, q)
               PROVE  k \in 1 .. MaxDraft /\ (k = 1 \/ cur + k <= goal)
    OBVIOUS
  <2> HIDE DEF cap, cur, goal
  <2> QED
    BY <1>5, <2>1
<1> QED
  BY <1>2, <1>6, <1>7

\* MarkRunning sets one flag of one request.
LEMMA MarkRunningEffect ==
    ASSUME NEW r \in Requests, NEW q \in [Requests -> LangRequests]
    PROVE  LET x == MarkRunning(q, r)[r] IN
           /\ MarkRunning(q, r) \in [Requests -> LangRequests]
           /\ x.running
           /\ x.phase = q[r].phase /\ x.current = q[r].current /\ x.kv = q[r].kv
           /\ x.round = q[r].round /\ x.planned = q[r].planned
           /\ x.drafted = q[r].drafted
           /\ \A s \in Requests \ {r} : MarkRunning(q, r)[s] = q[s]
<1> DEFINE x == [q[r] EXCEPT !.running = TRUE]
<1>1. q[r] \in LangRequests
  OBVIOUS
<1>2. /\ x \in LangRequests
      /\ x.running
      /\ x.phase = q[r].phase /\ x.current = q[r].current /\ x.kv = q[r].kv
      /\ x.round = q[r].round /\ x.planned = q[r].planned
      /\ x.drafted = q[r].drafted
  BY <1>1 DEF LangRequests
<1>3. MarkRunning(q, r) = [q EXCEPT ![r] = x]
  BY DEF MarkRunning
<1> HIDE DEF x
<1> QED
  BY <1>2, <1>3

\* VSKM: begin_round opens an empty region over the committed prefix.
LEMMA BeginRoundEffect ==
    ASSUME NEW r \in Requests, NEW c \in Nat, V!BeginRound(r, c),
           vskm \in [Requests -> VskmStates], nextVersion \in Nat
    PROVE  /\ vskm' \in [Requests -> VskmStates] /\ nextVersion' \in Nat
           /\ specBytes' = specBytes
           /\ vskm'[r].commit = c /\ vskm'[r].drafted = 0
           /\ vskm'[r].region = 0
           /\ \A s \in Requests \ {r} : vskm'[s] = vskm[s]
<1> DEFINE v == [commit |-> c, drafted |-> 0, version |-> nextVersion,
                 region |-> 0]
<1>1. v \in VskmStates /\ v.commit = c /\ v.drafted = 0 /\ v.region = 0
  BY DEF VskmStates
<1>2. vskm' = [vskm EXCEPT ![r] = v] /\ specBytes' = specBytes
  BY DEF V!BeginRound
<1>3. nextVersion' \in Nat
  BY SpecDecodeAssumption DEF V!BeginRound, V!VersionAfter
<1> HIDE DEF v
<1> QED
  BY <1>1, <1>2, <1>3

\* VSKM: reset_request starts a request with nothing drafted.
LEMMA ResetRequestEffect ==
    ASSUME NEW r \in Requests, NEW c \in Nat, V!ResetRequest(r, c),
           vskm \in [Requests -> VskmStates]
    PROVE  /\ vskm' \in [Requests -> VskmStates]
           /\ nextVersion' = nextVersion /\ specBytes' = specBytes
           /\ vskm'[r].commit = c /\ vskm'[r].drafted = 0
           /\ vskm'[r].region = 0
           /\ \A s \in Requests \ {r} : vskm'[s] = vskm[s]
<1> DEFINE v == [V!FreshState EXCEPT !.commit = c]
<1>1. v \in VskmStates /\ v.commit = c /\ v.drafted = 0 /\ v.region = 0
  BY DEF VskmStates, V!FreshState
<1>2. /\ vskm' = [vskm EXCEPT ![r] = v]
      /\ nextVersion' = nextVersion /\ specBytes' = specBytes
  BY DEF V!ResetRequest
<1> HIDE DEF v
<1> QED
  BY <1>1, <1>2

\* VSKM: draft_token grows the region of the round.
LEMMA DraftTokenEffect ==
    ASSUME NEW r \in Requests, V!DraftToken(r),
           vskm \in [Requests -> VskmStates], specBytes \in Nat
    PROVE  /\ vskm' \in [Requests -> VskmStates]
           /\ nextVersion' = nextVersion /\ specBytes' \in Nat
           /\ vskm'[r].commit = vskm[r].commit
           /\ vskm'[r].drafted = vskm[r].drafted + 1
           /\ vskm'[r].region = vskm[r].region + ResidentBytes
           /\ \A s \in Requests \ {r} : vskm'[s] = vskm[s]
<1> DEFINE d == vskm[r].drafted + 1
           g == vskm[r].region + ResidentBytes
           v == [vskm[r] EXCEPT !.drafted = d, !.region = g]
<1>1. vskm[r] \in VskmStates /\ d \in Nat /\ g \in Nat
  BY SpecDecodeAssumption DEF VskmStates
<1>2. /\ vskm' = [vskm EXCEPT ![r] = v]
      /\ nextVersion' = nextVersion /\ specBytes' \in Nat
  BY SpecDecodeAssumption DEF V!DraftToken
<1>3. v \in VskmStates /\ v.commit = vskm[r].commit /\ v.drafted = d
      /\ v.region = g
  <2> HIDE DEF d, g
  <2> QED BY <1>1 DEF VskmStates
<1> HIDE DEF v
<1> QED
  BY <1>1, <1>2, <1>3

\* VSKM: complete_verify closes the region and commits the accepted tokens.
LEMMA CompleteVerifyEffect ==
    ASSUME NEW r \in Requests, NEW k \in Nat, NEW a \in Nat,
           V!CompleteVerify(r, k, a),
           vskm \in [Requests -> VskmStates], specBytes \in Nat
    PROVE  /\ vskm' \in [Requests -> VskmStates]
           /\ nextVersion' = nextVersion /\ specBytes' \in Nat
           /\ vskm[r].drafted <= k /\ a <= k
                => vskm'[r].commit = vskm[r].commit + a
           /\ vskm'[r].drafted = 0
           /\ vskm'[r].region = 0
           /\ \A s \in Requests \ {r} : vskm'[s] = vskm[s]
<1> DEFINE c == vskm[r].commit + V!AcceptedTokens(r, k, a)
           v == [vskm[r] EXCEPT !.commit = c, !.drafted = 0, !.region = 0]
<1>1. vskm[r] \in VskmStates
  OBVIOUS
<1>2. vskm[r].commit \in Nat /\ vskm[r].drafted \in Nat /\ vskm[r].region \in Nat
  BY <1>1 DEF VskmStates
<1>3. /\ V!AcceptedTokens(r, k, a) \in Nat
      /\ vskm[r].drafted <= k /\ a <= k => V!AcceptedTokens(r, k, a) = a
  BY <1>2 DEF V!AcceptedTokens, V!DraftedTokens
<1>4. c \in Nat /\ (vskm[r].drafted <= k /\ a <= k => c = vskm[r].commit + a)
  BY <1>2, <1>3
<1>5. vskm' = [vskm EXCEPT ![r] = v] /\ nextVersion' = nextVersion
  BY DEF V!CompleteVerify
<1>6. specBytes' \in Nat
  BY <1>2 DEF V!CompleteVerify
<1> HIDE DEF c
<1>7. v \in VskmStates /\ v.commit = c /\ v.drafted = 0 /\ v.region = 0
  BY <1>1, <1>4 DEF VskmStates
<1> HIDE DEF v
<1> QED
  BY <1>4, <1>5, <1>6, <1>7

\* SSRC: should_defer_round leaves the table alone or records this round.
LEMMA ShouldDeferEffect ==
    ASSUME NEW r \in Requests, NEW round \in Nat, NEW k \in Nat,
           NEW low \in BOOLEAN, S!ShouldDeferRound(r, round, k, low),
           deferred \in [Requests -> RoundRecords], residentBytes \in Nat
    PROVE  /\ deferred' \in [Requests -> RoundRecords] /\ residentBytes' \in Nat
           /\ S!Defers(k, low) =>
                /\ deferred'[r].spec_round = round
                /\ deferred'[r].reserved = k * StateBytesPerToken
           /\ ~S!Defers(k, low) => deferred'[r] = deferred[r]
           /\ \A s \in Requests \ {r} : deferred'[s] = deferred[s]
<1> DEFINE b == S!RoundBytes(k)
           v == [spec_round |-> round, reserved |-> b]
<1>1. b \in Nat /\ b = k * StateBytesPerToken
  BY SpecDecodeAssumption DEF S!RoundBytes
<1>2. S!Defers(k, low) => /\ deferred' = [deferred EXCEPT ![r] = v]
                          /\ residentBytes' = residentBytes + b
  BY DEF S!ShouldDeferRound
<1>3. ~S!Defers(k, low) => deferred' = deferred /\ residentBytes' = residentBytes
  BY DEF S!ShouldDeferRound
<1> HIDE DEF b
<1>4. v \in RoundRecords /\ v.spec_round = round /\ v.reserved = b
  BY <1>1 DEF RoundRecords
<1> HIDE DEF v
<1>5. CASE S!Defers(k, low)
  BY <1>1, <1>2, <1>4, <1>5
<1>6. CASE ~S!Defers(k, low)
  BY <1>3, <1>6
<1> QED
  BY <1>5, <1>6

\* SSRC: on_round_verified retires the record of the round it is told of.
LEMMA RoundVerifiedEffect ==
    ASSUME NEW r \in Requests, NEW round \in Nat, S!OnRoundVerified(r, round),
           deferred \in [Requests -> RoundRecords], residentBytes \in Nat
    PROVE  /\ deferred' \in [Requests -> RoundRecords] /\ residentBytes' \in Nat
           /\ deferred[r].spec_round = round /\ round # 0 =>
                deferred'[r].spec_round = 0 /\ deferred'[r].reserved = 0
           /\ \A s \in Requests \ {r} : deferred'[s] = deferred[s]
<1>1. /\ S!NoRecord \in RoundRecords
      /\ S!NoRecord.spec_round = 0 /\ S!NoRecord.reserved = 0
  BY DEF S!NoRecord, RoundRecords
<1>2. deferred[r] \in RoundRecords /\ deferred[r].reserved \in Nat
  BY DEF RoundRecords
<1>3. CASE deferred[r].spec_round # 0 /\ deferred[r].spec_round = round
  <2>1. deferred' = [deferred EXCEPT ![r] = S!NoRecord]
    BY <1>3 DEF S!OnRoundVerified
  <2>2. residentBytes' \in Nat
    BY <1>2, <1>3 DEF S!OnRoundVerified
  <2> QED
    BY <1>1, <2>1, <2>2
<1>4. CASE ~(deferred[r].spec_round # 0 /\ deferred[r].spec_round = round)
  BY <1>4 DEF S!OnRoundVerified
<1> QED
  BY <1>3, <1>4

-----------------------------------------------------------------------------
(* The invariant: the requests a step does not touch.                      *)

\* A step that leaves alone what SSRC, VSKM and the stall table hold of
\* request s, and its entry x, keeps RequestFits of s.
LEMMA FrameFits ==
    ASSUME NEW s \in Requests, NEW x, RequestFits(s, x), req'[s] = x,
           vskm'[s] = vskm[s], deferred'[s] = deferred[s],
           deferredRound'[s] = deferredRound[s],
           stall'[s] > 0 => stall[s] > 0
    PROVE  RequestFits(s, req[s])'
<1>1. RoundShape(s, req[s])'
  BY DEF RequestFits, RoundShape, TargetLen
<1>2. DeferralFits(s, req[s])'
  BY DEF RequestFits, DeferralFits
<1>3. VskmFits(s, req[s])'
  BY DEF RequestFits, VskmFits
<1>4. StallFits(s, req[s])'
  BY DEF RequestFits, StallFits
<1> QED
  BY <1>1, <1>2, <1>3, <1>4 DEF RequestFits

\* A completion of model m that settles the request of m keeps the invariant.
LEMMA FinishFrame ==
    ASSUME IndInv, NEW m \in models, models' = models \ {m},
           admitted' = admitted,
           ~req'[m.req].running,
           RequestFits(m.req, req[m.req])',
           req'[m.req].phase \notin RoundPhases
             => req'[m.req].kv = req'[m.req].current,
           \A s \in Requests \ {m.req} :
             /\ req'[s] = req[s] /\ vskm'[s] = vskm[s]
             /\ deferred'[s] = deferred[s]
             /\ deferredRound'[s] = deferredRound[s] /\ stall'[s] = stall[s]
    PROVE  InvAt(req, admitted)'
<1> DEFINE r == m.req
<1>1. r \in Requests /\ (\A n \in models : n.req \in Requests)
  BY DEF IndInv, TypeOK, ModelMetas
<1>2. r < admitted /\ (\A n \in models : n.req = r => n = m)
  BY DEF IndInv, InvAt, ModelsFit
<1> HIDE DEF r
<1>3. TableFits(req, admitted)'
  <2> SUFFICES ASSUME NEW s \in Requests
               PROVE  /\ s >= admitted' => req'[s] = QueuedRequest(s)
                      /\ s < admitted' /\ req'[s].phase \notin RoundPhases
                           => req'[s].kv = req'[s].current
    BY DEF TableFits, QueuedRequest
  <2>1. admitted \in Int /\ s \in Int
    BY SpecDecodeAssumption DEF IndInv, TypeOK, Requests
  <2>2. CASE s = r
    BY <1>2, <2>1, <2>2 DEF r
  <2>3. CASE s # r
    BY <2>3 DEF IndInv, InvAt, TableFits, r
  <2> QED
    BY <2>2, <2>3
<1>4. ModelsFit(req, admitted)'
  <2>1. \A n \in models' : n.req < admitted' /\ ModelFits(n, req'[n.req])
    <3> SUFFICES ASSUME NEW n \in models'
                 PROVE  n.req < admitted' /\ ModelFits(n, req'[n.req])
      OBVIOUS
    <3>1. n \in models /\ n # m
      OBVIOUS
    <3>2. n.req \in Requests \ {r}
      BY <1>1, <1>2, <3>1
    <3>3. req'[n.req] = req[n.req]
      BY <3>2 DEF r
    <3> QED
      BY <3>1, <3>3 DEF IndInv, InvAt, ModelsFit
  <2>2. \A m1, m2 \in models' : m1.req = m2.req => m1 = m2
    BY DEF IndInv, InvAt, ModelsFit
  <2>3. \A s \in Requests : req'[s].running => \E n \in models' : n.req = s
    <3> SUFFICES ASSUME NEW s \in Requests, req'[s].running
                 PROVE  \E n \in models' : n.req = s
      OBVIOUS
    <3>1. s # r
      BY DEF r
    <3>2. req[s].running
      BY <3>1 DEF r
    <3>3. PICK n \in models : n.req = s
      BY <3>2 DEF IndInv, InvAt, ModelsFit
    <3>4. n # m
      BY <3>1, <3>3 DEF r
    <3> QED
      BY <3>3, <3>4
  <2> QED
    BY <2>1, <2>2, <2>3 DEF ModelsFit, ModelFits
<1>5. \A s \in Requests : RequestFits(s, req[s])'
  <2> SUFFICES ASSUME NEW s \in Requests PROVE RequestFits(s, req[s])'
    OBVIOUS
  <2>1. CASE s = r
    BY <2>1 DEF r
  <2>2. CASE s # r
    <3>1. RequestFits(s, req[s])
      BY DEF IndInv, InvAt
    <3> QED
      BY <2>2, <3>1, FrameFits DEF r
  <2> QED
    BY <2>1, <2>2
<1> QED
  BY <1>3, <1>4, <1>5 DEF InvAt

\* Issuing model m for the idle request r, from the table q that admission
\* left, keeps the invariant if the entry of r does.
LEMMA IssueFrame ==
    ASSUME TypeOK, NEW q \in [Requests -> LangRequests], NEW n \in Int,
           InvAt(q, n), admitted' = n,
           NEW r \in Requests, r < n, ~q[r].running,
           NEW m \in ModelMetas, models' = models \cup {m}, m.req = r,
           ModelFits(m, req'[r]),
           RequestFits(r, req[r])',
           req'[r].phase \notin RoundPhases => req'[r].kv = req'[r].current,
           stall' = StallTick,
           \A s \in Requests \ {r} :
             /\ req'[s] = q[s] /\ vskm'[s] = vskm[s]
             /\ deferred'[s] = deferred[s]
             /\ deferredRound'[s] = deferredRound[s]
    PROVE  InvAt(req, admitted)'
<1>1. \A x \in models : x.req \in Requests /\ x.req # r
  <2>1. \A x \in models : x.req \in Requests /\ q[x.req].running
    BY DEF TypeOK, ModelMetas, InvAt, ModelsFit, ModelFits
  <2> QED
    BY <2>1
<1>2. TableFits(req, admitted)'
  <2> SUFFICES ASSUME NEW s \in Requests
               PROVE  /\ s >= admitted' => req'[s] = QueuedRequest(s)
                      /\ s < admitted' /\ req'[s].phase \notin RoundPhases
                           => req'[s].kv = req'[s].current
    BY DEF TableFits, QueuedRequest
  <2>1. s \in Int
    BY SpecDecodeAssumption DEF Requests
  <2>2. CASE s = r
    BY <2>1, <2>2
  <2>3. CASE s # r
    BY <2>3 DEF InvAt, TableFits
  <2> QED
    BY <2>2, <2>3
<1>3. ModelsFit(req, admitted)'
  <2>1. \A x \in models' : x.req < admitted' /\ ModelFits(x, req'[x.req])
    <3> SUFFICES ASSUME NEW x \in models'
                 PROVE  x.req < admitted' /\ ModelFits(x, req'[x.req])
      OBVIOUS
    <3>1. CASE x = m
      BY <3>1
    <3>2. CASE x \in models
      <4>1. req'[x.req] = q[x.req]
        BY <1>1, <3>2
      <4> QED
        BY <3>2, <4>1 DEF InvAt, ModelsFit
    <3> QED
      BY <3>1, <3>2
  <2>2. \A m1, m2 \in models' : m1.req = m2.req => m1 = m2
    BY <1>1 DEF InvAt, ModelsFit
  <2>3. \A s \in Requests : req'[s].running => \E x \in models' : x.req = s
    <3> SUFFICES ASSUME NEW s \in Requests, req'[s].running
                 PROVE  \E x \in models' : x.req = s
      OBVIOUS
    <3>1. CASE s = r
      BY <3>1
    <3>2. CASE s # r
      <4>1. q[s].running
        BY <3>2
      <4> QED
        BY <4>1 DEF InvAt, ModelsFit
    <3> QED
      BY <3>1, <3>2
  <2> QED
    BY <2>1, <2>2, <2>3 DEF ModelsFit, ModelFits
<1>4. \A s \in Requests : RequestFits(s, req[s])'
  <2> SUFFICES ASSUME NEW s \in Requests PROVE RequestFits(s, req[s])'
    OBVIOUS
  <2>1. CASE s = r
    BY <2>1
  <2>2. CASE s # r
    <3>1. RequestFits(s, q[s])
      BY DEF InvAt
    <3>2. stall'[s] > 0 => stall[s] > 0
      BY DEF StallTick, TypeOK
    <3> QED
      BY <2>2, <3>1, <3>2, FrameFits
  <2> QED
    BY <2>1, <2>2
<1> QED
  BY <1>2, <1>3, <1>4 DEF InvAt

-----------------------------------------------------------------------------
(* The invariant: the completions.                                         *)

\* What the invariant says of the request an outstanding model belongs to.
LEMMA OwnerFacts ==
    ASSUME IndInv, NEW m \in models
    PROVE  /\ m \in ModelMetas /\ m.req \in Requests
           /\ m.k \in Nat /\ m.round \in Nat
           /\ req[m.req] \in LangRequests
           /\ vskm[m.req] \in VskmStates
           /\ deferred[m.req] \in RoundRecords
           /\ ModelFits(m, req[m.req])
           /\ RequestFits(m.req, req[m.req])
           /\ stall[m.req] = 0
           /\ m.req < admitted
<1>1. m \in ModelMetas /\ m.req \in Requests /\ m.k \in Nat /\ m.round \in Nat
  BY DEF IndInv, TypeOK, ModelMetas
<1>2. ModelFits(m, req[m.req]) /\ RequestFits(m.req, req[m.req])
      /\ m.req < admitted
  BY <1>1 DEF IndInv, InvAt, ModelsFit
<1>3. stall[m.req] \in Nat
  BY <1>1 DEF IndInv, TypeOK
<1>4. stall[m.req] = 0
  BY <1>2, <1>3 DEF ModelFits, RequestFits, StallFits
<1> QED
  BY <1>1, <1>2, <1>4 DEF IndInv, TypeOK, VskmStates, RoundRecords

LEMMA FinishPromptStep ==
    ASSUME IndInv, NEW m \in models, FinishPrompt(m)
    PROVE  IndInv'
<1> DEFINE r == m.req
           length == req[r].current + PromptLen[r]
           x == [req[r] EXCEPT !.current = length, !.kv = length,
                               !.phase = "DRAFT_ROUND_START", !.running = FALSE]
<1>1. r \in Requests /\ req[r] \in LangRequests /\ r < admitted
  BY OwnerFacts, SMTT(30)
<1>2. /\ req[r].phase = "PROMPT_PENDING" /\ req[r].current = CachedLen[r]
      /\ CachedLen[r] \in Nat /\ PromptLen[r] \in Nat /\ GenLen[r] \in Nat
  BY <1>1, OwnerFacts, SpecDecodeAssumption
     DEF FinishPrompt, ModelFits, RequestFits, RoundShape
<1>3. length \in Nat /\ length <= TargetLen(r)
      /\ (length < TargetLen(r) \/ GenLen[r] = 0)
  BY <1>2 DEF TargetLen
<1>4. /\ req' = [req EXCEPT ![r] = x] /\ V!ResetRequest(r, length)
      /\ models' = models \ {m} /\ admitted' = admitted
      /\ stall' = stall /\ deferred' = deferred /\ deferredRound' = deferredRound
  BY DEF FinishPrompt, ssrcVars
<1> HIDE DEF length
<1>5. /\ x \in LangRequests /\ x.current = length /\ x.kv = length
      /\ x.phase = "DRAFT_ROUND_START" /\ ~x.running
  BY <1>1, <1>3 DEF LangRequests, Phases
<1> HIDE DEF x
<1>6. /\ req' \in [Requests -> LangRequests] /\ req'[r] = x
      /\ \A s \in Requests \ {r} : req'[s] = req[s]
  BY <1>1, <1>4, <1>5 DEF IndInv, TypeOK
<1>7. /\ vskm' \in [Requests -> VskmStates]
      /\ nextVersion' = nextVersion /\ specBytes' = specBytes
      /\ vskm'[r].commit = length /\ vskm'[r].drafted = 0
      /\ vskm'[r].region = 0
      /\ \A s \in Requests \ {r} : vskm'[s] = vskm[s]
  BY <1>1, <1>3, <1>4, ResetRequestEffect DEF IndInv, TypeOK, VskmStates
<1>8. RequestFits(r, req[r])'
  <2>1. RoundShape(r, req[r])'
    BY <1>3, <1>5, <1>6 DEF RoundShape, TargetLen, DecodePhases, RoundPhases
  <2>2. DeferralFits(r, req[r])'
    <3>1. DeferralFits(r, req[r])
      BY OwnerFacts DEF RequestFits
    <3> QED
      BY <1>2, <1>4, <3>1 DEF DeferralFits, RoundPhases
  <2>3. VskmFits(r, req[r])'
    BY <1>5, <1>6, <1>7, SpecDecodeAssumption DEF VskmFits, RoundPhases
  <2>4. StallFits(r, req[r])'
    BY <1>4, <1>5, <1>6 DEF StallFits
  <2> QED
    BY <2>1, <2>2, <2>3, <2>4 DEF RequestFits
<1>9. InvAt(req, admitted)'
  BY <1>4, <1>5, <1>6, <1>7, <1>8, FinishFrame DEF r
<1>10. TypeOK'
  BY <1>6, <1>7 DEF FinishPrompt, IndInv, TypeOK, ssrcVars, VskmStates
<1> QED
  BY <1>9, <1>10 DEF IndInv

LEMMA FinishDraftStep ==
    ASSUME IndInv, NEW m \in models, FinishDraft(m)
    PROVE  IndInv'
<1> DEFINE r == m.req
           n == req[r].drafted + 1
           length == req[r].current + n
           ph == PhaseAfterDraft(r, n)
           x == [req[r] EXCEPT !.kv = length, !.drafted = n, !.phase = ph,
                               !.running = FALSE]
<1>1. r \in Requests /\ req[r] \in LangRequests /\ r < admitted
  BY OwnerFacts
<1>2. req[r].phase = "DRAFTING" /\ RequestFits(r, req[r])
  BY OwnerFacts DEF FinishDraft, ModelFits
<1>3. /\ req[r].drafted \in Nat /\ req[r].current \in Nat
      /\ req[r].planned \in Nat /\ req[r].round \in Nat
  BY <1>1 DEF LangRequests
<1>4. /\ n \in Nat /\ length \in Nat /\ ph \in {"AWAIT_VERIFY", "DRAFTING"}
      /\ n <= req[r].planned
      /\ ph = "DRAFTING" => n < req[r].planned
      /\ ph = "AWAIT_VERIFY" => n = req[r].planned
  BY <1>2, <1>3 DEF RequestFits, RoundShape, PhaseAfterDraft
<1>5. /\ req' = [req EXCEPT ![r] = x] /\ V!DraftToken(r)
      /\ models' = models \ {m} /\ admitted' = admitted
      /\ stall' = stall /\ deferred' = deferred /\ deferredRound' = deferredRound
  BY DEF FinishDraft, ssrcVars
<1> HIDE DEF n, length, ph
<1>6. /\ x \in LangRequests /\ x.kv = length /\ x.drafted = n /\ x.phase = ph
      /\ ~x.running /\ x.current = req[r].current /\ x.planned = req[r].planned
      /\ x.round = req[r].round
  BY <1>1, <1>4 DEF LangRequests, Phases
<1> HIDE DEF x
<1>7. /\ req' \in [Requests -> LangRequests] /\ req'[r] = x
      /\ \A s \in Requests \ {r} : req'[s] = req[s]
  BY <1>1, <1>5, <1>6 DEF IndInv, TypeOK
<1>8. /\ vskm' \in [Requests -> VskmStates]
      /\ nextVersion' = nextVersion /\ specBytes' \in Nat
      /\ vskm'[r].commit = vskm[r].commit
      /\ vskm'[r].drafted = vskm[r].drafted + 1
      /\ vskm'[r].region = vskm[r].region + ResidentBytes
      /\ \A s \in Requests \ {r} : vskm'[s] = vskm[s]
  BY <1>1, <1>5, DraftTokenEffect DEF IndInv, TypeOK, VskmStates
<1>9. RequestFits(r, req[r])'
  <2>1. RoundShape(r, req[r])'
    BY <1>2, <1>3, <1>4, <1>6, <1>7
       DEF RequestFits, RoundShape, TargetLen, DecodePhases, RoundPhases,
           n, length
  <2>2. DeferralFits(r, req[r])'
    BY <1>2, <1>4, <1>5, <1>6, <1>7 DEF RequestFits, DeferralFits, RoundPhases
  <2>3. VskmFits(r, req[r])'
    <3>1. /\ vskm[r].commit = req[r].current /\ vskm[r].drafted = req[r].drafted
          /\ vskm[r].region = ResidentBytes * vskm[r].drafted
      BY <1>2 DEF RequestFits, VskmFits, DecodePhases, RoundPhases
    <3>2. vskm'[r].region = ResidentBytes * vskm'[r].drafted
      BY <1>3, <1>8, <3>1, SpecDecodeAssumption
    <3>3. vskm'[r].drafted = n
      BY <1>8, <3>1 DEF n
    <3> QED
      BY <1>4, <1>6, <1>7, <1>8, <3>1, <3>2, <3>3
         DEF VskmFits, DecodePhases, RoundPhases
  <2>4. StallFits(r, req[r])'
    BY <1>5, OwnerFacts DEF StallFits
  <2> QED
    BY <2>1, <2>2, <2>3, <2>4 DEF RequestFits
<1>10. InvAt(req, admitted)'
  <2>1. req'[r].phase \in RoundPhases
    BY <1>4, <1>6, <1>7 DEF RoundPhases
  <2> QED
    BY <2>1, <1>5, <1>6, <1>7, <1>8, <1>9, FinishFrame DEF r
<1>11. TypeOK'
  BY <1>7, <1>8 DEF FinishDraft, IndInv, TypeOK, ssrcVars, VskmStates
<1> QED
  BY <1>10, <1>11 DEF IndInv

LEMMA FinishPreVerifyStep ==
    ASSUME IndInv, NEW m \in models, FinishPreVerify(m)
    PROVE  IndInv'
<1> DEFINE r == m.req
           x == [req[r] EXCEPT !.running = FALSE]
<1>1. r \in Requests /\ req[r] \in LangRequests /\ r < admitted
  BY OwnerFacts
<1>2. req[r].phase = "AWAIT_VERIFY" /\ RequestFits(r, req[r]) /\ stall[r] = 0
  BY OwnerFacts DEF FinishPreVerify, ModelFits
<1>3. /\ req' = [req EXCEPT ![r] = x] /\ vskm' = vskm
      /\ models' = models \ {m} /\ admitted' = admitted
      /\ stall' = stall /\ deferred' = deferred /\ deferredRound' = deferredRound
  BY DEF FinishPreVerify, ssrcVars, vskmVars
<1>4. /\ x \in LangRequests /\ x.kv = req[r].kv /\ x.drafted = req[r].drafted
      /\ x.phase = req[r].phase /\ ~x.running /\ x.current = req[r].current
      /\ x.planned = req[r].planned /\ x.round = req[r].round
  BY <1>1 DEF LangRequests
<1> HIDE DEF x
<1>5. /\ req' \in [Requests -> LangRequests] /\ req'[r] = x
      /\ \A s \in Requests \ {r} : req'[s] = req[s]
  BY <1>1, <1>3, <1>4 DEF IndInv, TypeOK
<1>6. RequestFits(r, req[r])'
  <2>1. RoundShape(r, req[r])'
    BY <1>2, <1>4, <1>5 DEF RequestFits, RoundShape, TargetLen
  <2>2. DeferralFits(r, req[r])'
    BY <1>2, <1>3, <1>4, <1>5 DEF RequestFits, DeferralFits
  <2>3. VskmFits(r, req[r])'
    BY <1>2, <1>3, <1>4, <1>5 DEF RequestFits, VskmFits
  <2>4. StallFits(r, req[r])'
    BY <1>2, <1>3 DEF StallFits
  <2> QED
    BY <2>1, <2>2, <2>3, <2>4 DEF RequestFits
<1>7. InvAt(req, admitted)'
  <2>1. req'[r].phase \in RoundPhases
    BY <1>2, <1>4, <1>5 DEF RoundPhases
  <2> QED
    BY <2>1, <1>3, <1>4, <1>5, <1>6, FinishFrame DEF r
<1>8. TypeOK'
  BY <1>5 DEF FinishPreVerify, IndInv, TypeOK, ssrcVars, vskmVars
<1> QED
  BY <1>7, <1>8 DEF IndInv

\* A VERIFY commits the accepted tokens, closes VSKM's region, retires the
\* SSRC record of the round and leaves the request between two rounds or done.
LEMMA FinishVerifyStep ==
    ASSUME IndInv, NEW m \in models, FinishVerify(m)
    PROVE  IndInv'
<1> DEFINE r == m.req
           k == MaxOf(1, m.k)
<1>1. /\ r \in Requests /\ req[r] \in LangRequests /\ r < admitted
      /\ m.k \in Nat /\ m.round \in Nat
      /\ RequestFits(r, req[r]) /\ stall[r] = 0
      /\ deferred[r] \in RoundRecords /\ vskm[r] \in VskmStates
  BY OwnerFacts
<1>2. /\ req[r].phase = "AWAIT_VERIFY" /\ m.k = req[r].planned
      /\ m.round = req[r].round
  BY OwnerFacts DEF FinishVerify, ModelFits
<1>3. /\ req[r].drafted \in Nat /\ req[r].current \in Nat
      /\ req[r].planned \in Nat /\ req[r].round \in Nat
      /\ TargetLen(r) \in Nat
  BY <1>1, SpecDecodeAssumption DEF LangRequests, TargetLen
<1>4. /\ k = req[r].planned /\ k \in Nat /\ req[r].round # 0
      /\ vskm[r].drafted = k /\ vskm[r].commit = req[r].current
  BY <1>1, <1>2, <1>3 DEF RequestFits, RoundShape, VskmFits, DecodePhases,
                          RoundPhases, MaxOf
<1>5. PICK a \in 0 .. k : VerifyAccepts(m, a)
  BY DEF FinishVerify
<1> HIDE DEF k
<1> DEFINE length == LengthAfter(r, a)
           ph == PhaseAfter(r, a)
           x == [req[r] EXCEPT !.current = length, !.kv = length, !.phase = ph,
                               !.running = FALSE]
<1>6. a \in Nat /\ a <= k
  BY <1>4
<1>7. /\ length \in Nat /\ length <= TargetLen(r)
      /\ ph \in {"DONE", "DRAFT_ROUND_START"}
      /\ ph = "DONE" => length = TargetLen(r)
      /\ ph # "DONE" => length < TargetLen(r) /\ length = req[r].current + a
  BY <1>3, <1>6 DEF LengthAfter, PhaseAfter, MinOf
<1>8. /\ req' = [req EXCEPT ![r] = x] /\ V!CompleteVerify(r, k, a)
      /\ models' = models \ {m} /\ admitted' = admitted
  BY <1>5 DEF FinishVerify, VerifyAccepts, k
<1> HIDE DEF length, ph
<1>9. /\ x \in LangRequests /\ x.kv = length /\ x.current = length
      /\ x.phase = ph /\ ~x.running
  BY <1>1, <1>7 DEF LangRequests, Phases
<1> HIDE DEF x
<1>10. /\ req' \in [Requests -> LangRequests] /\ req'[r] = x
       /\ \A s \in Requests \ {r} : req'[s] = req[s]
  BY <1>1, <1>8, <1>9 DEF IndInv, TypeOK
<1>11. /\ vskm' \in [Requests -> VskmStates]
       /\ nextVersion' = nextVersion /\ specBytes' \in Nat
       /\ vskm'[r].commit = req[r].current + a
       /\ vskm'[r].drafted = 0 /\ vskm'[r].region = 0
       /\ \A s \in Requests \ {r} : vskm'[s] = vskm[s]
  <2>1. vskm[r].drafted <= k
    BY <1>4
  <2> QED
    BY <2>1, <1>1, <1>4, <1>6, <1>8, CompleteVerifyEffect
       DEF IndInv, TypeOK, VskmStates
<1>12. /\ stall' \in [Requests -> Nat]
       /\ ph = "DONE" => stall'[r] = 0
       /\ \A s \in Requests \ {r} : stall'[s] = stall[s]
  <2>1. PICK rollback \in IF V!Rejected(r, k, a) > 0 THEN RollbackCycles
                                                     ELSE {0} :
          stall' = IF rollback > 0 /\ ~(ph = "DONE")
                   THEN [stall EXCEPT ![r] = rollback]
                   ELSE Erase(stall, r, ph = "DONE", 0)
    BY <1>5 DEF VerifyAccepts, k, ph
  <2>2. rollback \in Nat
    BY <2>1, SpecDecodeAssumption
  <2>3. stall \in [Requests -> Nat]
    BY DEF IndInv, TypeOK
  <2> QED
    BY <1>1, <2>1, <2>2, <2>3 DEF Erase
<1>13. /\ deferred' \in [Requests -> RoundRecords] /\ residentBytes' \in Nat
       /\ deferredRound' \in [Requests -> Nat]
       /\ deferred'[r].spec_round = 0 /\ deferred'[r].reserved = 0
       /\ deferredRound'[r] = 0
       /\ \A s \in Requests \ {r} : /\ deferred'[s] = deferred[s]
                                    /\ deferredRound'[s] = deferredRound[s]
  <2> DEFINE retires == /\ EnableSSRC
                        /\ deferredRound[r] # 0
                        /\ deferredRound[r] = m.round
  <2>1. /\ IF retires THEN S!OnRoundVerified(r, m.round) ELSE UNCHANGED ssrcVars
        /\ deferredRound' = Erase(deferredRound, r, retires \/ ph = "DONE", 0)
    BY <1>5 DEF VerifyAccepts, ph
  <2>2. /\ deferred \in [Requests -> RoundRecords] /\ residentBytes \in Nat
        /\ deferredRound \in [Requests -> Nat]
    BY DEF IndInv, TypeOK, RoundRecords
  <2>3. /\ deferredRound[r] = deferred[r].spec_round
        /\ deferred[r].spec_round # 0 =>
             EnableSSRC /\ deferred[r].spec_round = m.round
        /\ deferred[r].spec_round = 0 => deferred[r].reserved = 0
    BY <1>1, <1>2, SpecDecodeAssumption DEF RequestFits, DeferralFits
  <2>4. CASE retires
    <3>1. /\ deferred' \in [Requests -> RoundRecords] /\ residentBytes' \in Nat
          /\ deferred'[r].spec_round = 0 /\ deferred'[r].reserved = 0
          /\ \A s \in Requests \ {r} : deferred'[s] = deferred[s]
      BY <1>1, <2>1, <2>2, <2>3, <2>4, RoundVerifiedEffect
    <3>2. deferredRound' = [deferredRound EXCEPT ![r] = 0]
      BY <2>1, <2>4 DEF Erase
    <3> QED
      BY <1>1, <2>2, <3>1, <3>2
  <2>5. CASE ~retires
    <3>1. deferred' = deferred /\ residentBytes' = residentBytes
      BY <2>1, <2>5 DEF ssrcVars
    <3>2. deferred[r].spec_round = 0
      BY <2>3, <2>5
    <3>3. deferredRound' = deferredRound
          \/ deferredRound' = [deferredRound EXCEPT ![r] = 0]
      BY <2>1 DEF Erase
    <3> QED
      BY <1>1, <2>2, <2>3, <3>1, <3>2, <3>3
  <2> QED
    BY <2>4, <2>5
<1>14. RequestFits(r, req[r])'
  <2>1. RoundShape(r, req[r])'
    BY <1>7, <1>9, <1>10 DEF RoundShape, TargetLen, DecodePhases, RoundPhases
  <2>2. DeferralFits(r, req[r])'
    BY <1>13 DEF DeferralFits
  <2>3. VskmFits(r, req[r])'
    BY <1>7, <1>9, <1>10, <1>11, SpecDecodeAssumption
       DEF VskmFits, DecodePhases, RoundPhases
  <2>4. StallFits(r, req[r])'
    BY <1>1, <1>7, <1>9, <1>10, <1>12 DEF StallFits
  <2> QED
    BY <2>1, <2>2, <2>3, <2>4 DEF RequestFits
<1>15. InvAt(req, admitted)'
  BY <1>8, <1>9, <1>10, <1>11, <1>12, <1>13, <1>14, FinishFrame DEF r
<1>16. preVerified' \in [Requests -> Nat] /\ lastRank' \in [Requests -> {DLM, TLM}]
  <2>1. /\ lastRank' = Erase(lastRank, r, ph = "DONE", DLM)
        /\ preVerified' = Erase(preVerified, r, ph = "DONE", 0)
    BY <1>5 DEF VerifyAccepts, ph
  <2> QED
    BY <2>1 DEF Erase, IndInv, TypeOK
<1>17. TypeOK'
  BY <1>10, <1>11, <1>12, <1>13, <1>16
     DEF FinishVerify, IndInv, TypeOK, VskmStates, RoundRecords
<1> QED
  BY <1>15, <1>17 DEF IndInv

-----------------------------------------------------------------------------
(* The invariant: admission, and the models cycle() issues.                *)

\* The admission loop keeps the invariant of the table.
LEMMA AdmissionInv ==
    ASSUME IndInv
    PROVE  InvAt(AfterAdmission, admitted + AdmitCount)
<1> DEFINE q == AfterAdmission
           n == admitted + AdmitCount
           entry(r) == [req[r] EXCEPT !.running = FALSE, !.kv = req[r].current,
                                      !.phase = "PROMPT_PENDING", !.round = 0,
                                      !.drafted = 0, !.planned = 0]
<1>1. n \in 0 .. due /\ admitted \in Nat /\ n \in Int /\ admitted <= n
  BY AdmissionType, AdmitCountRange, SpecDecodeAssumption DEF IndInv, TypeOK
<1>2. \A r \in Requests : r \in Int
  BY SpecDecodeAssumption DEF Requests
<1>a. q = [r \in Requests |-> IF r \in admitted .. n - 1 THEN entry(r)
                                                        ELSE req[r]]
  BY DEF AfterAdmission
<1> HIDE DEF q, n, entry
<1>3. \A r \in Requests :
         /\ r \notin admitted .. n - 1 => q[r] = req[r]
         /\ r \in admitted .. n - 1 => q[r] = entry(r)
  BY <1>a
<1>4. \A r \in Requests : r \in admitted .. n - 1 =>
         /\ req[r] = QueuedRequest(r)
         /\ q[r].phase = "PROMPT_PENDING" /\ ~q[r].running
         /\ q[r].current = CachedLen[r] /\ q[r].kv = CachedLen[r]
  <2> SUFFICES ASSUME NEW r \in Requests, r \in admitted .. n - 1
               PROVE  /\ req[r] = QueuedRequest(r)
                      /\ q[r].phase = "PROMPT_PENDING" /\ ~q[r].running
                      /\ q[r].current = CachedLen[r] /\ q[r].kv = CachedLen[r]
    OBVIOUS
  <2>1. req[r] = QueuedRequest(r)
    BY <1>1, <1>2 DEF IndInv, InvAt, TableFits
  <2>2. q[r] = entry(r)
    BY <1>3
  <2>3. req[r].current = CachedLen[r]
    BY <2>1 DEF QueuedRequest
  <2>4. req[r] \in LangRequests
    BY DEF IndInv, TypeOK
  <2> QED
    BY <2>1, <2>2, <2>3, <2>4 DEF LangRequests, entry
<1>5. TableFits(q, n)
  <2> SUFFICES ASSUME NEW r \in Requests
               PROVE  /\ r >= n => q[r] = QueuedRequest(r)
                      /\ r < n /\ q[r].phase \notin RoundPhases
                           => q[r].kv = q[r].current
    BY DEF TableFits
  <2>1. CASE r \in admitted .. n - 1
    BY <1>1, <1>2, <1>4, <2>1
  <2>2. CASE r \notin admitted .. n - 1
    BY <1>1, <1>2, <1>3, <2>2 DEF IndInv, InvAt, TableFits
  <2> QED
    BY <2>1, <2>2
<1>6. ModelsFit(q, n)
  <2>1. \A m \in models : /\ m.req \in Requests /\ m.req < admitted
                          /\ ModelFits(m, req[m.req])
    BY DEF IndInv, InvAt, ModelsFit, TypeOK, ModelMetas
  <2>2. \A m \in models : q[m.req] = req[m.req] /\ m.req < n
    BY <1>1, <1>2, <1>3, <2>1
  <2>3. \A r \in Requests : q[r].running => req[r].running
    BY <1>3, <1>4
  <2>4. \A m \in models : m.req < n /\ ModelFits(m, q[m.req])
    BY <2>1, <2>2
  <2> QED
    BY <2>3, <2>4 DEF IndInv, InvAt, ModelsFit
<1>7. \A r \in Requests : RequestFits(r, q[r])
  <2> SUFFICES ASSUME NEW r \in Requests PROVE RequestFits(r, q[r])
    OBVIOUS
  <2>1. RequestFits(r, req[r])
    BY DEF IndInv, InvAt
  <2>2. CASE r \in admitted .. n - 1
    <3>1. req[r].phase = "PROMPT_PENDING" /\ req[r].running = FALSE
      <4>1. req[r] = QueuedRequest(r)
        BY <1>4, <2>2
      <4> QED
        BY <4>1 DEF QueuedRequest
    <3>2. CachedLen[r] \in Nat /\ PromptLen[r] \in Nat /\ GenLen[r] \in Nat
      BY SpecDecodeAssumption
    <3>3. RoundShape(r, q[r])
      BY <1>4, <2>2, <3>2 DEF RoundShape, TargetLen, DecodePhases, RoundPhases
    <3>4. DeferralFits(r, q[r])
      BY <2>1, <3>1 DEF RequestFits, DeferralFits, RoundPhases
    <3>5. VskmFits(r, q[r])
      BY <1>4, <2>2 DEF VskmFits, DecodePhases, RoundPhases
    <3>6. StallFits(r, q[r])
      BY <2>1, <3>1 DEF RequestFits, StallFits
    <3> QED
      BY <3>3, <3>4, <3>5, <3>6 DEF RequestFits
  <2>3. CASE r \notin admitted .. n - 1
    BY <1>3, <2>1, <2>3
  <2> QED
    BY <2>2, <2>3
<1> QED
  BY <1>5, <1>6, <1>7 DEF InvAt, q, n

\* What holds of the request that cycle() issues a model for.
LEMMA IssuerFacts ==
    ASSUME IndInv, NEW r \in Requests, IssuesFirst(r, AfterAdmission)
    PROVE  /\ r < admitted + AdmitCount /\ ~AfterAdmission[r].running
           /\ AfterAdmission[r] \in LangRequests
           /\ RequestFits(r, AfterAdmission[r])
           /\ AfterAdmission[r].phase \notin RoundPhases =>
                AfterAdmission[r].kv = AfterAdmission[r].current
           /\ stall \in [Requests -> Nat] /\ StallTick[r] = 0
           /\ admitted + AdmitCount \in Int
           /\ InvAt(AfterAdmission, admitted + AdmitCount)
           /\ vskm[r] \in VskmStates /\ deferred[r] \in RoundRecords
<1>1. /\ AfterAdmission \in [Requests -> LangRequests]
      /\ admitted + AdmitCount \in 0 .. due /\ due \in Int
  BY AdmissionType, SpecDecodeAssumption DEF IndInv, TypeOK
<1>2. InvAt(AfterAdmission, admitted + AdmitCount)
  BY AdmissionInv
<1>3. /\ r \in 0 .. (admitted + AdmitCount) - 1
      /\ ~AfterAdmission[r].running /\ StallTick[r] = 0
  BY DEF IssuesFirst, ActiveIn, CanIssue
<1>4. r < admitted + AdmitCount
  BY <1>1, <1>3
<1> QED
  BY <1>1, <1>2, <1>3, <1>4 DEF InvAt, TableFits, IndInv, TypeOK, VskmStates,
                                RoundRecords

\* Issuing a model that only marks its request as running keeps the
\* invariant: the models of a PROMPT, of a later DRAFT, and of a verification.
LEMMA MarkedIssue ==
    ASSUME IndInv, NEW r \in Requests, IssuesFirst(r, AfterAdmission),
           admitted' = admitted + AdmitCount, stall' = StallTick, due' = due,
           req' = MarkRunning(AfterAdmission, r),
           UNCHANGED <<deferredRound, ssrcVars, vskmVars>>,
           preVerified' \in [Requests -> Nat],
           lastRank' \in [Requests -> {DLM, TLM}], rankMode' \in {DLM, TLM},
           NEW m \in ModelMetas, models' = models \cup {m}, m.req = r,
           ModelFits(m, req'[r])
    PROVE  IndInv'
<1> DEFINE q == AfterAdmission
           n == admitted + AdmitCount
<1>1. /\ r < n /\ ~q[r].running /\ q[r] \in LangRequests
      /\ RequestFits(r, q[r])
      /\ q[r].phase \notin RoundPhases => q[r].kv = q[r].current
      /\ n \in Int /\ InvAt(q, n) /\ StallTick[r] = 0
  BY IssuerFacts
<1>2. q \in [Requests -> LangRequests] /\ n \in 0 .. due
      /\ StallTick \in [Requests -> Nat]
  BY AdmissionType DEF IndInv
<1>3. /\ vskm' = vskm /\ deferred' = deferred /\ deferredRound' = deferredRound
      /\ residentBytes' = residentBytes /\ nextVersion' = nextVersion
      /\ specBytes' = specBytes
  BY DEF ssrcVars, vskmVars
<1>4. req' = MarkRunning(q, r) /\ admitted' = n
  OBVIOUS
<1> HIDE DEF q, n
<1>5. /\ req' \in [Requests -> LangRequests]
      /\ req'[r].phase = q[r].phase /\ req'[r].current = q[r].current
      /\ req'[r].kv = q[r].kv /\ req'[r].round = q[r].round
      /\ req'[r].planned = q[r].planned /\ req'[r].drafted = q[r].drafted
      /\ \A s \in Requests \ {r} : req'[s] = q[s]
  BY <1>2, <1>4, MarkRunningEffect
<1>6. RequestFits(r, req[r])'
  <2>1. RoundShape(r, req[r])'
    BY <1>1, <1>5 DEF RequestFits, RoundShape, TargetLen
  <2>2. DeferralFits(r, req[r])'
    BY <1>1, <1>3, <1>5 DEF RequestFits, DeferralFits
  <2>3. VskmFits(r, req[r])'
    BY <1>1, <1>3, <1>5 DEF RequestFits, VskmFits
  <2>4. StallFits(r, req[r])'
    BY <1>1 DEF StallFits
  <2> QED
    BY <2>1, <2>2, <2>3, <2>4 DEF RequestFits
<1>7. InvAt(req, admitted)'
  BY <1>1, <1>2, <1>3, <1>4, <1>5, <1>6, IssueFrame DEF IndInv
<1>8. TypeOK'
  BY <1>2, <1>3, <1>4, <1>5 DEF IndInv, TypeOK
<1> QED
  BY <1>7, <1>8 DEF IndInv

LEMMA IssuePromptStep ==
    ASSUME IndInv, NEW r \in Requests, IssuesFirst(r, AfterAdmission),
           admitted' = admitted + AdmitCount, stall' = StallTick, due' = due,
           IssuePrompt(r, AfterAdmission)
    PROVE  IndInv'
<1>1. PICK m \in ModelMetas :
        /\ models' = models \cup {m}
        /\ m.req = r /\ m.task = "PROMPT"
  BY PushModelEffect, SMTT(30) DEF IssuePrompt, IndInv, TypeOK, Tasks
<1>2. req'[r].running /\ req'[r].phase = "PROMPT_PENDING"
  BY AdmissionType, MarkRunningEffect DEF IssuePrompt, IndInv
<1>3. ModelFits(m, req'[r])
  BY <1>1, <1>2 DEF ModelFits
<1>4. lastRank' \in [Requests -> {DLM, TLM}] /\ rankMode' \in {DLM, TLM}
  BY RankSwitchType DEF IssuePrompt, IndInv, TypeOK
<1>5. /\ req' = MarkRunning(AfterAdmission, r)
      /\ UNCHANGED <<deferredRound, ssrcVars, vskmVars>>
      /\ preVerified' \in [Requests -> Nat]
  BY DEF IssuePrompt, IndInv, TypeOK
<1> QED
  BY <1>1, <1>3, <1>4, <1>5, MarkedIssue

LEMMA IssueDraftStep ==
    ASSUME IndInv, NEW r \in Requests, IssuesFirst(r, AfterAdmission),
           admitted' = admitted + AdmitCount, stall' = StallTick, due' = due,
           IssueDraft(r, AfterAdmission)
    PROVE  IndInv'
<1> DEFINE q == AfterAdmission
<1>1. q \in [Requests -> LangRequests] /\ q[r].planned \in Nat
      /\ q[r].round \in Nat
  BY AdmissionType DEF IndInv, LangRequests
<1>2. PICK m \in ModelMetas :
        /\ models' = models \cup {m}
        /\ m.req = r /\ m.task = "DRAFT" /\ m.round = q[r].round
  <2>1. models \subseteq ModelMetas
    BY DEF IndInv, TypeOK
  <2>2. PushModel(r, "DRAFT", q[r].planned, q[r].round)
    BY DEF IssueDraft
  <2> HIDE DEF q
  <2> QED
    BY <1>1, <2>1, <2>2, PushModelEffect DEF Tasks
<1>3. req'[r].running /\ req'[r].phase = "DRAFTING" /\ req'[r].round = q[r].round
  BY <1>1, MarkRunningEffect DEF IssueDraft
<1>4. ModelFits(m, req'[r])
  BY <1>2, <1>3 DEF ModelFits
<1>5. lastRank' \in [Requests -> {DLM, TLM}] /\ rankMode' \in {DLM, TLM}
  BY RankSwitchType DEF IssueDraft, IndInv, TypeOK
<1>6. /\ req' = MarkRunning(AfterAdmission, r)
      /\ UNCHANGED <<deferredRound, ssrcVars, vskmVars>>
      /\ preVerified' \in [Requests -> Nat]
  BY DEF IssueDraft, IndInv, TypeOK
<1> QED
  BY <1>2, <1>4, <1>5, <1>6, MarkedIssue

\* The VERIFY covers the whole plan, a PRE_VERIFY a proper prefix of it.
LEMMA IssueVerifyStep ==
    ASSUME IndInv, NEW r \in Requests, IssuesFirst(r, AfterAdmission),
           admitted' = admitted + AdmitCount, stall' = StallTick, due' = due,
           IssueVerify(r, AfterAdmission)
    PROVE  IndInv'
<1> DEFINE q == AfterAdmission
           k == MaxOf(1, q[r].planned)
<1>1. q \in [Requests -> LangRequests] /\ q[r].planned \in Nat
      /\ q[r].round \in Nat
  BY AdmissionType DEF IndInv, LangRequests
<1>2. q[r].phase = "AWAIT_VERIFY" /\ req' = MarkRunning(q, r)
      /\ RequestFits(r, q[r])
  BY IssuerFacts DEF IssueVerify
<1>3. k = q[r].planned /\ k \in Nat
  BY <1>1, <1>2 DEF RequestFits, RoundShape, RoundPhases, MaxOf
<1>4. PICK pv \in PreVerifyLengths(r, q) :
        IF pv > 0 /\ pv < k
        THEN /\ preVerified' = [preVerified EXCEPT ![r] = q[r].round]
             /\ PushModel(r, "PRE_VERIFY", pv, q[r].round)
        ELSE /\ PushModel(r, "VERIFY", k, q[r].round)
             /\ UNCHANGED preVerified
  BY DEF IssueVerify
<1>5. /\ req'[r].running /\ req'[r].phase = "AWAIT_VERIFY"
      /\ req'[r].round = q[r].round /\ req'[r].planned = q[r].planned
  BY <1>1, <1>2, MarkRunningEffect
<1>6. lastRank' \in [Requests -> {DLM, TLM}] /\ rankMode' \in {DLM, TLM}
  BY RankSwitchType DEF IssueVerify, IndInv, TypeOK
<1>7. /\ req' = MarkRunning(AfterAdmission, r)
      /\ UNCHANGED <<deferredRound, ssrcVars, vskmVars>>
  BY DEF IssueVerify
<1>8. models \subseteq ModelMetas /\ preVerified \in [Requests -> Nat]
  BY DEF IndInv, TypeOK
<1>9. pv \in Nat
  <2>1. MinOf(PreVerifyMax, q[r].planned - 1) \in Int
    BY <1>1, SpecDecodeAssumption DEF MinOf
  <2> HIDE DEF q
  <2> QED
    BY <1>4, <2>1 DEF PreVerifyLengths
<1> HIDE DEF q, k
<1>10. CASE pv > 0 /\ pv < k
  <2>1. PICK m \in ModelMetas :
          /\ models' = models \cup {m}
          /\ m.req = r /\ m.task = "PRE_VERIFY" /\ m.k = pv
          /\ m.round = q[r].round
    BY <1>1, <1>4, <1>8, <1>9, <1>10, PushModelEffect, SMTT(30) DEF Tasks
  <2>2. ModelFits(m, req'[r])
    BY <1>3, <1>5, <1>9, <1>10, <2>1 DEF ModelFits
  <2>3. preVerified' \in [Requests -> Nat]
    BY <1>1, <1>4, <1>8, <1>10
  <2> QED
    BY <1>6, <1>7, <2>1, <2>2, <2>3, MarkedIssue
<1>11. CASE ~(pv > 0 /\ pv < k)
  <2>1. PICK m \in ModelMetas :
          /\ models' = models \cup {m}
          /\ m.req = r /\ m.task = "VERIFY" /\ m.k = k /\ m.round = q[r].round
    BY <1>1, <1>3, <1>4, <1>8, <1>11, PushModelEffect DEF Tasks
  <2>2. ModelFits(m, req'[r])
    BY <1>3, <1>5, <2>1 DEF ModelFits
  <2>3. preVerified' \in [Requests -> Nat]
    BY <1>4, <1>8, <1>11
  <2> QED
    BY <1>6, <1>7, <2>1, <2>2, <2>3, MarkedIssue
<1> QED
  BY <1>10, <1>11

\* A round is planned within the target, VSKM opens an empty region for it,
\* and SSRC records it if it defers it.
LEMMA StartRoundStep ==
    ASSUME IndInv, NEW r \in Requests, IssuesFirst(r, AfterAdmission),
           admitted' = admitted + AdmitCount, stall' = StallTick, due' = due,
           StartRound(r, AfterAdmission)
    PROVE  IndInv'
<1> DEFINE q == AfterAdmission
           n == admitted + AdmitCount
           round == q[r].round + 1
<1>1. PICK k \in DraftLengths(r, q), low \in BOOLEAN :
        /\ V!BeginRound(r, q[r].current)
        /\ IF EnableSSRC
           THEN /\ S!ShouldDeferRound(r, round, k, low)
                /\ deferredRound' = IF S!Defers(k, low)
                                    THEN [deferredRound EXCEPT ![r] = round]
                                    ELSE deferredRound
           ELSE UNCHANGED <<deferredRound, ssrcVars>>
        /\ RequestRankSwitch(r, DLM)
        /\ PushModel(r, "DRAFT", k, round)
        /\ req' = [q EXCEPT ![r] =
                     [@ EXCEPT !.planned = k, !.drafted = 0, !.round = round,
                               !.phase = "DRAFTING", !.running = TRUE]]
  BY DEF StartRound
<1>2. /\ r < n /\ ~q[r].running /\ q[r] \in LangRequests
      /\ RequestFits(r, q[r])
      /\ q[r].phase \notin RoundPhases => q[r].kv = q[r].current
      /\ n \in Int /\ InvAt(q, n) /\ StallTick[r] = 0
  BY IssuerFacts
<1>3. q \in [Requests -> LangRequests] /\ n \in 0 .. due
      /\ StallTick \in [Requests -> Nat]
  BY AdmissionType DEF IndInv
<1>4. q[r].phase = "DRAFT_ROUND_START" /\ preVerified' = preVerified
      /\ admitted' = n
  BY DEF StartRound
<1>5. q[r].current \in Nat /\ q[r].round \in Nat /\ round \in Nat /\ round # 0
      /\ q[r].kv = q[r].current
  BY <1>2, <1>4 DEF LangRequests, RoundPhases
<1> HIDE DEF q, n, round
<1>6. /\ k \in Nat /\ k >= 1 /\ k <= MaxDraft
      /\ k = 1 \/ q[r].current + k <= TargetLen(r)
  BY <1>1, <1>3, DraftLengthType, SpecDecodeAssumption
<1> DEFINE x == [q[r] EXCEPT !.planned = k, !.drafted = 0, !.round = round,
                             !.phase = "DRAFTING", !.running = TRUE]
<1>7. /\ x \in LangRequests /\ x.planned = k /\ x.drafted = 0
      /\ x.round = round /\ x.phase = "DRAFTING" /\ x.running
      /\ x.current = q[r].current /\ x.kv = q[r].current
  BY <1>2, <1>5, <1>6 DEF LangRequests, Phases
<1>8. req' = [q EXCEPT ![r] = x]
  BY <1>1
<1> HIDE DEF x
<1>9. /\ req' \in [Requests -> LangRequests] /\ req'[r] = x
      /\ \A s \in Requests \ {r} : req'[s] = q[s]
  BY <1>3, <1>7, <1>8
<1>10. /\ vskm' \in [Requests -> VskmStates] /\ nextVersion' \in Nat
       /\ specBytes' = specBytes
       /\ vskm'[r].commit = q[r].current /\ vskm'[r].drafted = 0
       /\ vskm'[r].region = 0
       /\ \A s \in Requests \ {r} : vskm'[s] = vskm[s]
  BY <1>1, <1>5, BeginRoundEffect DEF IndInv, TypeOK, VskmStates
<1>11. /\ deferred' \in [Requests -> RoundRecords] /\ residentBytes' \in Nat
       /\ deferredRound' \in [Requests -> Nat]
       /\ deferredRound'[r] = deferred'[r].spec_round
       /\ ~EnableSSRC => deferred'[r].spec_round = 0
       /\ deferred'[r].spec_round # 0 =>
            /\ deferred'[r].spec_round = round
            /\ deferred'[r].reserved = k * StateBytesPerToken
       /\ deferred'[r].spec_round = 0 => deferred'[r].reserved = 0
       /\ \A s \in Requests \ {r} : /\ deferred'[s] = deferred[s]
                                    /\ deferredRound'[s] = deferredRound[s]
  <2>1. /\ deferred \in [Requests -> RoundRecords] /\ residentBytes \in Nat
        /\ deferredRound \in [Requests -> Nat]
    BY DEF IndInv, TypeOK, RoundRecords
  <2>2. /\ deferredRound[r] = 0 /\ deferred[r].spec_round = 0
        /\ deferred[r].reserved = 0
    BY <1>2, <1>4 DEF RequestFits, DeferralFits, RoundPhases
  <2>3. CASE EnableSSRC
    <3>1. S!ShouldDeferRound(r, round, k, low)
          /\ deferredRound' = IF S!Defers(k, low)
                              THEN [deferredRound EXCEPT ![r] = round]
                              ELSE deferredRound
      BY <1>1, <2>3
    <3>2. /\ deferred' \in [Requests -> RoundRecords] /\ residentBytes' \in Nat
          /\ S!Defers(k, low) =>
               /\ deferred'[r].spec_round = round
               /\ deferred'[r].reserved = k * StateBytesPerToken
          /\ ~S!Defers(k, low) => deferred' = deferred
          /\ \A s \in Requests \ {r} : deferred'[s] = deferred[s]
      BY <1>5, <1>6, <2>1, <3>1, ShouldDeferEffect
    <3> QED
      BY <1>5, <2>1, <2>2, <2>3, <3>1, <3>2
  <2>4. CASE ~EnableSSRC
    <3>1. deferred' = deferred /\ residentBytes' = residentBytes
          /\ deferredRound' = deferredRound
      BY <1>1, <2>4 DEF ssrcVars
    <3> QED
      BY <2>1, <2>2, <3>1
  <2> QED
    BY <2>3, <2>4
<1>12. PICK m \in ModelMetas :
         /\ models' = models \cup {m}
         /\ m.req = r /\ m.task = "DRAFT" /\ m.round = round
  <2>1. models \subseteq ModelMetas
    BY DEF IndInv, TypeOK
  <2> QED
    BY <1>1, <1>5, <1>6, <2>1, PushModelEffect DEF Tasks
<1>13. ModelFits(m, req'[r])
  BY <1>7, <1>9, <1>12 DEF ModelFits
<1>14. RequestFits(r, req[r])'
  <2>1. RoundShape(r, req[r])'
    <3>1. TargetLen(r) \in Nat
      BY <1>3, DraftLengthType
    <3> QED
      BY <1>2, <1>4, <1>5, <1>6, <1>7, <1>9, <3>1
         DEF RequestFits, RoundShape, TargetLen, DecodePhases, RoundPhases
  <2>2. DeferralFits(r, req[r])'
    BY <1>7, <1>9, <1>11 DEF DeferralFits, RoundPhases
  <2>3. VskmFits(r, req[r])'
    BY <1>7, <1>9, <1>10, SpecDecodeAssumption DEF VskmFits, RoundPhases
  <2>4. StallFits(r, req[r])'
    BY <1>2 DEF StallFits
  <2> QED
    BY <2>1, <2>2, <2>3, <2>4 DEF RequestFits
<1>15. InvAt(req, admitted)'
  <2>1. req'[r].phase \in RoundPhases
    BY <1>7, <1>9 DEF RoundPhases
  <2> QED
    BY <2>1, <1>2, <1>3, <1>4, <1>9, <1>10, <1>11, <1>12, <1>13, <1>14,
       IssueFrame DEF IndInv
<1>16. lastRank' \in [Requests -> {DLM, TLM}] /\ rankMode' \in {DLM, TLM}
  BY <1>1, RankSwitchType DEF IndInv, TypeOK
<1>17. TypeOK'
  <2>1. models' \subseteq ModelMetas
    BY <1>12 DEF IndInv, TypeOK
  <2> QED
    BY <2>1, <1>3, <1>4, <1>9, <1>10, <1>11, <1>16
       DEF IndInv, TypeOK, VskmStates, RoundRecords
<1> QED
  BY <1>15, <1>17 DEF IndInv

\* A cycle in which no request can issue only admits and counts.
LEMMA IssueNoneStep ==
    ASSUME IndInv, admitted' = admitted + AdmitCount, stall' = StallTick,
           due' = due, IssueNone(AfterAdmission)
    PROVE  IndInv'
<1> DEFINE q == AfterAdmission
           n == admitted + AdmitCount
<1>1. q \in [Requests -> LangRequests] /\ n \in 0 .. due
      /\ StallTick \in [Requests -> Nat]
  BY AdmissionType DEF IndInv
<1>2. InvAt(q, n)
  BY AdmissionInv
<1>3. /\ req' = q /\ models' = models /\ deferred' = deferred
      /\ deferredRound' = deferredRound /\ vskm' = vskm /\ admitted' = n
      /\ preVerified' = preVerified /\ lastRank' = lastRank
      /\ rankMode' = rankMode /\ residentBytes' = residentBytes
      /\ nextVersion' = nextVersion /\ specBytes' = specBytes
  BY DEF IssueNone, ssrcVars, vskmVars
<1> HIDE DEF q, n
<1>4. TableFits(req, admitted)' /\ ModelsFit(req, admitted)'
  BY <1>2, <1>3 DEF InvAt, TableFits, QueuedRequest, ModelsFit, ModelFits
<1>5. \A s \in Requests : RequestFits(s, req[s])'
  <2> SUFFICES ASSUME NEW s \in Requests PROVE RequestFits(s, req[s])'
    OBVIOUS
  <2>1. RequestFits(s, q[s])
    BY <1>2 DEF InvAt
  <2>2. stall'[s] > 0 => stall[s] > 0
    BY DEF StallTick, IndInv, TypeOK
  <2> QED
    BY <1>3, <2>1, <2>2, FrameFits
<1>6. TypeOK'
  BY <1>1, <1>3 DEF IndInv, TypeOK
<1> QED
  BY <1>4, <1>5, <1>6 DEF IndInv, InvAt

LEMMA CycleStep ==
    ASSUME IndInv, Cycle
    PROVE  IndInv'
<1>1. admitted' = admitted + AdmitCount /\ stall' = StallTick /\ due' = due
  BY DEF Cycle
<1>2. CASE IssueNone(AfterAdmission)
  BY <1>1, <1>2, IssueNoneStep
<1>3. ASSUME NEW r \in Requests, IssueOne(r, AfterAdmission)
      PROVE  IndInv'
  <2>1. IssuesFirst(r, AfterAdmission)
    BY <1>3 DEF IssueOne
  <2>2. CASE IssuePrompt(r, AfterAdmission)
    BY <1>1, <2>1, <2>2, IssuePromptStep
  <2>3. CASE StartRound(r, AfterAdmission)
    BY <1>1, <2>1, <2>3, StartRoundStep
  <2>4. CASE IssueDraft(r, AfterAdmission)
    BY <1>1, <2>1, <2>4, IssueDraftStep
  <2>5. CASE IssueVerify(r, AfterAdmission)
    BY <1>1, <2>1, <2>5, IssueVerifyStep
  <2> QED
    BY <1>3, <2>2, <2>3, <2>4, <2>5 DEF IssueOne
<1> QED
  BY <1>2, <1>3 DEF Cycle

-----------------------------------------------------------------------------
(* The theorems.                                                           *)

LEMMA IndInit == Init => IndInv
<1> SUFFICES ASSUME Init PROVE IndInv
  OBVIOUS
<1>1. TypeOK
  BY TypeInit
<1>2. /\ models = {} /\ admitted = 0 /\ req = [r \in Requests |-> QueuedRequest(r)]
      /\ stall = [r \in Requests |-> 0]
      /\ deferredRound = [r \in Requests |-> 0]
      /\ deferred = [r \in Requests |-> [spec_round |-> 0, reserved |-> 0]]
  BY DEF Init, S!SSRCInit, S!NoRecord
<1>3. \A r \in Requests : r \in Int /\ r >= 0
  BY SpecDecodeAssumption DEF Requests
<1>4. \A r \in Requests : /\ req[r] = QueuedRequest(r)
                          /\ req[r].phase = "PROMPT_PENDING"
                          /\ req[r].running = FALSE
                          /\ req[r].current = CachedLen[r]
  BY <1>2 DEF QueuedRequest
<1>5. TableFits(req, admitted) /\ ModelsFit(req, admitted)
  BY <1>2, <1>3, <1>4 DEF TableFits, ModelsFit
<1>6. \A r \in Requests : RequestFits(r, req[r])
  <2> SUFFICES ASSUME NEW r \in Requests PROVE RequestFits(r, req[r])
    OBVIOUS
  <2>1. CachedLen[r] \in Nat /\ PromptLen[r] \in Nat /\ GenLen[r] \in Nat
    BY SpecDecodeAssumption
  <2>2. RoundShape(r, req[r])
    BY <1>4, <2>1 DEF RoundShape, TargetLen, DecodePhases, RoundPhases
  <2>3. DeferralFits(r, req[r])
    BY <1>2 DEF DeferralFits
  <2>4. VskmFits(r, req[r])
    BY <1>4 DEF VskmFits, DecodePhases, RoundPhases
  <2>5. StallFits(r, req[r])
    BY <1>2 DEF StallFits
  <2> QED
    BY <2>2, <2>3, <2>4, <2>5 DEF RequestFits
<1> QED
  BY <1>1, <1>5, <1>6 DEF IndInv, InvAt

LEMMA ArriveStep ==
    ASSUME IndInv, Arrive
    PROVE  IndInv'
<1>1. /\ due' \in 0 .. NumRequests /\ admitted \in 0 .. due'
  BY SpecDecodeAssumption DEF Arrive, IndInv, TypeOK
<1>2. /\ admitted' = admitted /\ req' = req /\ models' = models
      /\ stall' = stall /\ preVerified' = preVerified
      /\ deferredRound' = deferredRound /\ lastRank' = lastRank
      /\ rankMode' = rankMode /\ deferred' = deferred
      /\ residentBytes' = residentBytes /\ vskm' = vskm
      /\ nextVersion' = nextVersion /\ specBytes' = specBytes
  BY DEF Arrive, ssrcVars, vskmVars
<1>3. TypeOK'
  BY <1>1, <1>2 DEF IndInv, TypeOK
<1>4. InvAt(req, admitted)'
  BY <1>2 DEF IndInv, InvAt, TableFits, QueuedRequest, ModelsFit, ModelFits,
              RequestFits, RoundShape, TargetLen, DeferralFits, VskmFits,
              StallFits
<1> QED
  BY <1>3, <1>4 DEF IndInv

LEMMA StutterStep ==
    ASSUME IndInv, UNCHANGED vars
    PROVE  IndInv'
<1>1. /\ due' = due
      /\ admitted' = admitted /\ req' = req /\ models' = models
      /\ stall' = stall /\ preVerified' = preVerified
      /\ deferredRound' = deferredRound /\ lastRank' = lastRank
      /\ rankMode' = rankMode /\ deferred' = deferred
      /\ residentBytes' = residentBytes /\ vskm' = vskm
      /\ nextVersion' = nextVersion /\ specBytes' = specBytes
  BY DEF vars, ssrcVars, vskmVars
<1>2. TypeOK'
  BY <1>1 DEF IndInv, TypeOK
<1>3. InvAt(req, admitted)'
  BY <1>1 DEF IndInv, InvAt, TableFits, QueuedRequest, ModelsFit, ModelFits,
              RequestFits, RoundShape, TargetLen, DeferralFits, VskmFits,
              StallFits
<1> QED
  BY <1>2, <1>3 DEF IndInv

\* The scheduler's table, its outstanding models, VSKM and SSRC always agree
\* on every request (try_issue_one_task and finish_model keep them in step).
THEOREM Invariance == Spec => []IndInv
<1>1. Init => IndInv
  BY IndInit
<1>2. IndInv /\ [Next]_vars => IndInv'
  <2> SUFFICES ASSUME IndInv, [Next]_vars PROVE IndInv'
    OBVIOUS
  <2>1. CASE Arrive
    BY <2>1, ArriveStep
  <2>2. CASE Cycle
    BY <2>2, CycleStep
  <2>3. ASSUME NEW m \in models, FinishModel(m) PROVE IndInv'
    BY <2>3, FinishPromptStep, FinishDraftStep, FinishPreVerifyStep,
       FinishVerifyStep DEF FinishModel
  <2>4. CASE UNCHANGED vars
    BY <2>4, StutterStep
  <2> QED
    BY <2>1, <2>2, <2>3, <2>4 DEF Next
<1> QED
  BY <1>1, <1>2, PTL DEF Spec

\* Every variable keeps its type, whatever the trace and the configuration.
THEOREM TypeCorrect == Spec => []TypeOK
<1>1. IndInv => TypeOK
  BY DEF IndInv
<1> QED
  BY <1>1, Invariance, PTL

\* A request has exactly one outstanding model while it is marked running,
\* the one its phase waits for (the running flag of try_issue_one_task).
THEOREM OneModel == Spec => []OneModelPerRequest
<1>1. IndInv => OneModelPerRequest
  <2> SUFFICES ASSUME IndInv PROVE OneModelPerRequest
    OBVIOUS
  <2>1. \A m \in models : m.task \in Tasks
    BY DEF IndInv, TypeOK, ModelMetas
  <2>2. \A m \in models : /\ m.req < admitted
                          /\ req[m.req].running
                          /\ TaskFitsPhase(m)
                          /\ m.task # "PROMPT" => m.round = req[m.req].round
    BY <2>1 DEF IndInv, InvAt, ModelsFit, ModelFits, TaskFitsPhase, Tasks
  <2>3. \A m, n \in models : n.req = m.req => n = m
    BY DEF IndInv, InvAt, ModelsFit
  <2>4. \A r \in Requests : req[r].running => \E m \in models : m.req = r
    BY DEF IndInv, InvAt, ModelsFit
  <2> QED
    BY <2>2, <2>3, <2>4 DEF OneModelPerRequest
<1> QED
  BY <1>1, Invariance, PTL

\* A VERIFY covers exactly the drafted tokens, a PRE_VERIFY a proper prefix,
\* for every choice EDC and TVC can make.
THEOREM VerifyCovers == Spec => []VerifyCoversDraft
<1>1. IndInv => VerifyCoversDraft
  <2> SUFFICES ASSUME IndInv, NEW m \in models
               PROVE  /\ m.task = "VERIFY" => m.k = req[m.req].drafted
                      /\ m.task = "PRE_VERIFY" =>
                           m.k \in 1 .. req[m.req].drafted - 1
    BY DEF VerifyCoversDraft
  <2>1. m.req \in Requests /\ m.k \in Nat /\ ModelFits(m, req[m.req])
        /\ RoundShape(m.req, req[m.req]) /\ req[m.req].drafted \in Nat
    BY OwnerFacts DEF RequestFits, LangRequests
  <2> QED
    BY <2>1 DEF ModelFits, RoundShape
<1> QED
  BY <1>1, Invariance, PTL

\* The KV tensors hold the committed tokens and the drafts of the round in
\* flight, and nothing of a round that is over (apply_verify_result).
THEOREM KvHolds == Spec => []KvHoldsDrafts
<1>1. IndInv => KvHoldsDrafts
  <2> SUFFICES ASSUME IndInv, NEW r \in 0 .. admitted - 1
               PROVE  req[r].kv = req[r].current +
                        (IF InRound(r) THEN req[r].drafted ELSE 0)
    BY DEF KvHoldsDrafts
  <2>1. r \in Requests /\ r < admitted
    BY SpecDecodeAssumption DEF IndInv, TypeOK, Requests
  <2>2. RoundShape(r, req[r]) /\ req[r].current \in Nat
    BY <2>1 DEF IndInv, InvAt, RequestFits, TypeOK, LangRequests
  <2>3. CASE InRound(r)
    BY <2>2, <2>3 DEF InRound, RoundShape, RoundPhases
  <2>4. CASE ~InRound(r)
    <3>1. req[r].kv = req[r].current
      BY <2>1, <2>4 DEF IndInv, InvAt, TableFits, InRound, RoundPhases
    <3> QED
      BY <2>2, <2>4, <3>1
  <2> QED
    BY <2>3, <2>4
<1> QED
  BY <1>1, Invariance, PTL

\* Speculation never runs the KV tensors past the target length.
THEOREM KvWithin == Spec => []KvWithinTarget
<1>1. IndInv => KvWithinTarget
  <2> SUFFICES ASSUME IndInv, NEW r \in 0 .. admitted - 1
               PROVE  req[r].kv <= TargetLen(r) + (IF GenLen[r] = 0 THEN 1 ELSE 0)
    BY DEF KvWithinTarget
  <2>1. r \in Requests /\ r < admitted
    BY SpecDecodeAssumption DEF IndInv, TypeOK, Requests
  <2>2. /\ RoundShape(r, req[r]) /\ req[r] \in LangRequests
        /\ req[r].phase \notin RoundPhases => req[r].kv = req[r].current
    BY <2>1 DEF IndInv, InvAt, RequestFits, TypeOK, TableFits
  <2>3. /\ req[r].current \in Nat /\ req[r].drafted \in Nat
        /\ req[r].planned \in Nat /\ req[r].kv \in Nat
    BY <2>2 DEF LangRequests
  <2>4. TargetLen(r) \in Nat /\ GenLen[r] \in Nat
    BY <2>1, SpecDecodeAssumption DEF TargetLen
  <2>5. CASE req[r].phase \in RoundPhases
    <3>1. /\ req[r].kv = req[r].current + req[r].drafted
          /\ req[r].drafted <= req[r].planned
          /\ req[r].planned = 1 \/ req[r].current + req[r].planned <= TargetLen(r)
          /\ req[r].current <= TargetLen(r)
          /\ req[r].current < TargetLen(r) \/ GenLen[r] = 0
      BY <2>2, <2>3, <2>5 DEF RoundShape, DecodePhases, RoundPhases
    <3> QED
      BY <2>3, <2>4, <3>1
  <2>6. CASE req[r].phase \notin RoundPhases
    BY <2>2, <2>3, <2>4, <2>6 DEF RoundShape
  <2> QED
    BY <2>5, <2>6
<1> QED
  BY <1>1, Invariance, PTL

\* VSKM's committed prefix, draft count and region are the scheduler's.
THEOREM VskmInStep == Spec => []VskmAgrees
<1>1. IndInv => VskmAgrees
  <2> SUFFICES ASSUME IndInv, NEW r \in Active, req[r].phase # "PROMPT_PENDING"
               PROVE  /\ vskm[r].commit = req[r].current
                      /\ vskm[r].drafted =
                           (IF InRound(r) THEN req[r].drafted ELSE 0)
                      /\ vskm[r].region = ResidentBytes * vskm[r].drafted
    BY DEF VskmAgrees
  <2>1. r \in Requests /\ req[r].phase # "DONE"
    BY SpecDecodeAssumption DEF IndInv, TypeOK, Requests, Active, ActiveIn
  <2>2. req[r].phase \in Phases /\ VskmFits(r, req[r])
    BY <2>1 DEF IndInv, InvAt, RequestFits, TypeOK, LangRequests
  <2>3. req[r].phase \in DecodePhases
    BY <2>1, <2>2 DEF Phases, DecodePhases, RoundPhases
  <2> QED
    BY <2>2, <2>3 DEF VskmFits, InRound, RoundPhases
<1> QED
  BY <1>1, Invariance, PTL

\* SSRC's record of a deferred round and the scheduler's never disagree, and
\* never outlive the round.
THEOREM DeferralsInStep == Spec => []DeferralsPaired
<1>1. IndInv => DeferralsPaired
  <2> SUFFICES ASSUME IndInv, NEW r \in Requests
               PROVE  /\ deferredRound[r] = deferred[r].spec_round
                      /\ deferred[r].spec_round # 0 =>
                           /\ r < admitted
                           /\ InRound(r)
                           /\ deferred[r].spec_round = req[r].round
                           /\ deferred[r].reserved =
                                req[r].planned * StateBytesPerToken
                      /\ deferred[r].spec_round = 0 => deferred[r].reserved = 0
    BY DEF DeferralsPaired
  <2>1. DeferralFits(r, req[r])
    BY DEF IndInv, InvAt, RequestFits
  <2>2. req[r].phase \in RoundPhases => r < admitted
    <3>1. r >= admitted => req[r] = QueuedRequest(r)
      BY DEF IndInv, InvAt, TableFits
    <3>2. QueuedRequest(r).phase = "PROMPT_PENDING"
      BY DEF QueuedRequest
    <3>3. r \in Int /\ admitted \in Int
      BY SpecDecodeAssumption DEF Requests, IndInv, TypeOK
    <3> QED
      BY <3>1, <3>2, <3>3 DEF RoundPhases
  <2> QED
    BY <2>1, <2>2 DEF DeferralFits, InRound, RoundPhases
<1> QED
  BY <1>1, Invariance, PTL

\* A request that a KV rollback stalls is idle, between two rounds.
THEOREM StalledIdle == Spec => []StallIdles
<1>1. IndInv => StallIdles
  BY DEF IndInv, InvAt, RequestFits, StallFits, StallIdles
<1> QED
  BY <1>1, Invariance, PTL

-----------------------------------------------------------------------------
(* What each handler does to the phase and the length of a request.        *)

\* The admission loop changes no phase and no length: a queued request
\* already is as init_request makes it.
LEMMA AdmissionEffect ==
    ASSUME IndInv, NEW r \in Requests
    PROVE  /\ AfterAdmission[r].current = req[r].current
           /\ AfterAdmission[r].phase = req[r].phase
           /\ r \in admitted .. (admitted + AdmitCount) - 1 =>
                AfterAdmission[r].round = 0
           /\ r \notin admitted .. (admitted + AdmitCount) - 1 =>
                AfterAdmission[r] = req[r]
<1>1. req[r] \in LangRequests
  BY DEF IndInv, TypeOK
<1>2. CASE r \in admitted .. (admitted + AdmitCount) - 1
  <2>1. r >= admitted
    BY <1>2
  <2>2. req[r] = QueuedRequest(r)
    BY <2>1 DEF IndInv, InvAt, TableFits
  <2>3. req[r].phase = "PROMPT_PENDING"
    BY <2>2 DEF QueuedRequest
  <2>4. AfterAdmission[r] =
          [req[r] EXCEPT !.running = FALSE, !.kv = req[r].current,
                         !.phase = "PROMPT_PENDING", !.round = 0,
                         !.drafted = 0, !.planned = 0]
    BY <1>2 DEF AfterAdmission
  <2> QED
    BY <1>1, <1>2, <2>3, <2>4 DEF LangRequests
<1>3. CASE r \notin admitted .. (admitted + AdmitCount) - 1
  BY <1>3 DEF AfterAdmission
<1> QED
  BY <1>2, <1>3

\* The model cycle() issues, if any, is one new entry of _model_meta; the
\* request table keeps every length, and no phase but DRAFT_ROUND_START is
\* left.
LEMMA CycleEffect ==
    ASSUME IndInv, Cycle, NEW s \in Requests
    PROVE  /\ req'[s].current = req[s].current
           /\ req'[s].phase # req[s].phase =>
                req[s].phase = "DRAFT_ROUND_START" /\ req'[s].phase = "DRAFTING"
<1> DEFINE q == AfterAdmission
<1>1. q \in [Requests -> LangRequests]
  BY AdmissionType DEF IndInv
<1>2. q[s].current = req[s].current /\ q[s].phase = req[s].phase
  BY AdmissionEffect
<1> HIDE DEF q
<1>3. ASSUME NEW r \in Requests, req' = MarkRunning(q, r)
      PROVE  req'[s].current = q[s].current /\ req'[s].phase = q[s].phase
  BY <1>1, <1>3, MarkRunningEffect
<1>4. ASSUME NEW r \in Requests, StartRound(r, q)
      PROVE  /\ req'[s].current = q[s].current
             /\ req'[s].phase # q[s].phase =>
                  q[s].phase = "DRAFT_ROUND_START" /\ req'[s].phase = "DRAFTING"
  <2>1. q[r].phase = "DRAFT_ROUND_START"
    BY <1>4 DEF StartRound
  <2>2. PICK k \in DraftLengths(r, q) :
          req' = [q EXCEPT ![r] =
                    [@ EXCEPT !.planned = k, !.drafted = 0,
                              !.round = q[r].round + 1,
                              !.phase = "DRAFTING", !.running = TRUE]]
    BY <1>4 DEF StartRound
  <2>3. CASE s = r
    <3>1. req'[s] = [q[s] EXCEPT !.planned = k, !.drafted = 0,
                              !.round = q[s].round + 1,
                              !.phase = "DRAFTING", !.running = TRUE]
      BY <1>1, <2>2, <2>3
    <3>2. q[s] \in LangRequests
      BY <1>1
    <3> QED
      BY <2>1, <2>3, <3>1, <3>2 DEF LangRequests
  <2>4. CASE s # r
    BY <1>1, <2>2, <2>4
  <2> QED
    BY <2>3, <2>4
<1>5. CASE IssueNone(q)
  BY <1>2, <1>5 DEF IssueNone
<1>6. ASSUME NEW r \in Requests, IssueOne(r, q)
      PROVE  /\ req'[s].current = q[s].current
             /\ req'[s].phase # q[s].phase =>
                  q[s].phase = "DRAFT_ROUND_START" /\ req'[s].phase = "DRAFTING"
  <2>1. req' = MarkRunning(q, r) \/ StartRound(r, q)
    BY <1>6 DEF IssueOne, IssuePrompt, IssueDraft, IssueVerify
  <2> QED
    BY <1>3, <1>4, <2>1
<1> QED
  BY <1>2, <1>5, <1>6 DEF Cycle, q

\* A PRE_VERIFY is issued only in a round that had none.
LEMMA NewPreVerify ==
    ASSUME IndInv, Cycle, NEW m \in models' \ models, m.task = "PRE_VERIFY"
    PROVE  preVerified[m.req] # m.round
<1> DEFINE q == AfterAdmission
<1>1. ASSUME NEW r \in Requests, NEW task \in Tasks, NEW k \in Nat,
             NEW round \in Nat, PushModel(r, task, k, round)
      PROVE  m.req = r /\ m.task = task /\ m.round = round
  <2>1. models \subseteq ModelMetas
    BY DEF IndInv, TypeOK
  <2>2. PICK x \in ModelMetas :
          /\ models' = models \cup {x}
          /\ x.req = r /\ x.task = task /\ x.k = k /\ x.round = round
    BY <1>1, <2>1, PushModelEffect
  <2> QED
    BY <2>2
<1>2. q \in [Requests -> LangRequests]
  BY AdmissionType DEF IndInv
<1> HIDE DEF q
<1>3. PICK r \in Requests : IssueOne(r, q)
  BY DEF Cycle, IssueNone, q
<1>4. q[r].planned \in Nat /\ q[r].round \in Nat
  BY <1>2 DEF LangRequests
<1>5. ~IssuePrompt(r, q)
  BY <1>1 DEF IssuePrompt, Tasks
<1>6. ~IssueDraft(r, q)
  BY <1>1, <1>4 DEF IssueDraft, Tasks
<1>7. ~StartRound(r, q)
  <2> SUFFICES ASSUME StartRound(r, q) PROVE FALSE
    OBVIOUS
  <2>1. PICK k \in DraftLengths(r, q) : PushModel(r, "DRAFT", k, q[r].round + 1)
    BY DEF StartRound
  <2>2. k \in Nat
    BY <1>2, <2>1, DraftLengthType, SpecDecodeAssumption
  <2> QED
    BY <1>1, <1>4, <2>1, <2>2 DEF Tasks
<1>8. PICK pv \in PreVerifyLengths(r, q) :
        IF pv > 0 /\ pv < MaxOf(1, q[r].planned)
        THEN PushModel(r, "PRE_VERIFY", pv, q[r].round)
        ELSE PushModel(r, "VERIFY", MaxOf(1, q[r].planned), q[r].round)
  BY <1>3, <1>5, <1>6, <1>7 DEF IssueOne, IssueVerify
<1>9. MaxOf(1, q[r].planned) \in Nat
  BY <1>4 DEF MaxOf
<1>10. CASE pv > 0 /\ pv < MaxOf(1, q[r].planned)
  <2>1. pv \in Nat /\ preVerified[r] # q[r].round
    <3>1. MinOf(PreVerifyMax, q[r].planned - 1) \in Int
      BY <1>4, SpecDecodeAssumption DEF MinOf
    <3> QED
      BY <1>8, <1>10, <3>1 DEF PreVerifyLengths
  <2> QED
    BY <1>1, <1>4, <1>8, <1>10, <2>1 DEF Tasks
<1>11. CASE ~(pv > 0 /\ pv < MaxOf(1, q[r].planned))
  BY <1>1, <1>4, <1>8, <1>9, <1>11 DEF Tasks
<1> QED
  BY <1>10, <1>11

\* A finished PROMPT puts the prompt behind the cached prefix.
LEMMA FinishPromptEffect ==
    ASSUME IndInv, NEW m \in models, FinishPrompt(m)
    PROVE  /\ req[m.req].phase = "PROMPT_PENDING"
           /\ req'[m.req].phase = "DRAFT_ROUND_START"
           /\ req[m.req].current = CachedLen[m.req]
           /\ req'[m.req].current = CachedLen[m.req] + PromptLen[m.req]
           /\ \A s \in Requests \ {m.req} : req'[s] = req[s]
<1> DEFINE r == m.req
           length == req[r].current + PromptLen[r]
<1>1. /\ r \in Requests /\ req[r] \in LangRequests /\ ModelFits(m, req[r])
      /\ RoundShape(r, req[r])
  BY OwnerFacts DEF RequestFits
<1>2. req[r].phase = "PROMPT_PENDING" /\ req[r].current = CachedLen[r]
  BY <1>1 DEF FinishPrompt, ModelFits, RoundShape
<1>3. req' = [req EXCEPT ![r] =
                [@ EXCEPT !.current = length, !.kv = length,
                          !.phase = "DRAFT_ROUND_START", !.running = FALSE]]
  BY DEF FinishPrompt
<1>4. req \in [Requests -> LangRequests]
  BY DEF IndInv, TypeOK
<1>5. \A s \in Requests \ {r} : req'[s] = req[s]
  BY <1>1, <1>3, <1>4
<1>6. req'[r] = [req[r] EXCEPT !.current = length, !.kv = length,
                          !.phase = "DRAFT_ROUND_START", !.running = FALSE]
  BY <1>1, <1>3, <1>4
<1>7. req'[r].phase = "DRAFT_ROUND_START" /\ req'[r].current = length
  BY <1>1, <1>6 DEF LangRequests
<1> QED
  BY <1>2, <1>5, <1>7

\* A finished DRAFT or PRE_VERIFY commits nothing and stays in the round.
LEMMA FinishInRoundEffect ==
    ASSUME IndInv, NEW m \in models, FinishDraft(m) \/ FinishPreVerify(m)
    PROVE  /\ req[m.req].phase \in RoundPhases
           /\ req'[m.req].phase \in RoundPhases
           /\ req'[m.req].current = req[m.req].current
           /\ \A s \in Requests \ {m.req} : req'[s] = req[s]
<1> DEFINE r == m.req
<1>1. /\ r \in Requests /\ req[r] \in LangRequests /\ ModelFits(m, req[r])
  BY OwnerFacts
<1>2. req[r].phase \in RoundPhases
  BY <1>1 DEF FinishDraft, FinishPreVerify, ModelFits, RoundPhases
<1>3. req \in [Requests -> LangRequests]
  BY DEF IndInv, TypeOK
<1>4. CASE FinishDraft(m)
  <2> DEFINE n == req[r].drafted + 1
  <2>1. req' = [req EXCEPT ![r] =
                  [@ EXCEPT !.kv = req[r].current + n, !.drafted = n,
                            !.phase = PhaseAfterDraft(r, n), !.running = FALSE]]
    BY <1>4 DEF FinishDraft
  <2>2. req'[r] = [req[r] EXCEPT !.kv = req[r].current + n, !.drafted = n,
                            !.phase = PhaseAfterDraft(r, n), !.running = FALSE]
    BY <1>1, <1>3, <2>1
  <2>3. PhaseAfterDraft(r, n) \in RoundPhases
    BY DEF PhaseAfterDraft, RoundPhases
  <2>4. req'[r].phase \in RoundPhases /\ req'[r].current = req[r].current
    BY <1>1, <2>2, <2>3 DEF LangRequests
  <2>5. \A s \in Requests \ {r} : req'[s] = req[s]
    BY <1>1, <1>3, <2>1
  <2> QED
    BY <1>2, <2>4, <2>5
<1>5. CASE FinishPreVerify(m)
  <2>1. req' = [req EXCEPT ![r] = [@ EXCEPT !.running = FALSE]]
    BY <1>5 DEF FinishPreVerify
  <2> QED
    BY <1>1, <1>2, <1>3, <2>1 DEF LangRequests
<1> QED
  BY <1>4, <1>5

\* A finished VERIFY commits at most the drafts of its round, and never past
\* the target length; the request is done exactly when it gets there.
LEMMA FinishVerifyEffect ==
    ASSUME IndInv, NEW m \in models, FinishVerify(m)
    PROVE  LET r == m.req IN
           /\ m.task = "VERIFY"
           /\ req[r].phase = "AWAIT_VERIFY"
           /\ req[r].drafted <= MaxDraft
           /\ \A s \in Requests \ {r} : req'[s] = req[s]
           /\ \E a \in 0 .. req[r].drafted :
                \/ /\ req[r].current + a < TargetLen(r)
                   /\ req'[r].current = req[r].current + a
                   /\ req'[r].phase = "DRAFT_ROUND_START"
                \/ /\ req[r].current + a >= TargetLen(r)
                   /\ req'[r].current = TargetLen(r)
                   /\ req'[r].phase = "DONE"
<1> DEFINE r == m.req
           k == MaxOf(1, m.k)
<1>1. /\ r \in Requests /\ req[r] \in LangRequests /\ ModelFits(m, req[r])
      /\ RoundShape(r, req[r]) /\ m.k \in Nat
  BY OwnerFacts DEF RequestFits
<1>2. m.task = "VERIFY" /\ req[r].phase = "AWAIT_VERIFY" /\ m.k = req[r].planned
  BY <1>1 DEF FinishVerify, ModelFits
<1>3. /\ req[r].drafted \in Nat /\ req[r].current \in Nat
      /\ req[r].planned \in Nat /\ TargetLen(r) \in Nat
  BY <1>1, SpecDecodeAssumption DEF LangRequests, TargetLen
<1>4. k = req[r].drafted /\ req[r].drafted <= MaxDraft
  BY <1>1, <1>2, <1>3 DEF RoundShape, RoundPhases, MaxOf
<1>5. PICK a \in 0 .. k : VerifyAccepts(m, a)
  BY DEF FinishVerify
<1> DEFINE length == LengthAfter(r, a)
           ph == PhaseAfter(r, a)
<1>6. req' = [req EXCEPT ![r] =
                [@ EXCEPT !.current = length, !.kv = length, !.phase = ph,
                          !.running = FALSE]]
  BY <1>5 DEF VerifyAccepts
<1>7. req \in [Requests -> LangRequests]
  BY DEF IndInv, TypeOK
<1>8. a \in Nat
  BY <1>3, <1>4
<1>9. \/ req[r].current + a < TargetLen(r) /\ length = req[r].current + a
         /\ ph = "DRAFT_ROUND_START"
      \/ req[r].current + a >= TargetLen(r) /\ length = TargetLen(r) /\ ph = "DONE"
  BY <1>3, <1>8 DEF LengthAfter, PhaseAfter, MinOf
<1> HIDE DEF length, ph
<1>10. req'[r].current = length /\ req'[r].phase = ph
  <2>1. req'[r] = [req[r] EXCEPT !.current = length, !.kv = length, !.phase = ph,
                                 !.running = FALSE]
    BY <1>1, <1>6, <1>7
  <2> QED
    BY <1>1, <2>1 DEF LangRequests
<1>11. \A s \in Requests \ {r} : req'[s] = req[s]
  BY <1>1, <1>6, <1>7
<1>12. a \in 0 .. req[r].drafted
  BY <1>4, <1>5
<1> HIDE DEF k
<1> QED
  BY <1>2, <1>4, <1>9, <1>10, <1>11, <1>12

-----------------------------------------------------------------------------
(* RoundDiscipline.                                                        *)

\* Tokens are committed by the VERIFY that covers them, and never taken back;
\* a round has at most one PRE_VERIFY.
LEMMA DisciplinedStep ==
    ASSUME IndInv, [Next]_vars
    PROVE  /\ \A r \in Requests :
                /\ req'[r].current >= req[r].current
                /\ req'[r].current # req[r].current /\ req[r].phase # "PROMPT_PENDING"
                     => /\ req[r].phase = "AWAIT_VERIFY"
                        /\ req'[r].current - req[r].current <= req[r].drafted
                        /\ \E m \in models : m.req = r /\ m.task = "VERIFY"
           /\ \A m \in models' \ models :
                m.task = "PRE_VERIFY" => preVerified[m.req] # m.round
<1> DEFINE Disciplined(r) ==
             /\ req'[r].current >= req[r].current
             /\ req'[r].current # req[r].current /\ req[r].phase # "PROMPT_PENDING"
                  => /\ req[r].phase = "AWAIT_VERIFY"
                     /\ req'[r].current - req[r].current <= req[r].drafted
                     /\ \E m \in models : m.req = r /\ m.task = "VERIFY"
<1>1. \A r \in Requests : /\ req[r] \in LangRequests
                          /\ req[r].current \in Nat /\ req[r].drafted \in Nat
                          /\ RoundShape(r, req[r])
  BY DEF IndInv, TypeOK, LangRequests, InvAt, RequestFits
<1>2. \A r \in Requests : /\ CachedLen[r] \in Nat /\ PromptLen[r] \in Nat
                          /\ TargetLen(r) \in Nat
                          /\ req[r].current <= TargetLen(r)
  BY <1>1, SpecDecodeAssumption DEF TargetLen, RoundShape
<1>3. ASSUME NEW r \in Requests, req'[r].current = req[r].current
      PROVE  Disciplined(r)
  BY <1>1, <1>3
<1>4. CASE Arrive \/ UNCHANGED vars
  <2>1. req' = req /\ models' = models
    BY <1>4 DEF Arrive, vars
  <2>2. \A r \in Requests : Disciplined(r)
    BY <1>3, <2>1
  <2> QED
    BY <2>1, <2>2
<1>5. CASE Cycle
  <2>1. \A r \in Requests : Disciplined(r)
    BY <1>3, <1>5, CycleEffect
  <2> QED
    BY <1>5, <2>1, NewPreVerify
<1>6. ASSUME NEW m \in models, FinishModel(m)
      PROVE  /\ \A r \in Requests : Disciplined(r)
             /\ models' \subseteq models
  <2>1. models' \subseteq models
    BY <1>6 DEF FinishModel, FinishPrompt, FinishDraft, FinishPreVerify,
                FinishVerify
  <2>2. m.req \in Requests
    BY OwnerFacts
  <2>3. ASSUME NEW r \in Requests PROVE Disciplined(r)
    <3>1. CASE FinishPrompt(m)
      <4>1. CASE r = m.req
        BY <1>2, <3>1, <4>1, FinishPromptEffect
      <4>2. CASE r # m.req
        BY <1>3, <3>1, <4>2, FinishPromptEffect
      <4> QED
        BY <4>1, <4>2
    <3>2. CASE FinishDraft(m) \/ FinishPreVerify(m)
      <4>1. req'[r].current = req[r].current
        BY <3>2, FinishInRoundEffect
      <4> QED
        BY <1>3, <4>1
    <3>3. CASE FinishVerify(m)
      <4>1. CASE r = m.req
        <5>1. PICK a \in 0 .. req[r].drafted :
                \/ /\ req[r].current + a < TargetLen(r)
                   /\ req'[r].current = req[r].current + a
                \/ /\ req[r].current + a >= TargetLen(r)
                   /\ req'[r].current = TargetLen(r)
          BY <3>3, <4>1, FinishVerifyEffect
        <5>2. /\ req'[r].current >= req[r].current
              /\ req'[r].current - req[r].current <= req[r].drafted
          BY <1>1, <1>2, <5>1
        <5>3. req[r].phase = "AWAIT_VERIFY" /\ m.req = r /\ m.task = "VERIFY"
          BY <3>3, <4>1, FinishVerifyEffect
        <5> QED
          BY <5>2, <5>3
      <4>2. CASE r # m.req
        BY <1>3, <3>3, <4>2, FinishVerifyEffect
      <4> QED
        BY <4>1, <4>2
    <3> QED
      BY <1>6, <3>1, <3>2, <3>3 DEF FinishModel
  <2> QED
    BY <2>1, <2>3
<1> QED
  BY <1>4, <1>5, <1>6 DEF Next

\* No committed token is taken back, none is committed that was not drafted
\* and verified, and a round has at most one PRE_VERIFY (finish_model,
\* apply_verify_result, decide_pre_verify).
THEOREM Disciplined == Spec => RoundDiscipline
<1>1. IndInv /\ [Next]_vars =>
        [/\ \A r \in Requests :
              /\ req'[r].current >= req[r].current
              /\ req'[r].current # req[r].current /\ req[r].phase # "PROMPT_PENDING"
                   => /\ req[r].phase = "AWAIT_VERIFY"
                      /\ req'[r].current - req[r].current <= req[r].drafted
                      /\ \E m \in models : m.req = r /\ m.task = "VERIFY"
         /\ \A m \in models' \ models :
              m.task = "PRE_VERIFY" => preVerified[m.req] # m.round]_vars
  BY DisciplinedStep
<1> QED
  BY <1>1, Invariance, PTL DEF Spec, RoundDiscipline

-----------------------------------------------------------------------------
(* The refinement of DecodeService.                                        *)


\* The status of request r when its row of the table is x and n requests are
\* admitted.
StatusAt(x, r, n) ==
    CASE r >= n -> "waiting"
      [] r < n /\ x.phase = "PROMPT_PENDING" -> "prefill"
      [] r < n /\ x.phase = "DONE" -> "done"
      [] OTHER -> "decode"

\* A request is waiting until it is admitted; from there its phase decides.
LEMMA StatusCases ==
    ASSUME NEW r \in Int, NEW n \in Int, NEW x
    PROVE  /\ r >= n => StatusAt(x, r, n) = "waiting"
           /\ r < n /\ x.phase = "PROMPT_PENDING" => StatusAt(x, r, n) = "prefill"
           /\ r < n /\ x.phase = "DONE" => StatusAt(x, r, n) = "done"
           /\ r < n /\ x.phase \in DecodePhases => StatusAt(x, r, n) = "decode"
BY DEF StatusAt, DecodePhases, RoundPhases

\* The two variables of the service, before and after a step.
LEMMA Mapped ==
    /\ \A r : Status(r) = StatusAt(req[r], r, admitted)
    /\ \A r : Status(r)' = StatusAt(req'[r], r, admitted')
BY DEF Status, StatusAt

\* The scheduler starts as the service does, every request in the queue.
LEMMA ServiceStarts == Init => Service!ServiceInit
<1> SUFFICES ASSUME Init PROVE Service!ServiceInit
  OBVIOUS
<1>1. admitted = 0 /\ req = [r \in Requests |-> QueuedRequest(r)]
  BY DEF Init
<1>2. \A r \in Requests : r \in Int /\ r >= 0
  BY SpecDecodeAssumption DEF Requests
<1>3. \A r \in Requests : Status(r) = "waiting"
  BY <1>1, <1>2, Mapped, StatusCases
<1>4. \A r \in Requests : req[r].current = CachedLen[r]
  BY <1>1 DEF QueuedRequest
<1>5. CachedLen = [r \in Requests |-> CachedLen[r]]
  BY SpecDecodeAssumption
<1> QED
  BY <1>3, <1>4, <1>5 DEF Service!ServiceInit, Service!Clients, Requests

\* A finished PROMPT is the prefill of its request.
LEMMA PromptPrefills ==
    ASSUME IndInv, NEW m \in models, FinishPrompt(m)
    PROVE  Service!Prefill(m.req)
<1> DEFINE r == m.req
<1>1. r \in Requests /\ r < admitted /\ admitted' = admitted
  BY OwnerFacts DEF FinishPrompt
<1>2. r \in Int /\ admitted \in Int /\ \A s \in Requests : s \in Int
  BY <1>1, SpecDecodeAssumption DEF Requests, IndInv, TypeOK
<1>3. /\ req[r].phase = "PROMPT_PENDING"
      /\ req'[r].phase = "DRAFT_ROUND_START"
      /\ req'[r].current = CachedLen[r] + PromptLen[r]
      /\ \A s \in Requests \ {r} : req'[s] = req[s]
  BY FinishPromptEffect
<1>4. /\ StatusAt(req[r], r, admitted) = "prefill"
      /\ StatusAt(req'[r], r, admitted) = "decode"
  BY <1>1, <1>2, <1>3, StatusCases DEF DecodePhases
<1>5. \A s \in Requests : Status(s)' = IF s = r THEN "decode" ELSE Status(s)
  BY <1>1, <1>3, <1>4, Mapped
<1>6. [s \in Requests |-> Status(s)'] =
        [[s \in Requests |-> Status(s)] EXCEPT ![r] = "decode"]
  BY <1>1, <1>5
<1>7. [s \in Requests |-> req'[s].current] =
        [[s \in Requests |-> req[s].current]
           EXCEPT ![r] = CachedLen[r] + PromptLen[r]]
  BY <1>1, <1>3
<1>8. [s \in Requests |-> Status(s)][r] = "prefill"
  BY <1>1, <1>4, Mapped
<1> QED
  BY <1>6, <1>7, <1>8 DEF Service!Prefill

\* A finished DRAFT or PRE_VERIFY is invisible to the client.
LEMMA DraftStutters ==
    ASSUME IndInv, NEW m \in models, FinishDraft(m) \/ FinishPreVerify(m)
    PROVE  UNCHANGED Service!serviceVars
<1> DEFINE r == m.req
<1>1. r \in Requests /\ r < admitted /\ admitted' = admitted
  BY OwnerFacts DEF FinishDraft, FinishPreVerify
<1>2. r \in Int /\ admitted \in Int
  BY <1>1, SpecDecodeAssumption DEF Requests, IndInv, TypeOK
<1>3. /\ req[r].phase \in RoundPhases /\ req'[r].phase \in RoundPhases
      /\ req'[r].current = req[r].current
      /\ \A s \in Requests \ {r} : req'[s] = req[s]
  BY FinishInRoundEffect
<1>4. /\ StatusAt(req[r], r, admitted) = "decode"
      /\ StatusAt(req'[r], r, admitted) = "decode"
  BY <1>1, <1>2, <1>3, StatusCases DEF DecodePhases
<1>5. \A s \in Requests : /\ Status(s)' = Status(s)
                          /\ req'[s].current = req[s].current
  BY <1>1, <1>3, <1>4, Mapped
<1> QED
  BY <1>5 DEF Service!serviceVars

\* A finished VERIFY commits some tokens, the last ones, or none.
LEMMA VerifyExtends ==
    ASSUME IndInv, NEW m \in models, FinishVerify(m)
    PROVE  \/ Service!Extend(m.req)
           \/ Service!Complete(m.req)
           \/ UNCHANGED Service!serviceVars
<1> DEFINE r == m.req
           status == [s \in Requests |-> Status(s)]
           committed == [s \in Requests |-> req[s].current]
<1>1. r \in Requests /\ r < admitted /\ admitted' = admitted
  BY OwnerFacts DEF FinishVerify
<1>2. /\ r \in Int /\ admitted \in Int /\ MaxDraft \in Nat
      /\ req[r].current \in Nat /\ req[r].drafted \in Nat
      /\ TargetLen(r) \in Nat
  <2>1. req[r] \in LangRequests
    BY OwnerFacts
  <2>2. r \in Int /\ admitted \in Int
    BY <1>1, SpecDecodeAssumption DEF Requests, IndInv, TypeOK
  <2>3. req[r].current \in Nat /\ req[r].drafted \in Nat
    BY <2>1 DEF LangRequests
  <2>4. MaxDraft \in Nat /\ TargetLen(r) \in Nat
    BY <1>1, SpecDecodeAssumption DEF TargetLen
  <2> QED
    BY <2>2, <2>3, <2>4
<1>3. /\ req[r].phase = "AWAIT_VERIFY" /\ req[r].drafted <= MaxDraft
      /\ \A s \in Requests \ {r} : req'[s] = req[s]
  BY FinishVerifyEffect
<1>4. PICK a \in 0 .. req[r].drafted :
        \/ /\ req[r].current + a < TargetLen(r)
           /\ req'[r].current = req[r].current + a
           /\ req'[r].phase = "DRAFT_ROUND_START"
        \/ /\ req[r].current + a >= TargetLen(r)
           /\ req'[r].current = TargetLen(r)
           /\ req'[r].phase = "DONE"
  BY FinishVerifyEffect
<1>5. a \in Nat /\ a <= MaxDraft
  BY <1>2, <1>3
<1>6. StatusAt(req[r], r, admitted) = "decode"
  BY <1>1, <1>2, <1>3, StatusCases DEF DecodePhases, RoundPhases
<1>7. status[r] = "decode" /\ committed[r] = req[r].current
  BY <1>1, <1>6, Mapped
<1>8. Service!Goal(r) = TargetLen(r)
  BY DEF Service!Goal, TargetLen
<1>9. CASE req'[r].phase = "DRAFT_ROUND_START"
  <2>1. /\ req[r].current + a < TargetLen(r)
        /\ req'[r].current = req[r].current + a
    BY <1>4, <1>9
  <2>2. StatusAt(req'[r], r, admitted) = "decode"
    BY <1>1, <1>2, <1>9, StatusCases DEF DecodePhases
  <2>3. \A s \in Requests : Status(s)' = Status(s)
    BY <1>1, <1>3, <1>6, <2>2, Mapped
  <2>4. CASE a = 0
    <3>1. \A s \in Requests : req'[s].current = req[s].current
      BY <1>2, <1>3, <2>1, <2>4
    <3> QED
      BY <2>3, <3>1 DEF Service!serviceVars
  <2>5. CASE a # 0
    <3>1. a \in 1 .. MaxDraft
      BY <1>2, <1>5, <2>5
    <3>2. [s \in Requests |-> req'[s].current] =
            [committed EXCEPT ![r] = committed[r] + a]
      BY <1>1, <1>3, <2>1
    <3>3. committed[r] + a < Service!Goal(r)
      BY <1>7, <1>8, <2>1
    <3>4. Service!Extend(r)
      BY <1>7, <2>3, <3>1, <3>2, <3>3 DEF Service!Extend
    <3> QED
      BY <3>4
  <2> QED
    BY <2>4, <2>5
<1>10. CASE req'[r].phase = "DONE"
  <2>1. /\ req[r].current + a >= TargetLen(r)
        /\ req'[r].current = TargetLen(r)
    BY <1>4, <1>10
  <2>2. StatusAt(req'[r], r, admitted) = "done"
    BY <1>1, <1>2, <1>10, StatusCases
  <2>3. \A s \in Requests : Status(s)' = IF s = r THEN "done" ELSE Status(s)
    BY <1>1, <1>3, <2>2, Mapped
  <2>4. [s \in Requests |-> Status(s)'] = [status EXCEPT ![r] = "done"]
    BY <1>1, <2>3
  <2>5. [s \in Requests |-> req'[s].current] =
          [committed EXCEPT ![r] = Service!Goal(r)]
    BY <1>1, <1>3, <1>8, <2>1
  <2>6. committed[r] + MaxDraft >= Service!Goal(r)
    BY <1>2, <1>5, <1>7, <1>8, <2>1
  <2>7. Service!Complete(r)
    BY <1>7, <2>4, <2>5, <2>6 DEF Service!Complete
  <2> QED
    BY <2>7
<1> QED
  BY <1>4, <1>9, <1>10

\* A call of cycle() takes the requests it admits off the queue; the models it
\* issues are invisible to the client.
LEMMA CycleTakes ==
    ASSUME IndInv, Cycle
    PROVE  Service!Take \/ UNCHANGED Service!serviceVars
<1> DEFINE n == admitted + AdmitCount
           status == [s \in Requests |-> Status(s)]
<1>1. /\ admitted' = n /\ n \in 0 .. due /\ due \in Int
      /\ due <= NumRequests /\ NumRequests \in Nat
      /\ admitted \in Nat /\ admitted <= n
  <2>1. AdmitCount \in 0 .. due - admitted
    BY AdmitCountRange DEF IndInv
  <2> QED
    BY <2>1, SpecDecodeAssumption DEF Cycle, IndInv, TypeOK
<1> HIDE DEF n
<1>2. \A s \in Requests : /\ s \in Nat
                          /\ req[s].phase \in Phases /\ req'[s].phase \in Phases
                          /\ req'[s].current = req[s].current
                          /\ req'[s].phase # req[s].phase =>
                               /\ req[s].phase = "DRAFT_ROUND_START"
                               /\ req'[s].phase = "DRAFTING"
  <2>1. \A s \in Requests : s \in Nat /\ req[s].phase \in Phases
    BY SpecDecodeAssumption DEF Requests, IndInv, TypeOK, LangRequests
  <2> QED
    BY <2>1, CycleEffect DEF Phases
<1>3. \A s \in Requests : s >= admitted => req[s].phase = "PROMPT_PENDING"
  <2> SUFFICES ASSUME NEW s \in Requests, s >= admitted
               PROVE  req[s].phase = "PROMPT_PENDING"
    OBVIOUS
  <2>1. req[s] = QueuedRequest(s)
    BY DEF IndInv, InvAt, TableFits
  <2> QED
    BY <2>1 DEF QueuedRequest
<1>4. \A s \in Requests :
        Status(s)' = IF s >= admitted /\ s < n THEN "prefill" ELSE Status(s)
  <2> SUFFICES ASSUME NEW s \in Requests
               PROVE  StatusAt(req'[s], s, n) =
                        IF s >= admitted /\ s < n
                        THEN "prefill" ELSE StatusAt(req[s], s, admitted)
    BY <1>1, Mapped
  <2>1. s \in Int /\ n \in Int /\ admitted \in Int /\ admitted <= n
    BY <1>1, <1>2
  <2>2. CASE s >= admitted
    <3>1. req[s].phase = "PROMPT_PENDING" /\ req'[s].phase = "PROMPT_PENDING"
      BY <1>2, <1>3, <2>2
    <3> QED
      BY <2>1, <2>2, <3>1, StatusCases
  <2>3. CASE s < admitted /\ req'[s].phase = req[s].phase
    BY <2>1, <2>3 DEF StatusAt
  <2>4. CASE s < admitted /\ req'[s].phase # req[s].phase
    <3>1. req[s].phase \in DecodePhases /\ req'[s].phase \in DecodePhases
      BY <1>2, <2>4 DEF DecodePhases, RoundPhases
    <3> QED
      BY <2>1, <2>4, <3>1, StatusCases
  <2> QED
    BY <2>1, <2>2, <2>3, <2>4
<1>5. \A s \in Requests : status[s] = "waiting" <=> s >= admitted
  <2> SUFFICES ASSUME NEW s \in Requests
               PROVE  StatusAt(req[s], s, admitted) = "waiting" <=> s >= admitted
    BY Mapped
  <2> QED
    BY <1>1, <1>2 DEF StatusAt
<1>6. CASE n = admitted
  <2>1. \A s \in Requests : /\ Status(s)' = Status(s)
                            /\ req'[s].current = req[s].current
    BY <1>1, <1>2, <1>4, <1>6
  <2> QED
    BY <2>1 DEF Service!serviceVars
<1>7. CASE n # admitted
  <2> DEFINE last == n - 1
  <2>1. /\ last \in Requests /\ admitted \in 0 .. last
        /\ admitted \in Requests
        /\ \A s \in Requests : s < n <=> s <= last
    BY <1>1, <1>2, <1>7 DEF Requests
  <2>2. status[admitted] = "waiting"
    BY <1>1, <1>5, <2>1
  <2>3. [s \in Requests |-> Status(s)'] =
          [s \in Requests |-> IF s <= last /\ status[s] = "waiting"
                              THEN "prefill" ELSE status[s]]
    BY <1>4, <1>5, <2>1
  <2>4. [s \in Requests |-> req'[s].current] = [s \in Requests |-> req[s].current]
    BY <1>2
  <2> HIDE DEF last
  <2>5. Service!Clients = Requests
    BY DEF Service!Clients, Requests
  <2>6. Service!Take
    BY <2>1, <2>2, <2>3, <2>4, <2>5 DEF Service!Take
  <2> QED
    BY <2>6
<1> QED
  BY <1>6, <1>7

\* Every step of the scheduler is a step of the service, or invisible to it.
LEMMA ServiceSteps ==
    ASSUME IndInv, [Next]_vars
    PROVE  Service!ServiceNext \/ UNCHANGED Service!serviceVars
<1>1. Service!Clients = Requests
  BY DEF Service!Clients, Requests
<1>2. CASE Arrive \/ UNCHANGED vars
  <2>1. req' = req /\ admitted' = admitted
    BY <1>2 DEF Arrive, vars
  <2>2. \A s \in Requests : Status(s)' = Status(s)
    BY <2>1, Mapped
  <2> QED
    BY <2>1, <2>2 DEF Service!serviceVars
<1>3. CASE Cycle
  BY <1>3, CycleTakes DEF Service!ServiceNext
<1>4. ASSUME NEW m \in models, FinishModel(m)
      PROVE  Service!ServiceNext \/ UNCHANGED Service!serviceVars
  <2>1. m.req \in Service!Clients
    BY <1>1, OwnerFacts
  <2>2. CASE FinishPrompt(m)
    BY <2>1, <2>2, PromptPrefills DEF Service!ServiceNext
  <2>3. CASE FinishDraft(m) \/ FinishPreVerify(m)
    BY <2>3, DraftStutters
  <2>4. CASE FinishVerify(m)
    BY <2>1, <2>4, VerifyExtends DEF Service!ServiceNext
  <2> QED
    BY <1>4, <2>2, <2>3, <2>4 DEF FinishModel
<1> QED
  BY <1>2, <1>3, <1>4 DEF Next

\* The speculative scheduler implements the plain decoding service: requests
\* are taken in order, prefilled once, extended only by verified tokens up to
\* their target length, and done exactly there.
THEOREM Implements == Spec => ImplementsService
<1>1. Init => Service!ServiceInit
  BY ServiceStarts
<1>2. IndInv /\ [Next]_vars => [Service!ServiceNext]_(Service!serviceVars)
  BY ServiceSteps
<1> QED
  BY <1>1, <1>2, Invariance, PTL DEF Spec, ImplementsService, Service!ServiceSpec

-----------------------------------------------------------------------------
(* BatchBounded.                                                           *)

\* Active and its successor are finite.
LEMMA ActiveFinite ==
    ASSUME IndInv
    PROVE  IsFiniteSet(Active) /\ Cardinality(Active) \in Nat
<1>1. admitted \in Int
  BY SpecDecodeAssumption DEF IndInv, TypeOK
<1>2. IsFiniteSet(0 .. admitted - 1)
  BY <1>1, FS_Interval
<1>3. IsFiniteSet(Active)
  BY <1>2, FS_Subset DEF Active, ActiveIn
<1> QED
  BY <1>3, FS_CardinalityType

\* A step adds to _active_requests only what it admits: nothing that is done
\* comes back.
LEMMA ActiveAfter ==
    ASSUME IndInv, [Next]_vars
    PROVE  \/ Active' \subseteq Active
           \/ /\ Cycle
              /\ Active' \subseteq Active \cup
                   (admitted .. (admitted + AdmitCount) - 1)
<1>1. /\ Active = {r \in 0 .. admitted - 1 : req[r].phase # "DONE"}
      /\ Active' = {r \in 0 .. admitted' - 1 : req'[r].phase # "DONE"}
  BY DEF Active, ActiveIn
<1>2. 0 .. admitted - 1 \subseteq Requests /\ admitted \in Int
  BY SpecDecodeAssumption DEF IndInv, TypeOK, Requests
<1>3. CASE Arrive \/ UNCHANGED vars
  BY <1>1, <1>3 DEF Arrive, vars
<1>4. CASE Cycle
  <2>1. admitted' = admitted + AdmitCount /\ admitted + AdmitCount \in 0 .. due
        /\ due \in Int
    BY <1>4, AdmissionType, SpecDecodeAssumption DEF Cycle, IndInv, TypeOK
  <2> DEFINE n == admitted + AdmitCount
  <2> HIDE DEF n
  <2>2. ASSUME NEW r \in Active', r \notin admitted .. n - 1
        PROVE  r \in Active
    <3>1. r \in 0 .. n - 1 /\ req'[r].phase # "DONE"
      BY <1>1, <2>1 DEF n
    <3>2. r \in 0 .. admitted - 1 /\ r \in Requests
      BY <1>2, <2>1, <2>2, <3>1 DEF n
    <3>3. req[r].phase # "DONE"
      BY <1>4, <3>1, <3>2, CycleEffect
    <3> QED
      BY <1>1, <3>2, <3>3
  <2> QED
    BY <1>4, <2>2 DEF n
<1>5. ASSUME NEW m \in models, FinishModel(m)
      PROVE  Active' \subseteq Active
  <2>1. admitted' = admitted
    BY <1>5 DEF FinishModel, FinishPrompt, FinishDraft, FinishPreVerify,
                FinishVerify
  <2>2. \A r \in Requests \ {m.req} : req'[r] = req[r]
    BY <1>5, FinishPromptEffect, FinishInRoundEffect, FinishVerifyEffect
       DEF FinishModel
  <2>3. req[m.req].phase # "DONE"
    BY <1>5, FinishPromptEffect, FinishInRoundEffect, FinishVerifyEffect
       DEF FinishModel, RoundPhases
  <2> QED
    BY <1>1, <1>2, <2>1, <2>2, <2>3
<1> QED
  BY <1>3, <1>4, <1>5 DEF Next

\* One call of cycle() overshoots _max_batch_size by at most one.
LEMMA BatchStep ==
    ASSUME IndInv, IndInv', [Next]_vars, BatchBounded
    PROVE  BatchBounded'
<1> SUFFICES ASSUME MaxBatch > 0 PROVE Cardinality(Active') <= MaxBatch + 1
  BY DEF BatchBounded
<1>1. /\ IsFiniteSet(Active) /\ Cardinality(Active) \in Nat
      /\ Cardinality(Active) <= MaxBatch + 1 /\ MaxBatch \in Nat
  BY ActiveFinite, SpecDecodeAssumption DEF BatchBounded
<1>2. IsFiniteSet(Active') /\ Cardinality(Active') \in Nat
  <2>1. admitted' \in Int
    BY SpecDecodeAssumption DEF IndInv, TypeOK
  <2>2. IsFiniteSet(0 .. admitted' - 1)
    BY <2>1, FS_Interval
  <2>3. Active' \subseteq 0 .. admitted' - 1
    BY DEF Active, ActiveIn
  <2>4. IsFiniteSet(Active')
    BY <2>2, <2>3, FS_Subset
  <2> QED
    BY <2>4, FS_CardinalityType
<1>3. CASE Active' \subseteq Active
  <2>1. Cardinality(Active') <= Cardinality(Active)
    BY <1>1, <1>3, FS_Subset
  <2> QED
    BY <1>1, <1>2, <2>1
<1>4. CASE Active' \subseteq Active \cup (admitted .. (admitted + AdmitCount) - 1)
  <2> DEFINE new == admitted .. (admitted + AdmitCount) - 1
  <2>1. admitted \in Int /\ AdmitCount \in Nat
    BY AdmitCountRange, SpecDecodeAssumption DEF IndInv, TypeOK
  <2>2. IsFiniteSet(new) /\ Cardinality(new) = AdmitCount
    BY <2>1, FS_Interval, SMTT(30)
  <2> HIDE DEF new
  <2>3. /\ IsFiniteSet(Active \cup new)
        /\ Cardinality(Active \cup new) =
             Cardinality(Active) + Cardinality(new) - Cardinality(Active \cap new)
    BY <1>1, <2>2, FS_Union
  <2>4. Cardinality(Active \cap new) \in Nat
    BY <1>1, FS_Intersection, FS_CardinalityType
  <2>5. Cardinality(Active') <= Cardinality(Active \cup new)
    BY <1>4, <2>3, FS_Subset DEF new
  <2>6. Cardinality(Active') <= Cardinality(Active) + AdmitCount
    BY <1>1, <1>2, <2>1, <2>2, <2>3, <2>4, <2>5
  <2>7. AdmitCount <= (IF Cardinality(Active) <= MaxBatch
                       THEN MaxOf(1, MaxBatch - Cardinality(Active)) ELSE 0)
    <3> DEFINE c == Cardinality(Active)
    <3>1. c \in Nat /\ due - admitted \in Int
      BY <1>1, SpecDecodeAssumption DEF IndInv, TypeOK
    <3>2. AdmitCount = IF c <= MaxBatch
                       THEN MinOf(due - admitted, MaxOf(1, MaxBatch - c)) ELSE 0
      <4> HIDE DEF c
      <4> QED
        BY <1>1, <3>1 DEF AdmitCount, c
    <3> HIDE DEF c
    <3>3. AdmitCount <= IF c <= MaxBatch THEN MaxOf(1, MaxBatch - c) ELSE 0
      BY <1>1, <3>1, <3>2 DEF MinOf, MaxOf
    <3> QED
      BY <3>3 DEF c
  <2> DEFINE c == Cardinality(Active)
             d == Cardinality(Active')
  <2>8. c \in Nat /\ c <= MaxBatch + 1 /\ d \in Nat /\ d <= c + AdmitCount
        /\ AdmitCount <= IF c <= MaxBatch THEN MaxOf(1, MaxBatch - c) ELSE 0
    BY <1>1, <1>2, <2>6, <2>7
  <2> HIDE DEF c, d
  <2>9. d <= MaxBatch + 1
    BY <1>1, <2>1, <2>8 DEF MaxOf
  <2> QED
    BY <2>9 DEF d
<1> QED
  BY <1>3, <1>4, ActiveAfter

\* The admission loop of cycle() runs at most one request past max_batch_size,
\* whatever arrives and whatever finishes in between.
THEOREM BatchStays == Spec => []BatchBounded
<1>1. Init => BatchBounded
  <2> SUFFICES ASSUME Init PROVE BatchBounded
    OBVIOUS
  <2>1. Active = {}
    BY DEF Init, Active, ActiveIn
  <2>2. Cardinality(Active) = 0
    BY <2>1, FS_EmptySet
  <2> QED
    BY <2>2, SpecDecodeAssumption DEF BatchBounded
<1>2. IndInv /\ IndInv' /\ [Next]_vars /\ BatchBounded => BatchBounded'
  BY BatchStep
<1> QED
  BY <1>1, <1>2, Invariance, PTL DEF Spec

-----------------------------------------------------------------------------
(* BytesConserved.                                                         *)

\* The bytes of the requests' speculative regions and of their reservations.
Regions == [r \in Requests |-> vskm[r].region]
Reservations == [r \in Requests |-> deferred[r].reserved]

\* The counters are the sums; a request that waits for its prefill has no
\* region (reset_request would lose it).
BytesInv ==
    /\ specBytes = SumOver(Regions, Requests)
    /\ residentBytes = SumOver(Reservations, Requests)
    /\ residentBytes <= ResidentLimitBytes
    /\ \A r \in Requests : req[r].phase = "PROMPT_PENDING" => vskm[r].region = 0

\* What BytesInv says in terms of the sums of the model.
LEMMA BytesInvIs == BytesInv => BytesConserved
<1>1. MapThenSumSet(LAMBDA r : vskm[r].region, Requests)
        = SumOver(Regions, Requests)
  BY ZenonT(30) DEF MapThenSumSet, MapThenFoldSet, SumOver, Partial, Solves, Elem, Regions
<1>2. MapThenSumSet(LAMBDA r : deferred[r].reserved, Requests)
        = SumOver(Reservations, Requests)
  BY ZenonT(30) DEF MapThenSumSet, MapThenFoldSet, SumOver, Partial, Solves, Elem,
         Reservations
<1> QED
  BY <1>1, <1>2 DEF BytesInv, BytesConserved

LEMMA RequestsFinite == IsFiniteSet(Requests)
BY FS_Interval, SpecDecodeAssumption DEF Requests

LEMMA BytesTypes ==
    ASSUME IndInv
    PROVE  /\ Regions \in [Requests -> Nat] /\ Reservations \in [Requests -> Nat]
           /\ \A r \in Requests : /\ Regions[r] = vskm[r].region
                                  /\ Reservations[r] = deferred[r].reserved
BY DEF IndInv, TypeOK, Regions, Reservations

\* A change of one region, booked in the counter.
LEMMA RegionBooked ==
    ASSUME IndInv, IndInv', BytesInv, NEW r \in Requests,
           \A s \in Requests \ {r} : vskm'[s] = vskm[s],
           specBytes' = (specBytes - vskm[r].region) + vskm'[r].region
    PROVE  specBytes' = SumOver(Regions', Requests)
<1>1. /\ Regions \in [Requests -> Nat] /\ Regions' \in [Requests -> Nat]
      /\ Regions[r] = vskm[r].region /\ Regions'[r] = vskm'[r].region
  BY BytesTypes DEF IndInv, TypeOK, Regions
<1>2. \A s \in Requests \ {r} : Regions'[s] = Regions[s]
  BY DEF Regions
<1>3. SumOver(Regions', Requests) =
        (SumOver(Regions, Requests) - Regions[r]) + Regions'[r]
  BY <1>1, <1>2, RequestsFinite, SumUpdate
<1> QED
  BY <1>1, <1>3 DEF BytesInv

\* A change of one reservation, booked in the counter.
LEMMA ReservationBooked ==
    ASSUME IndInv, IndInv', BytesInv, NEW r \in Requests,
           \A s \in Requests \ {r} : deferred'[s] = deferred[s],
           residentBytes' = (residentBytes - deferred[r].reserved)
                              + deferred'[r].reserved
    PROVE  residentBytes' = SumOver(Reservations', Requests)
<1>1. /\ Reservations \in [Requests -> Nat] /\ Reservations' \in [Requests -> Nat]
      /\ Reservations[r] = deferred[r].reserved
      /\ Reservations'[r] = deferred'[r].reserved
  BY BytesTypes DEF IndInv, TypeOK, Reservations
<1>2. \A s \in Requests \ {r} : Reservations'[s] = Reservations[s]
  BY DEF Reservations
<1>3. SumOver(Reservations', Requests) =
        (SumOver(Reservations, Requests) - Reservations[r]) + Reservations'[r]
  BY <1>1, <1>2, RequestsFinite, SumUpdate
<1> QED
  BY <1>1, <1>3 DEF BytesInv

\* No region and no reservation exceeds its counter: the clamps at 0 in
\* complete_verify and on_round_verified are never reached.
LEMMA NeverClamped ==
    ASSUME IndInv, BytesInv, NEW r \in Requests
    PROVE  vskm[r].region <= specBytes /\ deferred[r].reserved <= residentBytes
<1>1. /\ Regions \in [Requests -> Nat] /\ Reservations \in [Requests -> Nat]
      /\ Regions[r] = vskm[r].region /\ Reservations[r] = deferred[r].reserved
  BY BytesTypes
<1>2. Regions[r] <= SumOver(Regions, Requests)
  BY <1>1, RequestsFinite, SumUpdate
<1>3. Reservations[r] <= SumOver(Reservations, Requests)
  BY <1>1, RequestsFinite, SumUpdate
<1> QED
  BY <1>1, <1>2, <1>3 DEF BytesInv

\* A step that leaves the counters and the tables of VSKM and SSRC alone.
LEMMA BytesUnchanged ==
    ASSUME IndInv, BytesInv, vskm' = vskm, specBytes' = specBytes,
           deferred' = deferred, residentBytes' = residentBytes,
           \A r \in Requests : req'[r].phase = "PROMPT_PENDING" =>
                               req[r].phase = "PROMPT_PENDING"
    PROVE  BytesInv'
BY DEF BytesInv, Regions, Reservations

\* A round opens with nothing drafted, and reserves at most what is left.
LEMMA RoundBytesStep ==
    ASSUME IndInv, IndInv', BytesInv, Cycle, NEW r \in Requests,
           IssuesFirst(r, AfterAdmission), StartRound(r, AfterAdmission)
    PROVE  BytesInv'
<1> DEFINE q == AfterAdmission
           round == q[r].round + 1
<1>1. PICK k \in DraftLengths(r, q), low \in BOOLEAN :
        /\ V!BeginRound(r, q[r].current)
        /\ IF EnableSSRC THEN S!ShouldDeferRound(r, round, k, low)
                         ELSE UNCHANGED ssrcVars
  BY DEF StartRound
<1>2. /\ q[r].phase = "DRAFT_ROUND_START"
      /\ q[r] \in LangRequests /\ RequestFits(r, q[r])
  BY IssuerFacts DEF StartRound
<1>3. /\ vskm[r] \in VskmStates /\ deferred[r] \in RoundRecords
      /\ vskm \in [Requests -> VskmStates]
      /\ deferred \in [Requests -> RoundRecords]
      /\ residentBytes \in Nat /\ specBytes \in Nat /\ nextVersion \in Nat
  BY DEF IndInv, TypeOK, VskmStates, RoundRecords
<1>4. vskm[r].region = 0
  BY <1>2, SpecDecodeAssumption DEF RequestFits, VskmFits, DecodePhases, RoundPhases
<1>5. deferred[r].reserved = 0
  BY <1>2 DEF RequestFits, DeferralFits, RoundPhases
<1>6. q[r].current \in Nat /\ q[r].round \in Nat
  BY <1>2 DEF LangRequests
<1>7. k \in Nat /\ S!RoundBytes(k) \in Nat /\ S!RoundBytes(k) = k * StateBytesPerToken
  <2>1. q \in [Requests -> LangRequests]
    BY AdmissionType DEF IndInv
  <2>2. k \in 1 .. MaxDraft /\ \A j \in Nat : S!RoundBytes(j) \in Nat
    BY <1>1, <2>1, DraftLengthType
  <2> QED
    BY <2>2, SpecDecodeAssumption DEF S!RoundBytes
<1> HIDE DEF q
<1>8. /\ specBytes' = specBytes /\ vskm'[r].region = 0
      /\ \A s \in Requests \ {r} : vskm'[s] = vskm[s]
  BY <1>1, <1>3, <1>6, BeginRoundEffect
<1>9. specBytes' = SumOver(Regions', Requests)
  BY <1>3, <1>4, <1>8, RegionBooked
<1>10. /\ \A s \in Requests \ {r} : deferred'[s] = deferred[s]
       /\ residentBytes' = residentBytes + deferred'[r].reserved
       /\ residentBytes' <= ResidentLimitBytes
  <2>1. CASE EnableSSRC /\ S!Defers(k, low)
    <3>1. S!ShouldDeferRound(r, round, k, low) /\ round \in Nat
      BY <1>1, <1>6, <2>1
    <3>2. /\ deferred'[r].reserved = k * StateBytesPerToken
          /\ \A s \in Requests \ {r} : deferred'[s] = deferred[s]
      BY <1>3, <1>7, <2>1, <3>1, ShouldDeferEffect
    <3>3. residentBytes' = residentBytes + S!RoundBytes(k)
      BY <2>1, <3>1 DEF S!ShouldDeferRound
    <3>4. residentBytes + S!RoundBytes(k) <= ResidentLimitBytes
      BY <2>1 DEF S!Defers
    <3> QED
      BY <1>7, <3>2, <3>3, <3>4
  <2>2. CASE ~(EnableSSRC /\ S!Defers(k, low))
    <3>1. deferred' = deferred /\ residentBytes' = residentBytes
      BY <1>1, <2>2 DEF S!ShouldDeferRound, ssrcVars
    <3> QED
      BY <1>3, <1>5, <3>1 DEF BytesInv
  <2> QED
    BY <2>1, <2>2
<1>11. residentBytes' = SumOver(Reservations', Requests)
  BY <1>3, <1>5, <1>10, ReservationBooked
<1>12. \A s \in Requests : req'[s].phase = "PROMPT_PENDING" => vskm'[s].region = 0
  <2>1. \A s \in Requests : req'[s].phase = "PROMPT_PENDING" =>
                            req[s].phase = "PROMPT_PENDING"
    BY CycleEffect
  <2> QED
    BY <1>8, <2>1 DEF BytesInv
<1> QED
  BY <1>9, <1>10, <1>11, <1>12 DEF BytesInv

LEMMA CycleBytes ==
    ASSUME IndInv, IndInv', BytesInv, Cycle
    PROVE  BytesInv'
<1>1. \A s \in Requests : req'[s].phase = "PROMPT_PENDING" =>
                          req[s].phase = "PROMPT_PENDING"
  BY CycleEffect
<1>2. CASE /\ vskm' = vskm /\ specBytes' = specBytes
           /\ deferred' = deferred /\ residentBytes' = residentBytes
  BY <1>1, <1>2, BytesUnchanged
<1>3. ASSUME NEW r \in Requests, IssueOne(r, AfterAdmission)
      PROVE  BytesInv'
  <2>1. CASE StartRound(r, AfterAdmission)
    BY <1>3, <2>1, RoundBytesStep DEF IssueOne
  <2>2. CASE ~StartRound(r, AfterAdmission)
    BY <1>2, <1>3, <2>2
       DEF IssueOne, IssuePrompt, IssueDraft, IssueVerify, ssrcVars, vskmVars
  <2> QED
    BY <2>1, <2>2
<1>4. CASE IssueNone(AfterAdmission)
  BY <1>2, <1>4 DEF IssueNone, ssrcVars, vskmVars
<1> QED
  BY <1>3, <1>4 DEF Cycle

\* A finished PROMPT clears an empty region.
LEMMA PromptBytes ==
    ASSUME IndInv, IndInv', BytesInv, NEW m \in models, FinishPrompt(m)
    PROVE  BytesInv'
<1> DEFINE r == m.req
<1>1. /\ r \in Requests /\ vskm[r] \in VskmStates
      /\ req[r].phase = "PROMPT_PENDING"
      /\ req'[r].phase = "DRAFT_ROUND_START"
      /\ \A s \in Requests \ {r} : req'[s] = req[s]
  BY OwnerFacts, FinishPromptEffect
<1>2. vskm[r].region = 0
  BY <1>1 DEF BytesInv
<1>3. /\ V!ResetRequest(r, req[r].current + PromptLen[r])
      /\ deferred' = deferred /\ residentBytes' = residentBytes
  BY DEF FinishPrompt, ssrcVars
<1>4. req[r].current + PromptLen[r] \in Nat
  BY <1>1, SpecDecodeAssumption DEF IndInv, TypeOK, LangRequests
<1>5. /\ vskm'[r].region = 0 /\ specBytes' = specBytes
      /\ \A s \in Requests \ {r} : vskm'[s] = vskm[s]
  BY <1>1, <1>3, <1>4, ResetRequestEffect DEF IndInv, TypeOK, VskmStates
<1>6. specBytes \in Nat
  BY DEF IndInv, TypeOK
<1>7. specBytes' = SumOver(Regions', Requests)
  BY <1>1, <1>2, <1>5, <1>6, RegionBooked
<1>8. /\ residentBytes' = SumOver(Reservations', Requests)
      /\ residentBytes' <= ResidentLimitBytes
  BY <1>3 DEF BytesInv, Reservations
<1>9. \A s \in Requests : req'[s].phase = "PROMPT_PENDING" => vskm'[s].region = 0
  BY <1>1, <1>5 DEF BytesInv
<1> QED
  BY <1>7, <1>8, <1>9 DEF BytesInv

\* A finished DRAFT adds one token to its region.
LEMMA DraftBytes ==
    ASSUME IndInv, IndInv', BytesInv, NEW m \in models, FinishDraft(m)
    PROVE  BytesInv'
<1> DEFINE r == m.req
<1>1. /\ r \in Requests /\ vskm[r] \in VskmStates
      /\ req'[r].phase \in RoundPhases
      /\ \A s \in Requests \ {r} : req'[s] = req[s]
  BY OwnerFacts, FinishInRoundEffect
<1>2. /\ V!DraftToken(r)
      /\ deferred' = deferred /\ residentBytes' = residentBytes
  BY DEF FinishDraft, ssrcVars
<1>3. vskm \in [Requests -> VskmStates] /\ specBytes \in Nat
      /\ vskm[r].region \in Nat
  BY <1>1 DEF IndInv, TypeOK, VskmStates
<1>4. /\ vskm'[r].region = vskm[r].region + ResidentBytes
      /\ \A s \in Requests \ {r} : vskm'[s] = vskm[s]
  BY <1>1, <1>2, <1>3, DraftTokenEffect
<1>5. specBytes' = specBytes + ResidentBytes
  BY <1>2 DEF V!DraftToken
<1>6. specBytes' = SumOver(Regions', Requests)
  BY <1>1, <1>3, <1>4, <1>5, RegionBooked, SpecDecodeAssumption
<1>7. /\ residentBytes' = SumOver(Reservations', Requests)
      /\ residentBytes' <= ResidentLimitBytes
  BY <1>2 DEF BytesInv, Reservations
<1>8. \A s \in Requests : req'[s].phase = "PROMPT_PENDING" => vskm'[s].region = 0
  BY <1>1, <1>4 DEF BytesInv, RoundPhases
<1> QED
  BY <1>6, <1>7, <1>8 DEF BytesInv

\* A finished VERIFY gives its region and its reservation back, in full.
LEMMA VerifyBytes ==
    ASSUME IndInv, IndInv', BytesInv, NEW m \in models, FinishVerify(m)
    PROVE  BytesInv'
<1> DEFINE r == m.req
<1>1. /\ r \in Requests /\ vskm[r] \in VskmStates /\ deferred[r] \in RoundRecords
      /\ m.k \in Nat /\ m.round \in Nat
      /\ req'[r].phase # "PROMPT_PENDING"
      /\ \A s \in Requests \ {r} : req'[s] = req[s]
  BY OwnerFacts, FinishVerifyEffect
<1>2. PICK a \in 0 .. MaxOf(1, m.k) : VerifyAccepts(m, a)
  BY DEF FinishVerify
<1>3. MaxOf(1, m.k) \in Nat /\ a \in Nat
  BY <1>1 DEF MaxOf
<1>4. V!CompleteVerify(r, MaxOf(1, m.k), a)
  BY <1>2 DEF VerifyAccepts
<1>5. /\ vskm \in [Requests -> VskmStates] /\ specBytes \in Nat
      /\ vskm[r].region \in Nat
      /\ deferred \in [Requests -> RoundRecords] /\ residentBytes \in Nat
      /\ deferred[r].reserved \in Nat
  BY <1>1 DEF IndInv, TypeOK, VskmStates, RoundRecords
<1>6. /\ vskm'[r].region = 0
      /\ \A s \in Requests \ {r} : vskm'[s] = vskm[s]
  BY <1>1, <1>3, <1>4, <1>5, CompleteVerifyEffect
<1>7. specBytes' = specBytes - vskm[r].region
  BY <1>1, <1>4, NeverClamped DEF V!CompleteVerify
<1>8. specBytes' = SumOver(Regions', Requests)
  BY <1>1, <1>5, <1>6, <1>7, RegionBooked
<1>9. /\ \A s \in Requests \ {r} : deferred'[s] = deferred[s]
      /\ residentBytes' = (residentBytes - deferred[r].reserved)
                             + deferred'[r].reserved
      /\ residentBytes' <= residentBytes
  <2>1. S!OnRoundVerified(r, m.round) \/ UNCHANGED ssrcVars
    BY <1>2 DEF VerifyAccepts
  <2>2. CASE deferred' = deferred /\ residentBytes' = residentBytes
    BY <1>5, <2>2
  <2>3. CASE /\ deferred' = [deferred EXCEPT ![r] = S!NoRecord]
             /\ residentBytes' = residentBytes - deferred[r].reserved
    BY <1>1, <1>5, <2>3 DEF S!NoRecord
  <2> QED
    BY <1>1, <2>1, <2>2, <2>3, NeverClamped DEF S!OnRoundVerified, ssrcVars
<1>10. residentBytes' = SumOver(Reservations', Requests)
  BY <1>1, <1>9, ReservationBooked
<1>11. residentBytes' <= ResidentLimitBytes
  <2>1. residentBytes' \in Nat /\ residentBytes <= ResidentLimitBytes
    BY DEF IndInv, TypeOK, BytesInv
  <2> QED
    BY <1>5, <1>9, <2>1, SpecDecodeAssumption
<1>12. \A s \in Requests : req'[s].phase = "PROMPT_PENDING" => vskm'[s].region = 0
  BY <1>1, <1>6 DEF BytesInv
<1> QED
  BY <1>8, <1>10, <1>11, <1>12 DEF BytesInv

\* No byte of VSKM's or SSRC's counters is lost, counted twice or clamped
\* away, and the deferred rounds stay within the resident budget
\* (draft_token, complete_verify, should_defer_round, on_round_verified).
THEOREM BytesStay == Spec => []BytesConserved
<1>1. Init => BytesInv
  <2> SUFFICES ASSUME Init PROVE BytesInv
    OBVIOUS
  <2>1. /\ specBytes = 0 /\ residentBytes = 0
        /\ vskm = [r \in Requests |-> V!FreshState]
        /\ deferred = [r \in Requests |-> S!NoRecord]
    BY DEF Init, S!SSRCInit, V!VSKMInit
  <2>2. \A r \in Requests : vskm[r].region = 0 /\ deferred[r].reserved = 0
    BY <2>1 DEF V!FreshState, S!NoRecord
  <2>3. \A r \in Requests : Regions[r] = 0 /\ Reservations[r] = 0
    BY <2>2 DEF Regions, Reservations
  <2>4. SumOver(Regions, Requests) = 0 /\ SumOver(Reservations, Requests) = 0
    BY <2>3, SumZero, RequestsFinite
  <2> QED
    BY <2>1, <2>2, <2>4, SpecDecodeAssumption DEF BytesInv
<1>2. IndInv /\ IndInv' /\ [Next]_vars /\ BytesInv => BytesInv'
  <2> SUFFICES ASSUME IndInv, IndInv', [Next]_vars, BytesInv PROVE BytesInv'
    OBVIOUS
  <2>1. CASE Arrive \/ UNCHANGED vars
    BY <2>1, BytesUnchanged DEF Arrive, vars, ssrcVars, vskmVars
  <2>2. CASE Cycle
    BY <2>2, CycleBytes
  <2>3. ASSUME NEW m \in models, FinishModel(m) PROVE BytesInv'
    <3>1. CASE FinishPreVerify(m)
      <4>1. \A s \in Requests : req'[s].phase = "PROMPT_PENDING" =>
                                req[s].phase = "PROMPT_PENDING"
        BY <3>1, FinishInRoundEffect DEF RoundPhases
      <4> QED
        BY <3>1, <4>1, BytesUnchanged DEF FinishPreVerify, ssrcVars, vskmVars
    <3> QED
      BY <2>3, <3>1, PromptBytes, DraftBytes, VerifyBytes DEF FinishModel
  <2> QED
    BY <2>1, <2>2, <2>3 DEF Next
<1>3. BytesInv => BytesConserved
  BY BytesInvIs
<1> QED
  BY <1>1, <1>2, <1>3, Invariance, PTL DEF Spec
=============================================================================
