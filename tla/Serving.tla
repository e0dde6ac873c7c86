------------------------------ MODULE Serving ------------------------------
(***************************************************************************)
(* Serving requests: the language schedulers without speculation           *)
(* (ONNXim/src/scheduler/LanguageScheduler.cc, IterLevelScheduler.cc), the *)
(* launch of models by Simulator::handle_model, and the layer by layer     *)
(* execution of a model's graph under the simple tile scheduler            *)
(* (scheduler/Scheduler.cc, Model.cc).                                     *)
(*                                                                         *)
(* A setup is a run of the simulator: mode ("simple" or "iter": language   *)
(* mode with that scheduler; "onnx": the default mode), the model          *)
(* configuration, _max_batch_size (0: none), dram (0: unlimited, else the  *)
(* tensor elements that fit), the request trace in order and nets, the     *)
(* ONNX models by their names, each [time, inputs, weights, nodes,         *)
(* nr_atten, config]; a dimension of an input is <<"value", n>> or         *)
(* <<"axis", a>>.                                                          *)
(***************************************************************************)
EXTENDS LanguageModel

CONSTANT ServingSetups

ASSUME ServingAssumption ==
    \A s \in ServingSetups :
        /\ s.mode \in {"simple", "iter", "onnx"} /\ s.max_batch \in Nat
        /\ s.requests \in Seq([time : Nat, prompt : Nat, output : Nat, cached : Nat])
        /\ IsFiniteSet(DOMAIN s.nets)

VARIABLES serving,  \* the setup, never changed
          cycle,    \* the time, up to the last arrival
          lang,     \* the language scheduler
          models,   \* Simulator::_models: registered and not launched
          queue,    \* Scheduler::_request_queue: launched models with their graphs
          executing \* the operation whose tiles are on the cores: <<it>>, or <<>>
svars == <<serving, cycle, lang, models, queue, executing>>

IsLanguage(m) == "reqs" \in DOMAIN m
Language == serving.mode # "onnx"
Largest(S) == Max({0} \cup S)
Net(m) == serving.nets[m.name]
Horizon == Largest({serving.nets[n].time : n \in DOMAIN serving.nets} \cup {r.time : r \in ToSet(serving.requests)}) + 1

-----------------------------------------------------------------------------
(* The language scheduler: [waiting, active, in_model, done, computed,     *)
(* exited].  `active' maps a request to its record; `in_model' holds the   *)
(* requests of the one unfinished model; `done' and `computed' are         *)
(* histories: the final length of a request, and the tokens whose keys     *)
(* and values have been computed.                                          *)

\* parse_request_trace
parse_request_trace(trace) ==
    [i \in DOMAIN trace |->
        [id |-> i - 1, time |-> trace[i].time, prompt |-> trace[i].prompt, len |-> trace[i].cached,
         target |-> trace[i].cached + trace[i].prompt + trace[i].output, gen |-> FALSE, running |-> FALSE]]

\* LangScheduler::cycle admits into an empty scheduler, IterLevelScheduler
\* up to one more than the batch.
MayAdmit(l) ==
    IF serving.mode = "simple" THEN DOMAIN l.active = {}
    ELSE serving.max_batch = 0 \/ Cardinality(DOMAIN l.active) <= serving.max_batch
\* Mutant: the loop counts what it admits and not what is active.
RoomCounted(l) == IF serving.max_batch = 0 THEN Len(l.waiting) ELSE serving.max_batch
\* The loop stops behind the request that fills the batch.
Room(l) ==
    IF serving.max_batch = 0 THEN Len(l.waiting)
    ELSE Largest({1, serving.max_batch - Cardinality(DOMAIN l.active)})
Due(l, now) == Largest({i \in DOMAIN l.waiting : \A j \in 1 .. i : l.waiting[j].time <= now})
admit(l, now) ==
    LET n == IF MayAdmit(l) THEN Min({Due(l, now), Room(l)}) ELSE 0
        new == {l.waiting[i].id : i \in 1 .. n}
        Arrived(id) == CHOOSE r \in ToSet(l.waiting) : r.id = id
    IN [l EXCEPT !.waiting = SubSeq(@, n + 1, Len(@)),
                 !.active = [id \in new \cup DOMAIN @ |-> IF id \in new THEN Arrived(id) ELSE @[id]],
                 !.computed = [id \in new \cup DOMAIN @ |-> IF id \in new THEN Arrived(id).len ELSE @[id]]]

\* init_inputs_and_model: the idle requests in the order of their ids.
Ascending(S) == CHOOSE s \in [1 .. Cardinality(S) -> S] : \A i, j \in DOMAIN s : i < j => s[i] < s[j]
StepInputs(l) ==
    LET idle == Ascending({id \in DOMAIN l.active : ~l.active[id].running})
        batch == IF serving.max_batch = 0 THEN idle ELSE SubSeq(idle, 1, Min({serving.max_batch, Len(idle)}))
    IN [i \in DOMAIN batch |->
          LET r == l.active[batch[i]]
          IN [id |-> r.id, rows |-> r.len, tokens |-> IF r.gen THEN 1 ELSE r.prompt]]
kv_memory_size(l) ==
    FoldFunction(+, 0, [id \in DOMAIN l.active |-> 2 * serving.model.layers * l.active[id].len * cache_dim(serving.model)])
total_memory(l, inputs) ==
    weight_size(serving.model) + kv_memory_size(l) + act_size(serving.model) * num_tokens(inputs)
Joins(r, inputs) == [r EXCEPT !.running = @ \/ \E i \in DOMAIN inputs : inputs[i].id = r.id]
init_inputs_and_model(l) ==
    LET inputs == IF l.in_model = <<>> THEN StepInputs(l) ELSE <<>>
    IN IF inputs = <<>> THEN l
       ELSE [l EXCEPT !.in_model = [i \in DOMAIN inputs |-> inputs[i].id],
                      !.active = [id \in DOMAIN @ |-> Joins(@[id], inputs)],
                      !.exited = serving.dram > 0 /\ total_memory(l, inputs) > serving.dram]

\* Mutant: the prompt step does not count the token it generates.
SteppedShort(r) == [r EXCEPT !.len = @ + (IF r.gen THEN 1 ELSE r.prompt), !.gen = TRUE, !.running = FALSE]
\* finish_model, for every request of the finished model.
Stepped(r) == [r EXCEPT !.len = @ + 1 + (IF r.gen THEN 0 ELSE r.prompt), !.gen = TRUE, !.running = FALSE]
Completed(r) == r.len >= r.target
finish_model(l, reqs) ==
    LET ids == ToSet(l.in_model)
        next == [id \in DOMAIN l.active |-> IF id \in ids THEN Stepped(l.active[id]) ELSE l.active[id]]
        over == {id \in ids : Completed(next[id])}
    IN [l EXCEPT !.active = [id \in DOMAIN next \ over |-> next[id]],
                 !.in_model = <<>>,
                 !.done = [id \in over \cup DOMAIN @ |-> IF id \in over THEN next[id].len ELSE @[id]],
                 !.computed = [id \in DOMAIN @ |->
                     @[id] + Largest({r.tokens : r \in {q \in ToSet(reqs) : q.id = id}})]]

-----------------------------------------------------------------------------
(* Models.                                                                 *)

\* The dimension parameters the inputs look up; _axis_map fills from the
\* configuration the first time.
AxisMap(m) ==
    LET params == UNION {{Net(m).inputs[t][i][2] : i \in {j \in DOMAIN Net(m).inputs[t] : Net(m).inputs[t][j][1] = "axis"}} :
                         t \in DOMAIN Net(m).inputs}
    IN m.axis @@ [a \in params \ DOMAIN m.axis |-> Net(m).config[a]]
InputDims(m, axis) ==
    [t \in DOMAIN Net(m).inputs |->
        input_dims([i \in DOMAIN Net(m).inputs[t] |->
                      IF Net(m).inputs[t][i][1] = "axis" THEN axis[Net(m).inputs[t][i][2]] ELSE Net(m).inputs[t][i][2]],
                   Cardinality(DOMAIN Net(m).inputs) = 1)]
initialize_model(m) ==
    IF IsLanguage(m) THEN [m EXCEPT !.graph = lm_graph(serving.model, m.reqs)]
    ELSE [m EXCEPT !.axis = AxisMap(m),
                   !.graph = initialize_onnx(InputDims(m, AxisMap(m)), Net(m).weights, Net(m).nodes, Net(m).nr_atten)]

check_regressive(m) ==
    /\ ~IsLanguage(m) /\ "total_seq_len" \in DOMAIN m.axis
    /\ m.axis["total_seq_len"] + 1 # Net(m).config["output_seq_len"]
NextPass(axis) ==
    [axis EXCEPT !["past_seq_len"] = IF @ = 0 THEN axis["seq_len"] ELSE @ + 1,
                 !["seq_len"] = 1, !["total_seq_len"] = @ + 1]
prepare_regressive(m) == [m EXCEPT !.axis = NextPass(@), !.graph = EmptyGraph]

-----------------------------------------------------------------------------
(* What one call of the main loop changes is a record of the variables.    *)
Now == [lang |-> lang, models |-> models, queue |-> queue, executing |-> executing]
Become(s) == lang' = s.lang /\ models' = s.models /\ queue' = s.queue /\ executing' = s.executing

\* Scheduler::refresh_status: retire the finished front, then start a layer.
\* Like LaunchModel, it maps a set of outcomes to a set of outcomes.
RetireFront(s) ==
    IF s.queue = <<>> \/ ~check_finish(Head(s.queue).graph) THEN s
    ELSE LET m == Head(s.queue)
         IN [s EXCEPT !.queue = Tail(@),
                      !.lang = IF IsLanguage(m) THEN finish_model(@, m.reqs) ELSE @,
                      !.models = IF check_regressive(m) THEN @ \cup {prepare_regressive(m)} ELSE @]
StartLayer(s) ==
    IF s.executing # <<>> \/ s.queue = <<>> \/ Head(s.queue).graph.exec = <<>> THEN s
    ELSE [s EXCEPT !.executing = <<Head(Head(s.queue).graph.exec)>>, !.queue[1].graph.exec = Tail(@)]
refresh_status(S) == {StartLayer(r) : r \in {RetireFront(s) : s \in S}}

\* Scheduler::schedule_model of a model that was due.
LaunchModel(S, m, now) ==
    refresh_status({[s EXCEPT !.models = @ \ {m},
                              !.queue = Append(@, [initialize_model(m) EXCEPT !.time = now])] : s \in S})

\* The models of an order, one after the other.
Launched(s, order, now) ==
    LET upto[k \in 0 .. Len(order)] == IF k = 0 THEN {s} ELSE LaunchModel(upto[k - 1], order[k], now)
    IN upto[Len(order)]

\* Simulator::handle_model: the language scheduler's cycle, then every due
\* model by its request time, models of one time in any order.
LaunchOrders(s, now) ==
    LET due == {m \in s.models : m.time <= now}
    IN {f \in [1 .. Cardinality(due) -> due] :
          \A i, j \in DOMAIN f : i < j => f[i] # f[j] /\ f[i].time <= f[j].time}
lang_cycle(s, now) ==
    IF ~Language THEN {s}
    ELSE {[s EXCEPT !.lang = init_inputs_and_model(l),
                    !.models = @ \cup (IF l.in_model = <<>> /\ StepInputs(l) # <<>>
                                       THEN {[reqs |-> StepInputs(l), time |-> 0, graph |-> EmptyGraph]} ELSE {})] :
          l \in {admit(s.lang, now)}}
handle_model ==
    /\ ~lang.exited
    /\ cycle' = Min({cycle + 1, Horizon})
    /\ \E s \in lang_cycle(Now, cycle') :
         IF s.lang.exited THEN Become(s)
         ELSE \E order \in LaunchOrders(s, cycle') :
              \E next \in Launched(s, order, cycle') : Become(next)
    /\ UNCHANGED serving

\* Scheduler::finish_tile of the last tile of a layer.
FinishLayer ==
    /\ ~lang.exited /\ executing # <<>>
    /\ \E next \in refresh_status({[Now EXCEPT !.executing = <<>>,
                                     !.queue[1].graph = set_layer_finish(@, Head(executing))]}) : Become(next)
    /\ UNCHANGED <<serving, cycle>>

SInit ==
    /\ serving \in ServingSetups
    /\ cycle = 0
    /\ lang = [waiting |-> parse_request_trace(serving.requests), active |-> <<>>, in_model |-> <<>>,
               done |-> <<>>, computed |-> <<>>, exited |-> FALSE]
    /\ models = {[name |-> n, time |-> serving.nets[n].time, axis |-> <<>>, graph |-> EmptyGraph] : n \in DOMAIN serving.nets}
    /\ queue = <<>> /\ executing = <<>>
SNext == handle_model \/ FinishLayer
\* The simulation goes on; each action alone comes to an end.
SSpec == SInit /\ [][SNext]_svars /\ WF_svars(SNext)

-----------------------------------------------------------------------------
(* Properties.                                                             *)

Unfinished == models \cup ToSet(queue)

\* The caches never lag behind the keys and values that were computed, and
\* run ahead of them by the one generated token whose own keys and values no
\* pass has made yet; a request that ends has exactly the length asked for,
\* or that of its prompt with one token (LangScheduler::finish_model).
CachesFollowTokens ==
    /\ \A id \in DOMAIN lang.active :
         lang.active[id].len = lang.computed[id] + (IF lang.active[id].gen THEN 1 ELSE 0)
    /\ \A id \in DOMAIN lang.done :
         LET r == serving.requests[id + 1]
             least == r.cached + r.prompt + 1
         IN lang.done[id] = Largest({least, r.cached + r.prompt + r.output}) /\ lang.computed[id] = lang.done[id] - 1

\* A step never holds more requests than the batch, and no more are active
\* than the scheduler admits: the batch, and one more with the iteration
\* level scheduler (IterLevelScheduler::cycle).
BatchBound ==
    (Language /\ serving.max_batch > 0) =>
        /\ Len(lang.in_model) <= serving.max_batch
        /\ Cardinality(DOMAIN lang.active) <= serving.max_batch + (IF serving.mode = "iter" THEN 1 ELSE 0)

\* In every launched graph each operation finds its tensors in the
\* dimensions its tile program assumes, whatever the batch, the cache rows
\* and the pass of an autoregressive network; the pass covers the tokens
\* before it (Model::prepare_regressive).
ShapesAgree ==
    \A m \in ToSet(queue) :
        /\ Agrees(m.graph)
        /\ IsLanguage(m) => \A i \in DOMAIN m.reqs : lang.active[m.reqs[i].id].len = m.reqs[i].rows
        /\ (~IsLanguage(m) /\ "total_seq_len" \in DOMAIN m.axis) =>
              m.axis["past_seq_len"] + m.axis["seq_len"] = m.axis["total_seq_len"]

\* Every request of the trace is served and every network runs to its end,
\* unless the run was stopped for memory (LangScheduler::busy).
Served ==
    \/ lang.exited /\ serving.dram > 0
    \/ Unfinished = {} /\ lang.waiting = <<>> /\ DOMAIN lang.active = {}
         /\ Cardinality(DOMAIN lang.done) = Len(serving.requests)
=============================================================================
