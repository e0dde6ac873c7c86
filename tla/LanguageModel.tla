--------------------------- MODULE LanguageModel ---------------------------
(***************************************************************************)
(* The transformer that language mode builds for every step                *)
(* (ONNXim/src/models/LanguageModel.cc): one graph over a batch of         *)
(* requests, each with its own key and value cache.                        *)
(*                                                                         *)
(* A configuration c is a record [hidden, heads, kv, inter, vocab, layers, *)
(* tp, gated]: c.layers counts the simulated layers, c.tp is               *)
(* tensor_parallel_size.  A request of the batch is a record               *)
(* [id, tokens, rows]: the tokens of the step and the rows its caches      *)
(* hold.  A tensor is named by <<operation, part, layer, request>>.        *)
(***************************************************************************)
EXTENDS ModelGraph

\* LanguageModel::LanguageModel
head_dim(c) == c.hidden \div c.heads
qkv_out_dim(c) == (head_dim(c) * c.kv * 2 + c.hidden) \div c.tp
num_kv_heads(c) == c.kv \div c.tp
num_heads(c) == c.heads \div c.tp
proj_in_dim(c) == c.hidden \div c.tp
intermediate_size(c) == c.inter \div c.tp
ffn1_out_dim(c) == intermediate_size(c) * (IF c.gated THEN 2 ELSE 1)
\* LangScheduler's _cache_dim
cache_dim(c) == head_dim(c) * c.kv

Tensor(op, part, l) == <<op, part, l, 0>>
Out(op, l) == Tensor(op, "out", l)
PerRequest(op, part, l, b) == <<op, part, l, b>>

\* initialize_weight
layer_weights(c, l) ==
    LET Both(op, weight, bias) == Tensor(op, "weight", l) :> weight @@ Tensor(op, "bias", l) :> bias
    IN Both("ln", <<c.hidden>>, <<c.hidden>>)
       @@ Both("qkv", <<c.hidden, qkv_out_dim(c)>>, <<qkv_out_dim(c)>>)
       @@ Both("proj", <<proj_in_dim(c), c.hidden>>, <<c.hidden>>)
       @@ Both("ffn_ln", <<c.hidden>>, <<c.hidden>>)
       @@ Both("fc1", <<c.hidden, ffn1_out_dim(c)>>, <<ffn1_out_dim(c)>>)
       @@ Both("fc2", <<intermediate_size(c), c.hidden>>, <<c.hidden>>)
lm_weights(c) ==
    Build(LAMBDA acc, l : acc @@ layer_weights(c, l),
             Tensor("lmhead", "weight", 0) :> <<c.hidden, c.vocab>>, [l \in 1 .. c.layers |-> l])
Elements(dims) == Product(dims, 1)
weight_size(c) == FoldFunction(+, 0, [t \in DOMAIN lm_weights(c) |-> Elements(lm_weights(c)[t])])
act_size(c) == IF qkv_out_dim(c) > ffn1_out_dim(c) THEN qkv_out_dim(c) ELSE ffn1_out_dim(c)

\* generate_model: the caches of every request, produced from the start.
caches(c, reqs) ==
    Build(LAMBDA acc, b :
               acc @@ [t \in {PerRequest("cache", part, l, b) : part \in {"key", "value"}, l \in 1 .. c.layers}
                         |-> <<reqs[b].rows, cache_dim(c)>>],
             <<>>, [b \in DOMAIN reqs |-> b])
num_tokens(reqs) == FoldLeft(LAMBDA n, r : n + r.tokens, 0, reqs)

\* One operation with its outputs, a sequence of pairs of tensor and dimensions.
node(g, o, ins, outs, wants) ==
    register_operation(Build(LAMBDA acc, t : add_tensor(acc, t[1], t[2], FALSE), g, outs), o, ins,
                       [i \in DOMAIN outs |-> outs[i][1]], wants)

\* A GemmWS operation takes its shapes from the attributes.
gemm(g, op, l, input, tokens, cin, cout, has_bias) ==
    LET weight == Tensor(op, "weight", l)
        bias == Tensor(op, "bias", l)
    IN node(g, Out(op, l), <<input, weight>> \o (IF has_bias THEN <<bias>> ELSE <<>>),
            <<<<Out(op, l), <<tokens, cout>>>>>>,
            {<<input, <<tokens, cin>>>>, <<weight, <<cin, cout>>>>}
              \cup (IF has_bias THEN {<<bias, <<cout>>>>} ELSE {}))

\* Residual and normalisation keep the shape of their first input.
skip_layer_norm(g, op, l, input, residual) ==
    LET dims == g.dims[input]
    IN node(g, Out(op, l), <<input, residual, Tensor(op, "weight", l), Tensor(op, "bias", l)>>, <<<<Out(op, l), dims>>>>,
            {<<residual, dims>>, <<Tensor(op, "weight", l), <<dims[2]>>>>, <<Tensor(op, "bias", l), <<dims[2]>>>>})

\* The new keys and values are appended to the caches, per request.
\* Mutant: the rows are those of the cache alone.
kv_cache_concat_stale(g, c, l, reqs) ==
    LET outs(b) == <<<<PerRequest("kv", "query", l, b), <<reqs[b].tokens, c.hidden>>>>,
                     <<PerRequest("kv", "key", l, b), g.dims[PerRequest("cache", "key", l, b)]>>,
                     <<PerRequest("kv", "value", l, b), g.dims[PerRequest("cache", "value", l, b)]>>>>
    IN node(g, Out("kv", l),
            <<Out("qkv", l)>> \o FlattenSeq([b \in DOMAIN reqs |->
                <<PerRequest("cache", "key", l, b), PerRequest("cache", "value", l, b)>>]),
            FlattenSeq([b \in DOMAIN reqs |-> outs(b)]), {})
kv_cache_concat(g, c, l, reqs) ==
    LET cached == (c.hidden \div num_heads(c)) * num_kv_heads(c)
        Longer(part, b) == [g.dims[PerRequest("cache", part, l, b)] EXCEPT ![1] = @ + reqs[b].tokens]
        outs(b) == <<<<PerRequest("kv", "query", l, b), <<reqs[b].tokens, c.hidden>>>>,
                     <<PerRequest("kv", "key", l, b), Longer("key", b)>>,
                     <<PerRequest("kv", "value", l, b), Longer("value", b)>>>>
    IN node(g, Out("kv", l),
            <<Out("qkv", l)>> \o FlattenSeq([b \in DOMAIN reqs |->
                <<PerRequest("cache", "key", l, b), PerRequest("cache", "value", l, b)>>]),
            FlattenSeq([b \in DOMAIN reqs |-> outs(b)]),
            {<<Out("qkv", l), <<num_tokens(reqs), c.hidden + 2 * cached>>>>})

attention(g, c, l, b, reqs) ==
    LET part(p) == PerRequest("kv", p, l, b)
        model_dim == c.hidden \div c.tp
        keys == <<g.dims[PerRequest("cache", "key", l, b)][1] + reqs[b].tokens,
                  num_kv_heads(c) * (model_dim \div num_heads(c))>>
    IN node(g, PerRequest("attention", "out", l, b), <<part("query"), part("key"), part("value")>>,
            <<<<PerRequest("attention", "out", l, b), <<reqs[b].tokens, model_dim>>>>>>,
            {<<part("query"), <<reqs[b].tokens, model_dim>>>>, <<part("key"), keys>>, <<part("value"), keys>>})

\* The outputs of the batch, one below the other.
concat(g, l, reqs) ==
    LET ins == [b \in DOMAIN reqs |-> PerRequest("attention", "out", l, b)]
        rows == FoldLeft(LAMBDA n, t : n + g.dims[t][1], 0, ins)
    IN node(g, Out("concat", l), ins, <<<<Out("concat", l), <<rows, g.dims[ins[1]][2]>>>>>>,
            {<<ins[b], <<reqs[b].tokens, g.dims[ins[1]][2]>>>> : b \in DOMAIN reqs})

\* The activation: a gated one multiplies the two halves of its input.
bias_act(g, c, l) ==
    LET input == Out("fc1", l)
        width == g.dims[input][2]
    IN node(g, Out("act", l), <<input, Tensor("fc1", "bias", l)>>,
            <<<<Out("act", l), [g.dims[input] EXCEPT ![2] = IF c.gated THEN @ \div 2 ELSE @]>>>>,
            {<<Tensor("fc1", "bias", l), <<width>>>>})

\* One layer, in the order of the source.
BlockOrder == <<"qkv", "kv", "attention", "concat", "proj", "ln", "fc1", "act", "fc2", "ffn_ln">>
block(g, c, l, reqs, op) ==
    LET tokens == num_tokens(reqs)
        input == IF l = 1 THEN Tensor("input", "out", 0) ELSE Out("ffn_ln", l - 1)
    IN CASE op = "qkv" -> gemm(g, op, l, input, tokens, c.hidden, qkv_out_dim(c), TRUE)
         [] op = "kv" -> kv_cache_concat(g, c, l, reqs)
         [] op = "attention" -> Build(LAMBDA acc, b : attention(acc, c, l, b, reqs), g, [b \in DOMAIN reqs |-> b])
         [] op = "concat" -> concat(g, l, reqs)
         [] op = "proj" -> gemm(g, op, l, Out("concat", l), tokens, proj_in_dim(c), c.hidden, TRUE)
         [] op = "ln" -> skip_layer_norm(g, op, l, input, Out("proj", l))
         [] op = "fc1" -> gemm(g, op, l, Out("ln", l), tokens, c.hidden, ffn1_out_dim(c), FALSE)
         [] op = "act" -> bias_act(g, c, l)
         [] op = "fc2" -> gemm(g, op, l, Out("act", l), tokens, intermediate_size(c), c.hidden, TRUE)
         [] op = "ffn_ln" -> skip_layer_norm(g, op, l, Out("ln", l), Out("fc2", l))
decoder_layer(g, c, l, reqs) == Build(LAMBDA acc, op : block(acc, c, l, reqs, op), g, BlockOrder)
\* initialize_model
lm_graph(c, reqs) ==
    LET tensors == add_tensors(add_tensors(add_tensor(EmptyGraph, Tensor("input", "out", 0),
                                 <<num_tokens(reqs), c.hidden>>, TRUE), lm_weights(c), TRUE), caches(c, reqs), TRUE)
    IN with_executable(Build(LAMBDA acc, l : decoder_layer(acc, c, l, reqs), tensors, [l \in 1 .. c.layers |-> l]))
=============================================================================
