----------------------------- MODULE ModelGraph -----------------------------
(***************************************************************************)
(* A network as the simulator holds it (ONNXim/src/Model.cc, Tensor.cc,    *)
(* operations/Operation.cc): tensors with their dimensions, operations     *)
(* that read and produce them, and the list of executable operations.      *)
(*                                                                         *)
(* A graph is a record, changed by the operators below; a tensor and an    *)
(* operation are named by values.  `wants' collects, for every operation,  *)
(* the dimensions it takes its inputs to have: the tile programs of module *)
(* Operations are computed from them and not from the tensors.             *)
(***************************************************************************)
EXTENDS Integers, Sequences, SequencesExt, FiniteSetsExt, TLC

\* FoldLeft with the value of every step bound to a name.
Build(op(_, _), g, seq) == FoldLeft(LAMBDA acc, x : CHOOSE h \in {op(a, x) : a \in {acc}} : TRUE, g, seq)

EmptyGraph ==
    [dims |-> <<>>,      \* tensor -> dimensions, _tensor_map
     children |-> <<>>,  \* tensor -> the operations that read it, _child_nodes
     produced |-> {},    \* the tensors with _produced
     ins |-> <<>>, outs |-> <<>>, wants |-> <<>>,   \* per operation
     order |-> <<>>,     \* the operations by id, _operation_map
     exec |-> <<>>,      \* _executable_layer
     done |-> {}]        \* the operations with _finish

\* Model::add_tensor
add_tensor(g, t, dims, produced) ==
    [g EXCEPT !.dims = (t :> dims) @@ @, !.children = (t :> <<>>) @@ @,
              !.produced = IF produced THEN @ \cup {t} ELSE @ \ {t}]
add_tensors(g, table, produced) ==
    [g EXCEPT !.dims = table @@ @, !.children = [t \in DOMAIN table |-> <<>>] @@ @,
              !.produced = IF produced THEN @ \cup DOMAIN table ELSE @ \ DOMAIN table]

\* Operation::add_input, and the registration of the finished operation.
add_child_node(g, t, o) == [g EXCEPT !.children[t] = Append(@, o)]
register_operation(g, o, ins, outs, wants) ==
    [Build(LAMBDA acc, t : add_child_node(acc, t, o), g, ins)
        EXCEPT !.ins = (o :> ins) @@ @, !.outs = (o :> outs) @@ @, !.wants = (o :> wants) @@ @,
               !.order = Append(@, o)]

check_executable(g, o) == ToSet(g.ins[o]) \subseteq g.produced
get_child_nodes(g, o) == FlattenSeq([i \in DOMAIN g.outs[o] |-> g.children[g.outs[o][i]]])

\* The end of initialize_model: what is executable from the start.
with_executable(g) == [g EXCEPT !.exec = SelectSeq(g.order, LAMBDA o : check_executable(g, o))]

\* Model::set_layer_finish with Operation::set_finish
set_layer_finish(g, o) ==
    LET f == [g EXCEPT !.produced = @ \cup ToSet(g.outs[o]), !.done = @ \cup {o}]
        Push(q, c) == IF check_executable(f, c) /\ ~Contains(q, c) THEN Append(q, c) ELSE q
    IN [f EXCEPT !.exec = Build(Push, @, get_child_nodes(f, o))]
\* Model::check_finish
check_finish(g) == ToSet(g.order) \subseteq g.done

\* Every operation got the tensors it was built for.
Agrees(g) == \A o \in ToSet(g.order) : \A w \in g.wants[o] : g.dims[w[1]] = w[2]

-----------------------------------------------------------------------------
(* Loading an ONNX network.  A node is a record [op, ins, outs, ...] of    *)
(* tensor names; the layout is NHWC.                                       *)

\* Tensor::redefine_tensor: a placeholder gets its dimensions.
redefine_tensor(g, t, dims) == [g EXCEPT !.dims[t] = IF @ = <<>> THEN dims ELSE @]

\* Operation::Operation: an input nobody has made yet becomes a placeholder.
with_inputs(g, node) ==
    Build(LAMBDA acc, t : IF t \in DOMAIN acc.dims THEN acc ELSE add_tensor(acc, t, <<>>, FALSE), g, node.ins)

PoolDim(size, pad, kernel, stride) == (size + 2 * pad - (kernel - 1) + stride - 1) \div stride
Product(dims, from) == FoldLeft(LAMBDA a, i : a * i, 1, SubSeq(dims, from, Len(dims)))

\* The dimensions of the output, per kind of operation, from the inputs'.
flatten_dims(node, d) == Append(SubSeq(d, 1, node.axis), Product(d, node.axis + 1))
max_pool_dims(node, d) ==
    [d EXCEPT ![2] = PoolDim(@, node.pad, node.kernel, node.stride),
              ![3] = PoolDim(@, node.pad, node.kernel, node.stride)]
avg_pool_dims(node, d) ==
    [d EXCEPT ![2] = (@ - node.kernel) \div node.stride + 1, ![3] = (@ - node.kernel) \div node.stride + 1]
global_pool_dims(d) == [d EXCEPT ![2] = 1, ![3] = 1]
embed_dims(d, weight) == <<d[1], d[2], weight[2]>>
gemm_dims(node, d, weight) == [d EXCEPT ![Len(d)] = IF node.transB THEN weight[1] ELSE weight[2]]
output_dims(node, d, second) ==
    CASE node.op = "Flatten" -> flatten_dims(node, d)
      [] node.op = "MaxPool" -> max_pool_dims(node, d)
      [] node.op = "AveragePool" -> avg_pool_dims(node, d)
      [] node.op = "GlobalAveragePool" -> global_pool_dims(d)
      [] node.op = "EmbedLayerNormalization" -> embed_dims(d, second)
      [] node.op = "Gemm" -> gemm_dims(node, d, second)
      [] OTHER -> d    \* SkipLayerNormalization, BiasGelu, Cast, ReorderOutput
node_wants(node, d, second) ==
    CASE node.op = "Gemm" ->
           {<<node.ins[2], IF node.transB THEN <<second[1], Last(d)>> ELSE <<Last(d), second[2]>>>>}
           \cup (IF Len(node.ins) = 3 THEN {<<node.ins[3], <<Last(output_dims(node, d, second))>>>>} ELSE {})
      [] node.op = "SkipLayerNormalization" -> {<<node.ins[2], d>>}
      [] OTHER -> {}

\* The constructors: an output that is there already is only redefined and
\* does not become an output of the node.
create_operation(g0, node) ==
    LET g == with_inputs(g0, node)
        d == g.dims[node.ins[1]]
        second == IF Len(node.ins) > 1 THEN g.dims[node.ins[2]] ELSE <<>>
        dims == output_dims(node, d, second)
        new == SelectSeq(node.outs, LAMBDA t : t \notin DOMAIN g.dims)
        Define(acc, t) == IF t \in DOMAIN acc.dims THEN redefine_tensor(acc, t, dims)
                          ELSE add_tensor(acc, t, dims, FALSE)
    IN register_operation(Build(Define, g, node.outs), node.outs[1], node.ins, new,
                          node_wants(node, d, second))

\* nr_atten (-1: all) attention blocks are kept: the network is cut behind
\* the SkipLayerNormalization that ends the last one, whose outputs are
\* dropped.
Kept(nodes, nr_atten) ==
    LET norms == {i \in DOMAIN nodes : nodes[i].op = "SkipLayerNormalization"}
        cut == {i \in norms : nr_atten # -1 /\ Cardinality({j \in norms : j <= i}) >= nr_atten * 2}
    IN IF cut = {} THEN Len(nodes) ELSE Min(cut)
\* Model::initialize_model
initialize_onnx(inputs, weights, nodes, nr_atten) ==
    LET kept == SubSeq(nodes, 1, Kept(nodes, nr_atten))
        g == Build(create_operation,
                      add_tensors(add_tensors(EmptyGraph, inputs, TRUE), weights, TRUE), kept)
    IN with_executable(IF Len(kept) = Len(nodes) THEN g ELSE [g EXCEPT !.outs[Last(kept).outs[1]] = <<>>])

\* NCHW to NHWC, of a single square image.
input_dims(d, single) ==
    IF single /\ Len(d) = 4 /\ d[3] = d[4] THEN <<d[1], d[3], d[4], d[2]>> ELSE d
=============================================================================
