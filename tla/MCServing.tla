------------------------------ MODULE MCServing -----------------------------
(* Small language traces and ONNX networks.                                *)
EXTENDS Serving

Gpt == [hidden |-> 8, heads |-> 4, kv |-> 2, inter |-> 6, vocab |-> 10, layers |-> 1, tp |-> 1, gated |-> FALSE]
Llama == [Gpt EXCEPT !.gated = TRUE, !.kv = 4]
Arrival(time, prompt, output, cached) == [time |-> time, prompt |-> prompt, output |-> output, cached |-> cached]
\* A burst larger than the batch, a late arrival, a cached prompt, and an
\* output that ends with the prompt step.
Trace == <<Arrival(1, 2, 3, 0), Arrival(1, 1, 1, 4), Arrival(1, 3, 2, 0), Arrival(2, 1, 3, 1)>>
LangSetup(mode, model, batch, dram) ==
    [mode |-> mode, model |-> model, max_batch |-> batch, dram |-> dram, requests |-> Trace, nets |-> <<>>]

Value(n) == <<"value", n>>
Axis(a) == <<"axis", a>>
Node(op, ins, outs) == [op |-> op, ins |-> ins, outs |-> outs, transB |-> FALSE, axis |-> 1,
                        kernel |-> 3, stride |-> 2, pad |-> 1]
NoConfig == [a \in {} |-> 0]
\* A small image network: pooling, flattening and a classifier.
Cnn == [time |-> 2, nr_atten |-> -1, config |-> NoConfig,
        inputs |-> [x |-> <<Value(1), Value(3), Value(8), Value(8)>>],
        weights |-> [w |-> <<3, 5>>, b |-> <<5>>],
        nodes |-> <<Node("MaxPool", <<"x">>, <<"p">>), Node("AveragePool", <<"p">>, <<"q">>),
                    Node("GlobalAveragePool", <<"q">>, <<"g">>), Node("Flatten", <<"g">>, <<"f">>),
                    Node("Gemm", <<"f", "w", "b">>, <<"y">>)>>]
\* An autoregressive network cut behind its first attention block.
Decoder == [time |-> 1, nr_atten |-> 1,
            config |-> [seq_len |-> 2, past_seq_len |-> 0, total_seq_len |-> 2, output_seq_len |-> 5],
            inputs |-> [ids |-> <<Value(1), Axis("seq_len")>>,
                        mask |-> <<Value(1), Axis("total_seq_len")>>,
                        past |-> <<Value(2), Value(1), Value(2), Axis("past_seq_len"), Value(2)>>],
            weights |-> [wte |-> <<7, 4>>, w1 |-> <<4, 4>>, w2 |-> <<4, 4>>, bias |-> <<4>>],
            nodes |-> <<Node("EmbedLayerNormalization", <<"ids", "wte">>, <<"e">>),
                        Node("Gemm", <<"e", "w1">>, <<"a">>), Node("SkipLayerNormalization", <<"e", "a">>, <<"s", "t">>),
                        Node("Gemm", <<"s", "w2">>, <<"h">>), Node("BiasGelu", <<"h", "bias">>, <<"k">>),
                        Node("SkipLayerNormalization", <<"s", "k">>, <<"o">>),
                        Node("Cast", <<"o">>, <<"c">>)>>]
OnnxSetup == [mode |-> "onnx", model |-> Gpt, max_batch |-> 0, dram |-> 0, requests |-> <<>>, nets |-> [cnn |-> Cnn, decoder |-> Decoder]]

MCServingSetups ==
    {LangSetup("simple", Gpt, 2, 0), LangSetup("iter", Llama, 2, 0), LangSetup("iter", Gpt, 0, 0),
     LangSetup("iter", Gpt, 2, 530), OnnxSetup}
=============================================================================
