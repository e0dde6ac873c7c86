------------------------------ MODULE Operations ------------------------------
(***************************************************************************)
(* How the layers of a network become tiles (ONNXim/src/operations and     *)
(* Mapping.cc).  A layer is cut into tiles by a mapping computed from the  *)
(* sizes of the scratchpads; a tile is a program of loads, computations    *)
(* and stores.  The programs are pure functions of the layer and are       *)
(* written that way below; the machine at the end runs them on the cores   *)
(* the tiles are assigned to, with the allocation rules of Core and Sram.  *)
(*                                                                         *)
(* An element is one byte (precision 1) and a DRAM request moves `Access'  *)
(* of them.  Pooling fused into a convolution, dilations and the NCHW      *)
(* layout are left out.                                                    *)
(***************************************************************************)
EXTENDS Integers, Sequences, SequencesExt, FiniteSetsExt

CONSTANTS Workloads,  \* the layers considered: records with an op and its sizes
          NumCores,   \* num_cores
          Dim,        \* core_height = core_width
          Access,     \* dram_req_size
          SpadBytes,  \* half of spad_size, the part one tile may use
          AccBytes    \* half of accum_spad_size

ASSUME OperationsAssumption ==
    /\ {NumCores, Dim, Access, SpadBytes, AccBytes} \subseteq Nat \ {0}
    /\ Dim % Access = 0    \* no two blocks of an output share a request

CeilDiv(a, b) == (a + b - 1) \div b
MinOf(a, b) == IF a < b THEN a ELSE b
align_address(a) == a - (a % Access)

\* for (x = 0; x < n; x += step), and the length of the block at offset off.
Steps(n, step) == [i \in 1 .. CeilDiv(n, step) |-> (i - 1) * step]
Span(off, step, total) == MinOf(step, total - off)
For(xs, Body(_)) == FlattenSeq([i \in DOMAIN xs |-> Body(xs[i])])
\* Nested loops of these lengths: the tuples of their counters, in order.
Nest(lengths) ==
    FoldLeft(LAMBDA counters, n : For(counters, LAMBDA t : [i \in 1 .. n |-> Append(t, i - 1)]), <<<<>>>>, lengths)

\* Operation::make_address: <<operand, offset>>; an index out of bounds throws.
Thrown == -1
make_address(operand, index, dims) ==
    <<operand, IF \E i \in DOMAIN dims : index[i] >= dims[i] THEN Thrown
               ELSE align_address(FoldLeft(LAMBDA a, i : a * dims[i] + index[i], 0,
                                           [i \in DOMAIN dims |-> i]))>>

(* Instructions.  A scratchpad address is <<"spad" or "acc", offset>>.     *)
Spad(a) == <<"spad", a>>
Acc(a) == <<"acc", a>>
MovIn(dst, addrs) ==
    [op |-> "MOVIN", dst |-> dst, size |-> Cardinality(addrs), srcs |-> {}, addrs |-> addrs, k |-> 0]
MovOut(dst, addrs) ==
    [op |-> "MOVOUT", dst |-> dst, size |-> Cardinality(addrs), srcs |-> {}, addrs |-> addrs, k |-> 0]
Compute(dst, size, srcs, k) ==
    [op |-> "COMPUTE", dst |-> dst, size |-> size, srcs |-> srcs, addrs |-> {}, k |-> k]
Abort == [op |-> "ABORT", dst |-> Spad(0), size |-> 0, srcs |-> {}, addrs |-> {}, k |-> 0]

-----------------------------------------------------------------------------
(* Mapping.cc: the Gemmini mapping of a matrix product I x K by K x J.     *)
Side(mats) == CHOOSE s \in 1 .. mats : s * s <= mats /\ (s + 1) * (s + 1) > mats
\* The number of tiles along one dimension that the buffers need.
TilesAlong(n, mats) == MinOf(CeilDiv(n, Dim), CeilDiv(n, mats * Dim))
\* More tiles for the idle cores, along the longer of the two dimensions.
Spread(t, I, J, factor, more) ==
    IF J > I /\ J > NumCores THEN [t EXCEPT !.J = @ * factor + more]
    ELSE IF I > J /\ I > NumCores THEN [t EXCEPT !.I = @ * factor + more] ELSE t
\* Mutant of Inner: the tile is not rounded down to a multiple of the array.
InnerUneven(n, tiles) == CeilDiv(n, tiles)
Inner(n, tiles) ==
    LET inner == CeilDiv(CeilDiv(n, Dim) * Dim, tiles) IN inner - (inner % Dim)

gemm_mapping(I, K, J) ==
    LET side == Side(AccBytes \div (4 * Dim * Dim))
        first == [I |-> TilesAlong(I, side), J |-> TilesAlong(J, side)]
        n1 == first.I * first.J
        wide == IF n1 >= NumCores THEN first
                ELSE Spread(first, I, J, CeilDiv(NumCores, n1), 0)
        n2 == wide.I * wide.J
        even == IF n2 % NumCores = 0 THEN wide
                ELSE Spread(wide, I, J, 1, n2 % NumCores)
        inN == Inner(I, even.I)
        inM == Inner(J, even.J)
        inC == Inner(K, TilesAlong(K, SpadBytes \div (2 * Dim * Dim * side)))
    IN [in |-> [N |-> inN, C |-> inC, M |-> inM],
        out |-> [N |-> CeilDiv(I, inN), C |-> CeilDiv(K, inC), M |-> CeilDiv(J, inM)]]

(* Mapping.cc: the mapping of a convolution; its seven arguments are the   *)
(* batch, output rows, columns and channels, kernel rows and columns, and  *)
(* input channels of one tile.                                             *)
OutDim(l) == (l.H + 2 * l.pad - l.K) \div l.stride + 1
SpadRows(l, a) ==
    LET half == IF l.stride = 2 /\ l.K = 1 /\ l.pad = 0 THEN 2 ELSE 1
        irows == (a[2] * l.stride + a[5] - 1) \div half
        icols == (a[3] * l.stride + a[6] - 1) \div half
    IN CeilDiv(a[7], Dim) * a[1] * irows * icols + CeilDiv(a[4], Dim) * a[6] * a[5] * a[7]
AccRows(a) == CeilDiv(a[4], Dim) * a[1] * a[2] * a[3]
FitsRows(l, a) == SpadRows(l, a) <= SpadBytes \div Dim /\ AccRows(a) <= AccBytes \div (Dim * 4)

RECURSIVE Shrink(_, _)
Shrink(l, a) ==
    IF FitsRows(l, a) THEN a
    ELSE LET kept == {i \in 1 .. 7 : ~(i = 3 /\ a[3] <= Dim /\ a[2] > 1)}
             big == CHOOSE i \in kept : \A j \in kept : a[j] < a[i] \/ (a[j] = a[i] /\ i <= j)
             less == IF big \notin {4, 7} THEN a[big] - 1
                     ELSE IF a[big] % Dim # 0 THEN (a[big] \div Dim) * Dim ELSE a[big] - Dim
         IN Shrink(l, [a EXCEPT ![big] = IF less = 0 /\ big \in {4, 7} THEN 1 ELSE less])
\* The columns grow back first, then whatever still fits, one at a time.
RECURSIVE GrowColumns(_, _, _)
GrowColumns(l, a, most) ==
    LET b == [a EXCEPT ![3] = @ + 1]
    IN IF b[3] > most[3] \/ ~FitsRows(l, b) THEN a ELSE GrowColumns(l, b, most)
TileBytes(l, a) ==
    a[1] * a[4] * a[5] * a[6] * a[7] + a[1] * (a[2] + 2 * l.pad) * (a[3] + 2 * l.pad) * a[7]
RECURSIVE GrowAny(_, _, _)
GrowAny(l, a, most) ==
    LET One(x, i) == IF /\ x[i] < most[i] /\ FitsRows(l, [x EXCEPT ![i] = @ + 1])
                        /\ (TileBytes(l, x) * 3) \div 2 <= SpadBytes
                     THEN [x EXCEPT ![i] = @ + 1] ELSE x
        b == FoldLeft(One, a, <<1, 2, 3, 4, 5, 6, 7>>)
    IN IF b = a THEN a ELSE GrowAny(l, b, most)

conv_mapping(l) ==
    LET most == <<1, OutDim(l), OutDim(l), l.M, l.K, l.K, l.C>>
        a == GrowAny(l, GrowColumns(l, Shrink(l, most), most), most)
    IN [in |-> [N |-> a[1], C |-> a[7], M |-> a[4], S |-> a[5], R |-> a[6], Q |-> a[3], P |-> a[2]],
        out |-> [N |-> CeilDiv(l.N, a[1]), C |-> CeilDiv(l.C, a[7]), M |-> CeilDiv(l.M, a[4]),
                 S |-> CeilDiv(l.K, a[5]), R |-> CeilDiv(l.K, a[6]),
                 Q |-> CeilDiv(OutDim(l), a[3]), P |-> CeilDiv(OutDim(l), a[2])]]

-----------------------------------------------------------------------------
(* GemmWS.cc: one tile of a product N x C by C x M with an optional bias.  *)
(* The tile accumulates over c; the loads come first, then the products,   *)
(* and the tile with the last of the C dimension stores the result.        *)
GemmFrame(l, map, n, m, c) ==
    LET in == map.in
        nOff == n * in.N
        mOff == m * in.M
    IN [in |-> in, nOff |-> nOff, mOff |-> mOff, cOff |-> c * in.C, cIn |-> Span(c * in.C, in.C, l.C),
        mSteps |-> Steps(MinOf(in.M, l.M - mOff), Dim), nSteps |-> Steps(MinOf(in.N, l.N - nOff), Dim),
        nLoop |-> [ns \in 0 .. in.N |-> Span(nOff + ns, Dim, l.N)],
        mLoop |-> [ms \in 0 .. in.M |-> Span(mOff + ms, Dim, l.M)]]
ActAt(f, ns) == Spad(ns * f.in.C)
WeightAt(f, ms) == Spad(f.in.N * f.in.C + ms * f.in.C)
OutAt(f, ns, ms) == Acc(ns * f.in.M + ms)
Block(operand, rowOff, rows, colOff, cols, dims) ==
    {make_address(operand, <<rowOff + r, colOff + x>>, dims) :
        r \in 0 .. rows - 1, x \in {y \in 0 .. cols - 1 : y % Access = 0}}

GemmLoads(l, f) ==
    LET Activations(ns) ==
            <<MovIn(ActAt(f, ns), Block("in", f.nOff + ns, f.nLoop[ns], f.cOff, f.cIn, <<l.N, l.C>>))>>
        Bias(ms) ==
            <<MovIn(Acc(ms), {<<"bias", align_address(f.mOff + ms + x)>> :
                                x \in {y \in 0 .. f.mLoop[ms] - 1 : y % Access = 0}})>>
        Weights(ms) ==
            <<MovIn(WeightAt(f, ms), Block("weight", f.mOff + ms, f.mLoop[ms], f.cOff, f.cIn, <<l.M, l.C>>))>>
    IN For(f.mSteps, LAMBDA ms :
           (IF f.cOff = 0 /\ l.bias THEN Bias(ms) ELSE <<>>) \o Weights(ms)
           \o (IF ms = 0 THEN For(f.nSteps, Activations) ELSE <<>>))
GemmProducts(l, f) ==
    For(f.mSteps, LAMBDA ms : For(f.nSteps, LAMBDA ns : For(Steps(f.cIn, Dim), LAMBDA ci :
        <<Compute(OutAt(f, ns, ms), f.nLoop[ns], {ActAt(f, ns), WeightAt(f, ms)}, Span(ci, Dim, f.cIn))>>)))
GemmStores(l, f) ==
    IF f.cOff + f.in.C < l.C THEN <<>>
    ELSE For(f.mSteps, LAMBDA ms : For(f.nSteps, LAMBDA ns :
             <<MovOut(OutAt(f, ns, ms), Block("out", f.nOff + ns, f.nLoop[ns],
                                              f.mOff + ms, f.mLoop[ms], <<l.N, l.M>>))>>))
GemmTile(l, f) == GemmLoads(l, f) \o GemmProducts(l, f) \o GemmStores(l, f)

\* The accumulating tiles of one output stay on one core.
RoundRobin(tiles) ==
    [i \in DOMAIN tiles |->
        [tiles[i] EXCEPT !.core = (Cardinality({x \in 1 .. i : ~tiles[x].accum}) - 1) % NumCores]]
TileOf(accum, insts) ==
    IF insts = <<>> THEN <<>> ELSE <<[accum |-> accum, core |-> 0, insts |-> insts]>>

GemmTiles(l) ==
    LET map == gemm_mapping(l.N, l.C, l.M)
    IN RoundRobin(For(Nest(<<map.out.N, map.out.M, map.out.C>>), LAMBDA t :
           TileOf(t[3] # 0, GemmTile(l, GemmFrame(l, map, t[1], t[2], t[3])))))

-----------------------------------------------------------------------------
(* ConvWS.cc: a convolution, with im2col implied by the addresses.         *)
make_activation_address(operand, n, h, w, ch, dims) ==
    <<operand, align_address(((n * dims[2] + h) * dims[3] + w) * dims[4] + ch)>>
\* The weights of a block of output channels lie side by side, padded to the array.
make_weight_address(l, s, r, m, ch) ==
    LET padded == CeilDiv(l.C, Dim) * Dim
    IN <<"weight", align_address(((m \div Dim) * l.K * l.K + s * l.K + r) * padded + ch)>>
InDims(l) == <<l.N, l.H, l.H, l.C>>
OutDims(l) == <<l.N, OutDim(l), OutDim(l), l.M>>

ConvFrame(l, map, at) ==
    LET in == map.in
        off == [x \in DOMAIN in |-> at[x] * in[x]]
        total == [N |-> l.N, C |-> l.C, M |-> l.M, S |-> l.K, R |-> l.K,
                  Q |-> OutDim(l), P |-> OutDim(l)]
        Blocks(x) == Steps(MinOf(in[x], total[x] - off[x]), Dim)
    IN [in |-> in, off |-> off, inside |-> \A x \in DOMAIN in : off[x] < total[x],
        last |-> \A x \in {"C", "R", "S"} : at[x] = map.out[x] - 1,
        inH |-> (in.Q - 1) * l.stride + l.K, inW |-> (in.P - 1) * l.stride + l.K,
        blocks |-> [x \in {"M", "Q", "P"} |-> Blocks(x)],
        size |-> [x \in {"M", "C", "Q", "P"} |->
                    [s \in 0 .. in[x] |-> MinOf(Span(off[x] + s, Dim, total[x]), in[x] - s)]],
        \* The weight blocks in order: <<channel block, s, r, input channel block>>.
        kernel |-> For(Nest(<<Len(Blocks("M")), in.S, in.R, Len(Blocks("C"))>>), LAMBDA t :
                      <<<<t[1] * Dim, t[2], t[3], t[4] * Dim>>>>)]
KernelAt(f, i) ==
    Spad(align_address(f.in.N * f.inH * f.inW * f.in.C + Dim * Dim *
         ((i - 1) * f.in.S * f.in.R + f.kernel[i][2] * f.in.R + f.kernel[i][3])))
MapAt(f, qs, ps, ms) ==
    Acc(make_activation_address("out", 0, qs, ps, ms, <<f.in.N, f.in.Q, f.in.P, f.in.M>>)[2])

ConvActivations(l, f) ==
    LET side == (l.K - 1) \div 2
        places == {<<f.off.Q - side + h, f.off.P - side + w>> :
                      h \in {x \in 0 .. f.inH - 1 : x % l.stride = 0},
                      w \in {x \in 0 .. f.inW - 1 : x % l.stride = 0}}
                  \cap ((0 .. l.H - 1) \X (0 .. l.H - 1))
    IN <<MovIn(Spad(0), {make_activation_address("in", f.off.N, p[1], p[2], ch, InDims(l)) :
                            p \in places, ch \in f.off.C .. MinOf(f.off.C + f.in.C, l.C) - 1})>>
ConvWeights(l, f) ==
    For([i \in DOMAIN f.kernel |-> i], LAMBDA i :
        LET b == f.kernel[i]
        IN <<MovIn(KernelAt(f, i),
                 {make_weight_address(l, f.off.S + b[2], f.off.R + b[3], f.off.M + b[1] + m, f.off.C + b[4] + ch) :
                     m \in 0 .. f.size.M[b[1]] - 1, ch \in 0 .. f.size.C[b[4]] - 1})>>)
ConvProducts(l, f) ==
    For([i \in DOMAIN f.kernel |-> i], LAMBDA i :
        For(f.blocks.Q, LAMBDA qs : For(f.blocks.P, LAMBDA ps :
            <<Compute(MapAt(f, qs, ps, f.kernel[i][1]), (f.size.Q[qs] * f.size.P[ps]) \div Access,
                      {Spad(0), KernelAt(f, i)}, f.size.C[f.kernel[i][4]])>>)))
ConvStores(l, f) ==
    IF ~f.last THEN <<>>
    ELSE For(f.blocks.Q, LAMBDA qs : For(f.blocks.P, LAMBDA ps : For(f.blocks.M, LAMBDA ms :
             <<MovOut(MapAt(f, qs, ps, ms),
                   {make_activation_address("out", f.off.N, f.off.Q + qs + q, f.off.P + ps + p,
                                            f.off.M + ms + m, OutDims(l)) :
                       q \in 0 .. f.size.Q[qs] - 1, p \in 0 .. f.size.P[ps] - 1,
                       m \in 0 .. Span(f.off.M + ms, Dim, l.M) - 1})>>)))
ConvTile(l, f) ==
    IF ~f.inside THEN <<>>
    ELSE ConvActivations(l, f) \o ConvWeights(l, f) \o ConvProducts(l, f) \o ConvStores(l, f)

ConvTiles(l) ==
    LET map == conv_mapping(l)
        out == map.out
    IN RoundRobin(For(Nest(<<out.N, out.P, out.Q, out.M, out.S, out.R, out.C>>), LAMBDA t :
           TileOf(t[5] # 0 \/ t[6] # 0 \/ t[7] # 0,
                  ConvTile(l, ConvFrame(l, map, [N |-> t[1], P |-> t[2], Q |-> t[3], M |-> t[4],
                                                 S |-> t[5], R |-> t[6], C |-> t[7]])))))

-----------------------------------------------------------------------------
(* SkipLayerNorm, BiasAct, BiasGelu and Softmax: rows of tokens, each tile *)
(* a run of whole tokens; `seq' and `batch' are _seq and _batch_size.      *)
TokenOps == {"SkipLayerNorm", "BiasAct", "BiasGelu", "Softmax"}
\* These store to the addresses they loaded from.
InPlace == {"SkipLayerNorm", "Softmax"}
Rows(operand, start, bytes) == {<<operand, start + o>> : o \in {x \in 0 .. bytes - 1 : x % Access = 0}}
TokenRows(l, operand, first, n) == Rows(operand, first * l.dk, n * l.dk)

\* calculate_loops: how many tokens a tile takes; SkipLayerNorm and BiasAct
\* give every core two tiles when there are fewer.
Spread2(l, most) == IF CeilDiv(l.seq, most) < NumCores * 2 THEN CeilDiv(l.seq, NumCores * 2) ELSE most
LayerNormTokens(l) == Spread2(l, MinOf(SpadBytes \div (2 * l.dk), l.seq * l.batch))
SoftmaxTokens(l) == MinOf(SpadBytes \div (2 * l.dk), l.seq)
\* Mutant of BiasGeluTokens: no room is kept for the bias.
BiasGeluTokensFull(l) == MinOf(SpadBytes \div l.dk, l.seq * l.batch)
BiasGeluTokens(l) == MinOf(SpadBytes \div l.dk - 1, l.seq * l.batch)
BiasActTokens(l) == Spread2(l, MinOf(SpadBytes \div l.dk - 1, l.seq * l.batch))

LayerNormTile(l, first, n) ==
    LET at == Spad(0)
        skip == Spad(n * l.dk)
    IN <<MovIn(at, TokenRows(l, "in", first, n)), MovIn(skip, TokenRows(l, "skip", first, n)),
         Compute(at, l.dk, {at}, 0), Compute(at, n * l.dk, {at, skip}, 0),
         MovOut(at, TokenRows(l, "in", first, n))>>
SoftmaxTile(l, first, n) ==
    LET at == Spad(0)
    IN <<MovIn(at, TokenRows(l, "in", first, n)), Compute(at, l.dk, {at}, 0),
         MovOut(at, TokenRows(l, "in", first, n))>>
\* The bias is read behind the end of as many rows as the input has.
WithBias(l, n) ==
    <<MovIn(Spad(n * l.dk), Rows("bias", l.seq * l.dk, l.dk)),
      Compute(Spad(0), (l.dk * n) \div Access, {Spad(0), Spad(n * l.dk)}, 0)>>
BiasGeluTile(l, first, n) ==
    <<MovIn(Spad(0), TokenRows(l, "in", first, n))>> \o WithBias(l, n)
    \o <<Compute(Spad(0), (l.dk * n) \div Access, {Spad(0)}, 0), MovOut(Spad(0), TokenRows(l, "out", first, n))>>
BiasActTile(l, first, n) ==
    LET width == IF l.gated THEN l.dk \div 2 ELSE l.dk
        act == Compute(Spad(0), (width * n) \div Access, {Spad(0)}, 0)
    IN <<MovIn(Spad(0), TokenRows(l, "in", first, n))>>
       \o (IF l.bias THEN WithBias(l, n) ELSE <<>>)
       \o (IF l.gated THEN <<act, act>> ELSE <<act>>) \o <<MovOut(Spad(0), TokenRows(l, "out", first, n))>>

\* initialize_tiles: runs of `per' tokens, the last one cut; one tile each.
TokenRuns(total, per) ==
    LET firsts == Steps(total, per)
    IN [i \in DOMAIN firsts |-> <<firsts[i], Span(firsts[i], per, total)>>]
LayerNormTiles(l) ==
    RoundRobin(For(TokenRuns(l.seq * l.batch, LayerNormTokens(l)),
                   LAMBDA r : TileOf(FALSE, LayerNormTile(l, r[1], r[2]))))
SoftmaxTiles(l) ==
    RoundRobin(For(TokenRuns(l.seq, SoftmaxTokens(l)),
                   LAMBDA r : TileOf(FALSE, SoftmaxTile(l, r[1], r[2]))))
BiasGeluTiles(l) ==
    RoundRobin(For(TokenRuns(l.seq * l.batch, BiasGeluTokens(l)),
                   LAMBDA r : TileOf(FALSE, BiasGeluTile(l, r[1], r[2]))))
BiasActTiles(l) ==
    RoundRobin(For(TokenRuns(l.seq * l.batch, BiasActTokens(l)),
                   LAMBDA r : TileOf(FALSE, BiasActTile(l, r[1], r[2]))))

-----------------------------------------------------------------------------
(* Attention.cc: the fused attention of a language model.  A tile computes *)
(* the heads of one key-value head for a block of queries against a block  *)
(* of keys, with the running softmax in the accumulator.                   *)
HeadsPerKv(l) == l.heads \div l.kv
AttentionLoops(l) ==
    LET perQuery == HeadsPerKv(l) * l.dk
        chunks == Max({CeilDiv(l.seq, AccBytes), CeilDiv(2 * l.seq * l.dk, SpadBytes - perQuery)})
        qFit == Min({l.q, AccBytes \div ((l.seq + 8) * HeadsPerKv(l)),
                     (SpadBytes - 2 * l.seq * l.dk) \div perQuery})
    IN IF chunks > 1 THEN [q |-> 1, s |-> CeilDiv(l.seq, chunks), N |-> l.q * l.kv]
       ELSE [q |-> qFit, s |-> l.seq, N |-> CeilDiv(l.q, qFit) * l.kv]

AttentionFrame(l, loops, n, m) ==
    LET hpk == HeadsPerKv(l)
        q == loops.q
        s == loops.s
        head == (n \div (loops.N \div l.kv)) * hpk
        kvHead == head \div l.kv
        keys == q * l.dk * hpk
    IN [hpk |-> hpk, q |-> q, s |-> s, m |-> m, head |-> head, kvHead |-> kvHead,
        qOff |-> n % (loops.N \div l.kv), heads |-> Steps(hpk, 1), last |-> m = CeilDiv(l.seq, s) - 1,
        k |-> Spad(keys + kvHead * l.dk * s),
        v |-> Spad(keys + l.dk * s * CeilDiv(hpk, l.kv) + kvHead * l.dk * s)]
QueryAt(l, f, h) == Spad(h * f.q * l.dk)
LogitsAt(f, h) == Acc(h * f.q * f.s)                          \* the logits, then the output
SumsAt(f, h) == Acc(h * f.q * f.s + f.hpk * f.q * f.s)        \* running maxima and sums

AttentionLoads(l, f) ==
    LET KeyValue(operand) ==
            {make_address(operand, <<f.kvHead, x, i>>, <<l.kv, l.seq, l.dk>>) :
                x \in {y \in 0 .. f.s - 1 : f.m * f.s + y < l.seq}, i \in 0 .. l.dk - 1}
        Query(h) ==
            <<MovIn(QueryAt(l, f, h), {make_address("in", <<f.head + h, x, i>>, <<l.heads, l.q, l.dk>>) :
                 x \in {y \in f.qOff * f.q .. f.qOff * f.q + f.q - 1 : y < l.q}, i \in 0 .. l.dk - 1})>>
    IN <<MovIn(f.k, KeyValue("key"))>> \o For(f.heads, Query) \o <<MovIn(f.v, KeyValue("value"))>>
\* query x key, then the softmax of a head, then logits x value.
AttentionLogits(l, f) ==
    For(Steps(f.s, Dim), LAMBDA sb : For(Steps(l.dk, Dim), LAMBDA kb : For(f.heads, LAMBDA h :
        <<Compute(LogitsAt(f, h), f.q \div Access, {QueryAt(l, f, h), f.k}, 0)>>)))
AttentionSoftmax(l, f) ==
    LET logits == [h \in 0 .. f.hpk - 1 |-> LogitsAt(f, h)]
        sums == [h \in 0 .. f.hpk - 1 |-> SumsAt(f, h)]
        Work(dst, srcs) == Compute(dst, (f.q * f.s) \div Access, srcs, 0)
    IN For(f.heads, LAMBDA h :
           <<Work(sums[h], {logits[h]}), Work(logits[h], {logits[h], sums[h]}), Work(logits[h], {logits[h]}),
             Work(sums[h], {logits[h]}), Work(sums[h], {sums[h]}), Work(logits[h], {sums[h]}),
             Work(logits[h], {logits[h], sums[h]})>>)
AttentionWeighted(l, f) ==
    For(Steps(l.dk, Dim), LAMBDA kb : For(Steps(f.s, Dim), LAMBDA sb : For(f.heads, LAMBDA h :
        <<Compute(LogitsAt(f, h), f.q \div Access, {LogitsAt(f, h), f.v}, 0)>>)))
AttentionStores(l, f) ==
    IF ~f.last THEN <<>>
    ELSE For(f.heads, LAMBDA h :
        <<Compute(LogitsAt(f, h), l.q \div Access, {SumsAt(f, h)}, 0),
          Compute(LogitsAt(f, h), (l.q * l.dk) \div Access, {LogitsAt(f, h), SumsAt(f, h)}, 0),
          MovOut(LogitsAt(f, h), {make_address("out", <<x, f.head + h, i>>, <<l.seq, l.heads, l.dk>>) :
             x \in {y \in f.m * f.q .. f.m * f.q + f.q - 1 : y < l.q}, i \in 0 .. l.dk - 1})>>)
AttentionTile(l, f) ==
    IF f.hpk > l.kv THEN <<Abort>>
    ELSE AttentionLoads(l, f) \o AttentionLogits(l, f) \o AttentionSoftmax(l, f)
         \o AttentionWeighted(l, f) \o AttentionStores(l, f)

AttentionTiles(l) ==
    LET loops == AttentionLoops(l)
    IN RoundRobin(For(Steps(loops.N, 1), LAMBDA n : For(Steps(CeilDiv(l.seq, loops.s), 1), LAMBDA m :
           TileOf(m # 0, AttentionTile(l, AttentionFrame(l, loops, n, m))))))

(* KVCacheConcat.cc: the new keys and values go to the cache, the queries  *)
(* to the attention.  The requests of the batch own the tokens in turn; a  *)
(* tile covers every token from its first one on.                          *)
Tokens(l) == FoldLeft(LAMBDA a, n : a + n, 0, l.lens)
Owners(l, n) ==
    LET One(acc, t) ==
            LET own == Append(acc.own, <<acc.batch, acc.index>>)
            IN IF acc.index >= l.lens[acc.batch] THEN [batch |-> acc.batch + 1, index |-> 1, own |-> own]
               ELSE [acc EXCEPT !.index = @ + 1, !.own = own]
    IN FoldLeft(One, [batch |-> 1, index |-> 0, own |-> <<>>], [t \in 1 .. n |-> t]).own
ConcatTile(l, idx) ==
    LET per == 2 * l.cache + l.hidden
        first == idx * CeilDiv(SpadBytes, per)
        mine == first .. Tokens(l) - 1
        own == Owners(l, Cardinality(mine))
        Aligned(rows) == {<<r[1], align_address(r[2])>> : r \in rows}
        Cache(b) == UNION {Aligned(Rows("key", (l.past + l.lens[b] + own[i][2]) * l.cache, l.cache)) :
                              i \in {x \in DOMAIN own : own[x][1] = b}}
        Store(b) == <<MovOut(Spad(0), Cache(b))>>
        batch == [b \in DOMAIN l.lens |-> b]
    IN <<MovIn(Spad(0), UNION {Aligned(Rows("in", t * per, per)) : t \in mine}),
         MovOut(Spad(0), UNION {Aligned(Rows("out", t * l.hidden, l.hidden)) : t \in mine})>>
       \o For(batch, Store) \o For(batch, Store)
ConcatTiles(l) ==
    LET per == 2 * l.cache + l.hidden
    IN RoundRobin(For(Steps(CeilDiv(Tokens(l) * per, SpadBytes), 1), LAMBDA idx :
           TileOf(FALSE, ConcatTile(l, idx))))

Lowered(l) ==
    CASE l.op = "Gemm" -> GemmTiles(l)
      [] l.op = "Conv" -> ConvTiles(l)
      [] l.op = "SkipLayerNorm" -> LayerNormTiles(l)
      [] l.op = "Softmax" -> SoftmaxTiles(l)
      [] l.op = "BiasGelu" -> BiasGeluTiles(l)
      [] l.op = "BiasAct" -> BiasActTiles(l)
      [] l.op = "Attention" -> AttentionTiles(l)
      [] l.op = "KVCacheConcat" -> ConcatTiles(l)

-----------------------------------------------------------------------------
(* The cores run the tiles they are given in order.                        *)
VARIABLES layer,   \* the layer that runs
          prog,    \* its tiles
          at,      \* per core, the tile it runs (0: none) and its next instruction
          bufs,    \* per core, the allocated addresses: address -> size in requests
          depth,   \* per core, how much of the contraction an accumulator holds
          ran,     \* the finished tiles
          read, written, twice  \* DRAM requests; output requests written more than once

opVars == <<layer, prog, at, bufs, depth, ran, read, written, twice>>
CoreIds == 0 .. NumCores - 1

OpInit ==
    /\ layer \in Workloads /\ prog = Lowered(layer)
    /\ at = [c \in CoreIds |-> [tile |-> 0, pc |-> 1]]
    /\ bufs = [c \in CoreIds |-> <<>>] /\ depth = [c \in CoreIds |-> <<>>]
    /\ ran = {} /\ read = {} /\ written = {} /\ twice = {}

InstAt(c) == prog[at[c].tile].insts[at[c].pc]
Busy(c) == at[c].tile # 0
Restricted(f, S) == [x \in S |-> f[x]]
Capacity(buffer) == IF buffer = "spad" THEN SpadBytes ELSE AccBytes
Held(c, buffer) == {a \in DOMAIN bufs[c] : a[1] = buffer}
Fits(c, dst, size) ==
    (MapThenSumSet(LAMBDA a : bufs[c][a], Held(c, dst[1])) + size) * Access <= Capacity(dst[1])

\* What Core and Sram accept: a load into a free address that fits, a
\* computation on operands that are there, a store of what is there.
Executable(c) ==
    LET i == InstAt(c) IN
    /\ i.op # "ABORT"
    /\ \A a \in i.addrs : a[2] # Thrown
    /\ i.srcs \subseteq DOMAIN bufs[c]
    /\ CASE i.op = "MOVIN" -> i.dst \notin DOMAIN bufs[c] /\ Fits(c, i.dst, i.size)
         [] i.op = "MOVOUT" -> i.dst \in DOMAIN bufs[c]
         [] OTHER -> i.dst \in DOMAIN bufs[c] \/ Fits(c, i.dst, i.size)

\* Core::issue: a new tile finds an empty scratchpad; the accumulator is
\* kept for a tile that accumulates.
StartTile(c) ==
    LET mine == {t \in DOMAIN prog : prog[t].core = c} \ ran IN
    /\ ~Busy(c) /\ mine # {}
    /\ at' = [at EXCEPT ![c] = [tile |-> Min(mine), pc |-> 1]]
    /\ LET kept == IF prog[Min(mine)].accum THEN Held(c, "acc") ELSE {}
       IN /\ bufs' = [bufs EXCEPT ![c] = Restricted(@, kept)]
          /\ depth' = [depth EXCEPT ![c] = Restricted(@, kept \cap DOMAIN @)]
    /\ UNCHANGED <<layer, prog, ran, read, written, twice>>

RunInst(c) ==
    /\ Busy(c) /\ Executable(c)
    /\ LET i == InstAt(c)
           t == at[c].tile
           last == at[c].pc = Len(prog[t].insts)
           held == IF i.dst \in DOMAIN bufs[c] THEN bufs[c][i.dst] ELSE i.size
           had == IF i.dst \in DOMAIN depth[c] THEN depth[c][i.dst] ELSE 0
       IN /\ at' = [at EXCEPT ![c] = IF last THEN [tile |-> 0, pc |-> 1] ELSE [@ EXCEPT !.pc = @ + 1]]
          /\ ran' = IF last THEN ran \cup {t} ELSE ran
          /\ bufs' = [bufs EXCEPT ![c] = [a \in DOMAIN @ \cup {i.dst} |-> IF a = i.dst THEN held ELSE @[a]]]
          /\ depth' = IF i.op # "COMPUTE" THEN depth
                      ELSE [depth EXCEPT ![c] = [a \in DOMAIN @ \cup {i.dst} |->
                                                   IF a = i.dst THEN had + i.k ELSE @[a]]]
          /\ read' = IF i.op = "MOVIN" THEN read \cup i.addrs ELSE read
          /\ written' = IF i.op = "MOVOUT" THEN written \cup i.addrs ELSE written
          /\ twice' = IF i.op = "MOVOUT" THEN twice \cup (i.addrs \cap written) ELSE twice
    /\ UNCHANGED <<layer, prog>>

OpNext == \E c \in CoreIds : StartTile(c) \/ RunInst(c)
OpSpec == OpInit /\ [][OpNext]_opVars

-----------------------------------------------------------------------------
\* No tile program of a layer aborts: no address is out of its tensor, no
\* load finds its place taken or no room, nothing uses what is not there
\* (the exits of Core::cycle and the asserts of Sram::prefetch).
Runnable == \A c \in CoreIds : Busy(c) => Executable(c)

\* The tensors of a layer, as the requests that cover them.
Whole(operand, elements) == {<<operand, a>> : a \in {x \in 0 .. elements - 1 : x % Access = 0}}
OutputCells(l) ==
    CASE l.op = "Gemm" -> Whole("out", l.N * l.M)
      [] l.op = "Conv" -> Whole("out", l.N * OutDim(l) * OutDim(l) * l.M)
      [] l.op \in TokenOps -> Whole("out", l.seq * l.batch * l.dk)
      [] l.op = "Attention" -> Whole("out", l.q * l.heads * l.dk)
      [] l.op = "KVCacheConcat" -> Whole("out", Tokens(l) * l.hidden)
Inputs(l) ==
    CASE l.op = "Gemm" -> Whole("in", l.N * l.C) \cup Whole("weight", l.M * l.C)
      [] l.op = "Conv" -> Whole("in", l.N * l.H * l.H * l.C)
      [] l.op \in TokenOps -> Whole("in", l.seq * l.batch * l.dk)
      [] l.op = "Attention" -> Whole("in", l.q * l.heads * l.dk)
      [] l.op = "KVCacheConcat" -> Whole("in", Tokens(l) * (2 * l.cache + l.hidden))

\* The tiles of a layer compute all of it.  A result is stored when, and only
\* when, the whole contraction has been accumulated in its place, over all the
\* tiles it was split into; and when the tiles are done, every element of the
\* inputs has been read and every element of the output written, once, and
\* nothing else of it.  The layers that store to the address of their input
\* are left out of the second part, and a gated BiasAct, which stores as many
\* elements as it read.
ComputesWhole ==
    /\ layer.op \in {"Gemm", "Conv"} =>
         \A c \in CoreIds : Busy(c) /\ InstAt(c).op = "MOVOUT" =>
           /\ InstAt(c).dst \in DOMAIN depth[c]
           /\ depth[c][InstAt(c).dst] =
                IF layer.op = "Gemm" THEN layer.C ELSE layer.C * layer.K * layer.K
    /\ ran = DOMAIN prog /\ layer.op \notin InPlace /\ ~(layer.op = "BiasAct" /\ layer.gated) =>
         /\ {a \in written : a[1] = "out"} = OutputCells(layer)
         /\ {a \in twice : a[1] = "out"} = {}
         /\ Inputs(layer) \subseteq read
=============================================================================
