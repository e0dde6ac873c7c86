-------------------------------- MODULE TVC ---------------------------------
(***************************************************************************)
(* The time-aware pre-verification control                                 *)
(* (ONNXim/src/async_queue/TVC.h), as functions on its state: three        *)
(* sliding tables of cycle samples and the NPU progress register (NCR).    *)
(*                                                                         *)
(* Ratios are exact fractions <<n, d>> where the code has floats; the      *)
(* conversions to integers round down as the casts do.  Statistics, and    *)
(* the functions nothing calls, are left out.                              *)
(***************************************************************************)
EXTENDS Integers, Sequences, SequencesExt

CONSTANTS TableSize,          \* tvc_cycle_table_size (at least 1)
          FreqNum, FreqDen,   \* freq_ratio_: pim_freq_mhz / npu_freq_mhz
          MinPreVerify,       \* min_preverify_length
          PreVerifyMax        \* pre_verify_max

ASSUME TvcAssumption ==
    /\ {TableSize, FreqNum, FreqDen} \subseteq Nat \ {0}
    /\ {MinPreVerify, PreVerifyMax} \subseteq Nat

TvcFresh == [nvct |-> <<>>, pdct |-> <<>>, pvct |-> <<>>, ncr |-> 0, start |-> 0]

\* add_to_table: the oldest samples leave until there is room.
AddToTable(table, cycles, length) ==
    LET keep == IF Len(table) < TableSize THEN table
                ELSE SubSeq(table, Len(table) - TableSize + 2, Len(table))
    IN  Append(keep, [cycles |-> cycles, length |-> length])

Plus(a, b) == <<a[1] * b[2] + b[1] * a[2], a[2] * b[2]>>
Floor(a) == a[1] \div a[2]

Ratio(rec) == IF rec.length = 0 THEN <<0, 1>> ELSE <<rec.cycles, rec.length>>

\* calculate_avg_ratio: the mean of the samples' ratios, 0 of no samples.
AvgRatio(table) ==
    IF table = <<>> THEN <<0, 1>>
    ELSE LET sum == FoldLeft(Plus, <<0, 1>>, [i \in 1 .. Len(table) |-> Ratio(table[i])])
         IN  <<sum[1], sum[2] * Len(table)>>

RecordNpuVerification(t, cycles, kv) == [t EXCEPT !.nvct = AddToTable(@, cycles, kv)]
RecordPimDrafting(t, cycles, k) == [t EXCEPT !.pdct = AddToTable(@, cycles, k)]
RecordPimPreVerification(t, cycles, k) == [t EXCEPT !.pvct = AddToTable(@, cycles, k)]

StartNpuTask(t, now) == [t EXCEPT !.start = now, !.ncr = 0]

\* An unsigned subtraction in the code: a negative result would wrap.
UpdateNpuProgress(t, now) == [t EXCEPT !.ncr = now - t.start]

\* The predictions of should_insert_preverification.
PredictedNpuCycles(t, kv) ==
    LET r == AvgRatio(t.nvct) IN Floor(<<r[1] * kv * FreqNum, r[2] * FreqDen>>)
OneDraftCycles(t) == Floor(AvgRatio(t.pdct))

\* Cycles per pre-verified token; 80% of a draft when there is no sample.
PreVerifyRatio(t) ==
    LET r == AvgRatio(t.pvct)
        d == AvgRatio(t.pdct)
    IN  IF r[1] = 0 THEN <<d[1] * 4, d[2] * 5>> ELSE r

Clamp(lo, hi, x) == IF x < lo THEN lo ELSE IF x > hi THEN hi ELSE x

\* Mutant: the draft that follows the pre-verification is forgotten.
ShouldInsertNoDraft(t, kv, pending) ==
    LET left == PredictedNpuCycles(t, kv) - t.ncr
        r    == PreVerifyRatio(t)
        fits == (left * r[2]) \div r[1]
    IN  IF t.nvct = <<>> \/ t.pdct = <<>> \/ pending = 0 \/ left <= 0 THEN 0
        ELSE Clamp(1, 8, IF fits < pending THEN fits ELSE pending)

\* should_insert_preverification: the length, 0 for "do not insert".
ShouldInsert(t, kv, pending) ==
    LET busy == t.ncr + OneDraftCycles(t)
        left == PredictedNpuCycles(t, kv) - busy
        r    == PreVerifyRatio(t)
        fits == (left * r[2]) \div r[1]
    IN  IF t.nvct = <<>> \/ t.pdct = <<>> \/ pending = 0 \/ left <= 0 THEN 0
        ELSE Clamp(1, 8, IF fits < pending THEN fits ELSE pending)

\* AHASDIntegration::decide_pre_verify: 0 for none, else a proper prefix of
\* the pending tokens whenever there are two.
DecidePreVerify(t, kv, pending) ==
    LET d == ShouldInsert(t, kv, pending)
        b == Clamp(0, IF PreVerifyMax < pending THEN PreVerifyMax ELSE pending, d)
    IN  IF pending < MinPreVerify THEN 0
        ELSE IF b >= pending /\ pending > 1 THEN pending - 1 ELSE b
=============================================================================
