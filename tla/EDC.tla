-------------------------------- MODULE EDC ---------------------------------
(***************************************************************************)
(* The entropy-history-aware drafting control                              *)
(* (ONNXim/src/async_queue/EDC.h), as functions on its state: a ring of    *)
(* entropy buckets (LEHT) with a committed copy (LCEHT), the leading       *)
(* length register (LLR), a table of 2-bit counters (PHT) and the          *)
(* predictions that wait for the outcome of a verification.                *)
(*                                                                         *)
(* One poll is asked for every token of a round, several in one call of    *)
(* the scheduler, so the operations map a state to a state.  An entropy is *)
(* its bucket, 0 .. 7.  The PHT keeps only the counters that were ever     *)
(* trained; the others are WEAKLY_TAKEN.  The statistics are left out, and *)
(* reset(), which nothing calls.                                           *)
(***************************************************************************)
EXTENDS Integers, Sequences, SequencesExt

CONSTANTS LehtSize,     \* edc_leht_size
          LlrBits       \* edc_llr_bits

ASSUME EdcAssumption == LehtSize \in Nat \ {0} /\ LlrBits \in 1 .. 8

Buckets == 0 .. 7
WEAKLY_TAKEN == 2
STRONGLY_TAKEN == 3
LlrMax == 2 ^ LlrBits - 1
\* compute_pht_size; the cap of 16 bits is never reached with LlrBits <= 8.
PhtSize == 2 ^ (6 + LlrBits)
Slots == 0 .. LehtSize - 1

EdcFresh ==
    [leht |-> [i \in Slots |-> 0], ptr |-> 0,
     lceht |-> [i \in Slots |-> 0], commitPtr |-> 0,
     llr |-> 0, pht |-> <<>>, pending |-> <<>>]

\* The mean, rounded down, of the slots from a to b-1 (0 if there are none).
Average(leht, a, b) ==
    IF b <= a THEN 0
    ELSE FoldLeft(+, 0, [i \in 1 .. b - a |-> leht[a + i - 1]]) \div (b - a)

\* calculate_pht_index: {average of the upper half, of the lower half, LLR}.
PhtIndex(leht, llr) ==
    LET half == IF LehtSize \div 2 > 1 THEN LehtSize \div 2 ELSE 1
        low  == Average(leht, 0, half)
        high == Average(leht, half, LehtSize)
    IN  ((high * 8 + low) * 2 ^ LlrBits + llr) % PhtSize

Counter(pht, i) == IF i \in DOMAIN pht THEN pht[i] ELSE WEAKLY_TAKEN

\* should_continue_drafting(): the state after the poll, and its answer,
\* which is the last prediction pushed.
Poll(e, bucket) ==
    LET leht == [e.leht EXCEPT ![e.ptr] = bucket]
        llr  == IF e.llr < LlrMax THEN e.llr + 1 ELSE e.llr
        i    == PhtIndex(leht, llr)
    IN  [e EXCEPT !.leht = leht, !.llr = llr,
                  !.ptr = (e.ptr + 1) % LehtSize,
                  !.pending = Append(@, [index |-> i,
                                         go |-> Counter(e.pht, i) >= WEAKLY_TAKEN])]
Continues(e) == Last(e.pending).go

\* update_counter
Trained(c, taken) == IF taken THEN (IF c < STRONGLY_TAKEN THEN c + 1 ELSE c)
                              ELSE (IF c > 0 THEN c - 1 ELSE c)

\* Mutant: the last prediction of a fully accepted round counts as wrong.
TrainedPhtStrict(e, full, accepted) ==
    FoldLeftDomain(
        LAMBDA pht, i :
            LET x == e.pending[i].index
                c == Trained(Counter(pht, x), accepted > i)
            IN  [j \in DOMAIN pht \cup {x} |-> IF j = x THEN c ELSE pht[j]],
        e.pht, e.pending)

\* The training loop of update_on_verification over the pending predictions:
\* the i-th is right when the token after the i-th one was accepted.
TrainedPht(e, full, accepted) ==
    FoldLeftDomain(
        LAMBDA pht, i :
            LET x == e.pending[i].index
                c == Trained(Counter(pht, x), full \/ accepted > i)
            IN  [j \in DOMAIN pht \cup {x} |-> IF j = x THEN c ELSE pht[j]],
        e.pht, e.pending)

\* Mutants: the rollback forgets the ring pointer; the LLR is only decremented
\* (as docs/HardwareComponents.md describes it); the predictions of a rejected
\* round are not forgotten.
UpdateKeepsPtr(e, full, accepted) ==
    LET trained == [e EXCEPT !.pht = TrainedPht(e, full, accepted),
                             !.pending = <<>>, !.llr = 0]
    IN  IF full THEN [trained EXCEPT !.lceht = e.leht, !.commitPtr = e.ptr]
                ELSE [trained EXCEPT !.leht = e.lceht]
UpdateDecrements(e, full, accepted) ==
    LET trained == [e EXCEPT !.pht = TrainedPht(e, full, accepted),
                             !.pending = <<>>, !.llr = IF @ > 0 THEN @ - 1 ELSE 0]
    IN  IF full THEN [trained EXCEPT !.lceht = e.leht, !.commitPtr = e.ptr]
                ELSE [trained EXCEPT !.leht = e.lceht, !.ptr = e.commitPtr]
UpdateKeepsPending(e, full, accepted) ==
    LET trained == [e EXCEPT !.pht = TrainedPht(e, full, accepted), !.llr = 0]
    IN  IF full THEN [trained EXCEPT !.lceht = e.leht, !.commitPtr = e.ptr,
                                     !.pending = <<>>]
                ELSE [trained EXCEPT !.leht = e.lceht, !.ptr = e.commitPtr]

\* update_on_verification(): train, then commit the history or roll it back.
UpdateOnVerification(e, full, accepted) ==
    LET trained == [e EXCEPT !.pht = TrainedPht(e, full, accepted),
                             !.pending = <<>>, !.llr = 0]
    IN  IF full THEN [trained EXCEPT !.lceht = e.leht, !.commitPtr = e.ptr]
                ELSE [trained EXCEPT !.leht = e.lceht, !.ptr = e.commitPtr]
=============================================================================
