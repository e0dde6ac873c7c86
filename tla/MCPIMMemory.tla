---------------------------- MODULE MCPIMMemory ----------------------------
(***************************************************************************)
(* A channel of two ranks with two banks each, and timing parameters small *)
(* but different from each other, so that every delay can be the binding   *)
(* one.                                                                    *)
(***************************************************************************)
EXTENDS PIMMemory

MCTiming == [AL |-> 0, RL |-> 3, WL |-> 2, half |-> 2, tCMD |-> 1, tRCDRD |-> 2, tRCDWR |-> 1,
             tRP |-> 2, tRAS |-> 4, tRC |-> 6, tRTPL |-> 3, tCCDL |-> 2, tCCDS |-> 1,
             tRRDL |-> 2, tRRDS |-> 1, tWR |-> 2, tWTRL |-> 2, tWTRS |-> 1, tRTRS |-> 1,
             tRFC |-> 4, tREFI |-> 24]

ASSUME MCTimes == DeviceTimes

Req(w, r, b, row, bar) ==
    [write |-> w, rank |-> r, bank |-> b, row |-> row, col |-> 0, bar |-> bar]

\* A write and a read of one cell with a barrier and a row conflict between,
\* and accesses to the other bank and the other rank that may overtake; the one
\* to the other rank names a row reserved for PIM registers, which the rank does
\* not check.
RegisterRow == 8192
MCRequests == <<Req(TRUE, 0, 0, 1, FALSE), Req(FALSE, 0, 0, 2, TRUE),
                Req(FALSE, 1, 0, RegisterRow, FALSE),
                Req(FALSE, 0, 1, 1, FALSE), Req(FALSE, 0, 0, 1, FALSE)>>
=============================================================================
