---------------------------- MODULE DecodeService ---------------------------
(***************************************************************************)
(* What the speculative scheduler promises a client, with no drafts, no    *)
(* verification models, no caches: requests are taken in their order, a    *)
(* request is prefilled once, its output then only ever grows, by at most  *)
(* MaxDraft tokens at a time, and it is done exactly when the output       *)
(* reaches the target length, which it never exceeds.                      *)
(***************************************************************************)
EXTENDS Naturals

CONSTANTS NumRequests, CachedLen, PromptLen, GenLen, MaxDraft

VARIABLES status,      \* request -> "waiting", "prefill", "decode" or "done"
          committed    \* request -> tokens of context and output

serviceVars == <<status, committed>>

Clients == 0 .. NumRequests - 1
Goal(r) == CachedLen[r] + PromptLen[r] + GenLen[r]

ServiceInit == /\ status = [r \in Clients |-> "waiting"]
               /\ committed = CachedLen

\* Take the next requests of the queue, in order.
Take ==
    \E n \in Clients :
        /\ \E r \in 0 .. n : status[r] = "waiting"
        /\ status' = [r \in Clients |->
                        IF r <= n /\ status[r] = "waiting" THEN "prefill"
                                                           ELSE status[r]]
        /\ UNCHANGED committed

Prefill(r) ==
    /\ status[r] = "prefill"
    /\ status' = [status EXCEPT ![r] = "decode"]
    /\ committed' = [committed EXCEPT ![r] = CachedLen[r] + PromptLen[r]]

\* Some speculated tokens survive verification.
Extend(r) ==
    /\ status[r] = "decode"
    /\ \E n \in 1 .. MaxDraft :
         /\ committed[r] + n < Goal(r)
         /\ committed' = [committed EXCEPT ![r] = @ + n]
    /\ UNCHANGED status

\* The last tokens.
Complete(r) ==
    /\ status[r] = "decode"
    /\ committed[r] + MaxDraft >= Goal(r)
    /\ committed' = [committed EXCEPT ![r] = Goal(r)]
    /\ status' = [status EXCEPT ![r] = "done"]

ServiceNext == Take \/ \E r \in Clients : Prefill(r) \/ Extend(r) \/ Complete(r)

ServiceSpec == ServiceInit /\ [][ServiceNext]_serviceVars
=============================================================================
