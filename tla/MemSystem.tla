----------------------------- MODULE MemSystem -----------------------------
(***************************************************************************)
(* The way of a memory access: from its core through the interconnect to   *)
(* the channel its address hashes to, and back (Simulator::cycle,          *)
(* Interconnect.cc, Dram.cc, Hashing.cc of ONNXim/src), with the three     *)
(* clock domains of Simulator::set_cycle_mask.                             *)
(*                                                                         *)
(* A setup is [cores, channels, latency, dram, dram_latency, capacity,     *)
(* periods, program]: dram is "simple" (SimpleDram) or "external" (a       *)
(* Ramulator of `capacity' accesses per channel, which serves them in any  *)
(* order); program gives each core its accesses [addr, write].  An address *)
(* is the set of the bits set in its line number.  Cycle counters are kept *)
(* as what is left to wait, since only differences matter.                 *)
(***************************************************************************)
EXTENDS Integers, Sequences, SequencesExt, FiniteSetsExt

CONSTANT MemSetups

ASSUME MemSystemAssumption ==
    \A s \in MemSetups :
        /\ s.cores \in Nat \ {0} /\ s.channels \in 1 .. 16 \cup {32, 64}
        /\ s.latency \in Nat /\ s.dram_latency \in Nat
        /\ s.program \in Seq(Seq([addr : SUBSET Nat, write : BOOLEAN])) /\ Len(s.program) = s.cores

VARIABLES mem,       \* the setup, never changed
          clock,     \* domain -> its time beyond the slowest one's
          asked,     \* core -> how many of its accesses it has requested
          requests,  \* core -> _request_queue
          icnt,      \* [in, out: node -> queue, rr: _rr_start, waited: node -> history]
          dram,      \* [waiting, response: channel -> queue, last: _last_finish_cycle]
          answered   \* core -> the accesses answered, a history
mvars == <<mem, clock, asked, requests, icnt, dram, answered>>

MemCores == 0 .. mem.cores - 1
Channels == 0 .. mem.channels - 1
Nodes == 0 .. mem.cores + mem.channels - 1
NodeOf(ch) == mem.cores + ch

-----------------------------------------------------------------------------
(* ipoly_hash_function: every bit of the index is the parity of some bits  *)
(* of the line number.                                                     *)
\* Mutant: one bit of the table is another one.
TapsSwapped(n) == <<{11, 10, 9, 8, 6, 4, 3, 0}, {12, 8, 7, 6, 5, 3, 1, 0}, {9, 8, 7, 6, 4, 2, 1}, {10, 9, 8, 7, 5, 2, 1}>>
Taps(n) ==
    CASE n = 16 -> <<{11, 10, 9, 8, 6, 4, 3, 0}, {12, 8, 7, 6, 5, 3, 1, 0}, {9, 8, 7, 6, 4, 2, 1},
                     {10, 9, 8, 7, 5, 3, 2}>>
      [] n = 32 -> <<{13, 12, 11, 10, 9, 6, 5, 3, 0}, {14, 13, 12, 11, 10, 7, 6, 4, 1},
                     {14, 10, 9, 8, 7, 6, 3, 2, 0}, {11, 10, 9, 8, 7, 4, 3, 1}, {12, 11, 10, 9, 8, 5, 4, 2}>>
      [] n = 64 -> <<{18, 17, 16, 15, 12, 10, 6, 5, 0}, {15, 13, 12, 11, 10, 7, 5, 1, 0},
                     {16, 14, 13, 12, 11, 8, 6, 2, 1}, {17, 15, 14, 13, 12, 9, 7, 3, 2},
                     {18, 16, 15, 14, 13, 10, 8, 4, 3}, {17, 16, 15, 14, 11, 9, 5, 4}>>
ipoly_hash_function(addr, n) ==
    LET new_index[i \in 0 .. Len(Taps(n))] ==
          IF i = 0 THEN 0
          ELSE new_index[i - 1] + (IF Cardinality(Taps(n)[i] \cap addr) % 2 = 1 THEN 2^(i - 1) ELSE 0)
    IN new_index[Len(Taps(n))]
\* Dram::get_channel_id
get_channel_id(addr) ==
    IF mem.channels >= 16 THEN ipoly_hash_function(addr, mem.channels)
    ELSE ipoly_hash_function(addr, 16) % mem.channels
\* The line number within the channel, DramRamulator2::push.
log2(n) == Max({k \in 0 .. 6 : 2^k <= n})
line_in_channel(addr) == {i - log2(mem.channels) : i \in {j \in addr : j >= log2(mem.channels)}}

-----------------------------------------------------------------------------
(* The interconnect.                                                       *)
\* SimpleInterconnect::push.  An entry that has been ready for longer than
\* one cycle waits -1: the next one behind it is ready at once.
icnt_push(n, src, dest, access) ==
    LET queue == n.in[src]
        left == IF queue = <<>> THEN mem.latency ELSE Last(queue).left + 1
    IN [n EXCEPT !.in[src] = Append(@, [access |-> access, dest |-> dest, left |-> left])]
icnt_pop(n, node) == [n EXCEPT !.out[node] = Tail(@)]

\* SimpleInterconnect::cycle: the nodes in turn from _rr_start, one delivery
\* per destination.
Ready(n, src) == n.in[src] # <<>> /\ Head(n.in[src]).left <= 0
Turn(n, src) == (src + Cardinality(Nodes) - n.rr) % Cardinality(Nodes)
Delivered(n) ==
    {src \in Nodes : Ready(n, src) /\ \A other \in Nodes :
        (Ready(n, other) /\ Head(n.in[other]).dest = Head(n.in[src]).dest) => Turn(n, src) <= Turn(n, other)}
\* Mutant: the turn stays with one node.
NextTurnFixed(rr) == rr
NextTurn(rr) == (rr + 1) % Cardinality(Nodes)
Aged(queue) == [i \in DOMAIN queue |-> [queue[i] EXCEPT !.left = IF @ > 0 THEN @ - 1 ELSE -1]]
icnt_cycle(n) ==
    LET moved == Delivered(n)
        Arrivals(node) == {src \in moved : Head(n.in[src]).dest = node}
    IN [in |-> [src \in Nodes |-> Aged(IF src \in moved THEN Tail(n.in[src]) ELSE n.in[src])],
        out |-> [node \in Nodes |-> IF Arrivals(node) = {} THEN n.out[node]
                                   ELSE Append(n.out[node], Head(n.in[CHOOSE src \in Arrivals(node) : TRUE]).access)],
        rr |-> NextTurn(n.rr),
        waited |-> [src \in Nodes |-> IF Ready(n, src) /\ src \notin moved THEN n.waited[src] + 1 ELSE 0]]

(* The memory.                                                             *)
is_full(d, ch) == mem.dram = "external" /\ Len(d.waiting[ch]) >= mem.capacity
\* SimpleDram::push: never earlier than the last one of any channel.
dram_push(d, ch, access) ==
    LET left == Max({mem.dram_latency, d.last})
    IN [d EXCEPT !.waiting[ch] = Append(@, [access |-> [access EXCEPT !.request = FALSE], left |-> left]),
                 !.last = left]
\* One access per channel and cycle; the external memory takes any.
dram_cycle(d) ==
    LET Waits(q) == [i \in DOMAIN q |-> [q[i] EXCEPT !.left = IF @ > 0 THEN @ - 1 ELSE 0]]
        Serve(ch) == IF d.waiting[ch] = <<>> THEN {0}
                     ELSE IF mem.dram = "external" THEN DOMAIN d.waiting[ch]
                     ELSE {IF Head(d.waiting[ch]).left <= 0 THEN 1 ELSE 0}
    IN {[waiting |-> [ch \in Channels |-> Waits(IF pick[ch] = 0 THEN d.waiting[ch] ELSE RemoveAt(d.waiting[ch], pick[ch]))],
         response |-> [ch \in Channels |-> IF pick[ch] = 0 THEN d.response[ch]
                                           ELSE Append(d.response[ch], d.waiting[ch][pick[ch]].access)],
         last |-> IF d.last > 0 THEN d.last - 1 ELSE 0] :
        pick \in {f \in [Channels -> 0 .. Max({0} \cup {Len(d.waiting[ch]) : ch \in Channels})] :
                    \A ch \in Channels : f[ch] \in Serve(ch)}}

-----------------------------------------------------------------------------
(* One iteration of Simulator::cycle.  A state of the transport is         *)
(* [requests, icnt, dram, answered].                                       *)
get_dest_node(access) == IF access.request THEN NodeOf(get_channel_id(access.addr)) ELSE access.core

CorePort(s, c) ==
    LET n == IF s.requests[c] = <<>> THEN s.icnt
             ELSE icnt_push(s.icnt, c, get_dest_node(Head(s.requests[c])), Head(s.requests[c]))
    IN [s EXCEPT !.requests[c] = IF @ = <<>> THEN @ ELSE Tail(@),
                 !.icnt = IF n.out[c] = <<>> THEN n ELSE icnt_pop(n, c),
                 !.answered[c] = IF n.out[c] = <<>> THEN @ ELSE Append(@, Head(n.out[c]))]
\* A request goes to the memory, then a response leaves it.
MemoryPort(s, ch) ==
    LET node == NodeOf(ch)
        takes == s.icnt.out[node] # <<>> /\ ~is_full(s.dram, ch)
        d == IF takes THEN dram_push(s.dram, ch, Head(s.icnt.out[node])) ELSE s.dram
        n == IF takes THEN icnt_pop(s.icnt, node) ELSE s.icnt
    IN IF d.response[ch] = <<>> THEN [s EXCEPT !.icnt = n, !.dram = d]
       ELSE [s EXCEPT !.icnt = icnt_push(n, node, get_dest_node(Head(d.response[ch])), Head(d.response[ch])),
                      !.dram = [d EXCEPT !.response[ch] = Tail(@)]]
\* Every port in turn: the cores', then the channels'.
Port(s, node) == IF node \in MemCores THEN CorePort(s, node) ELSE MemoryPort(s, node - mem.cores)
Ports(s) ==
    LET upto[k \in 0 .. Cardinality(Nodes)] == IF k = 0 THEN {s} ELSE {Port(t, k - 1) : t \in upto[k - 1]}
    IN upto[Cardinality(Nodes)]

\* set_cycle_mask: the domains that have fallen behind take a cycle.
Domains == {"core", "dram", "icnt"}
Mask == {x \in Domains : \A y \in Domains : clock[x] <= clock[y]}
Advanced ==
    LET next == [x \in Domains |-> clock[x] + (IF x \in Mask THEN mem.periods[x] ELSE 0)]
        low == Min({next[x] : x \in Domains})
    IN [x \in Domains |-> next[x] - low]

\* Core::running and Simulator::running: the interconnect and the memory
\* never count as running.
CoreRunning(c) == Len(answered[c]) < Len(mem.program[c + 1])
SimulatorRunning == \E c \in MemCores : CoreRunning(c)

\* In a core cycle a core may request some more of its accesses: those of
\* one load and one store (Core::handle_ld_inst_queue, handle_st_inst_queue).
Request(c, upto) ==
    requests[c] \o [i \in 1 .. upto - asked[c] |->
        LET access == mem.program[c + 1][asked[c] + i]
        IN [addr |-> access.addr, write |-> access.write, core |-> c, nr |-> asked[c] + i, request |-> TRUE]]
Demands ==
    {f \in [MemCores -> UNION {0 .. Len(mem.program[c + 1]) : c \in MemCores}] :
        \A c \in MemCores : /\ asked[c] <= f[c]
                            /\ f[c] <= Len(mem.program[c + 1])
                            /\ "core" \in Mask \/ f[c] = asked[c]}
Cycle ==
    /\ SimulatorRunning
    /\ clock' = Advanced
    /\ \E upto \in Demands :
         /\ asked' = upto
         /\ \E d \in (IF "dram" \in Mask THEN dram_cycle(dram) ELSE {dram}) :
            \E s \in {[requests |-> [c \in MemCores |-> Request(c, upto[c])], icnt |-> icnt, dram |-> d, answered |-> answered]} :
            \E t \in (IF "icnt" \in Mask THEN Ports(s) ELSE {s}) :
               /\ requests' = t.requests /\ dram' = t.dram /\ answered' = t.answered
               /\ icnt' = IF "icnt" \in Mask THEN icnt_cycle(t.icnt) ELSE t.icnt
    /\ UNCHANGED mem

\* _rr_start and _last_finish_cycle are never initialised: any start, and
\* no wait or one of LastBound.
LastBound == 2
MInit ==
    /\ mem \in MemSetups
    /\ clock = [x \in Domains |-> 0]
    /\ asked = [c \in MemCores |-> 0] /\ answered = [c \in MemCores |-> <<>>]
    /\ requests = [c \in MemCores |-> <<>>]
    /\ \E rr \in Nodes : icnt = [in |-> [n \in Nodes |-> <<>>], out |-> [n \in Nodes |-> <<>>], rr |-> rr,
                                 waited |-> [n \in Nodes |-> 0]]
    /\ \E last \in {0, LastBound} : dram = [waiting |-> [ch \in Channels |-> <<>>],
                                            response |-> [ch \in Channels |-> <<>>], last |-> last]
MNext == Cycle
MSpec == MInit /\ [][MNext]_mvars /\ WF_mvars(Cycle)

-----------------------------------------------------------------------------
(* Properties.                                                             *)

\* The head of an input buffer that is ready loses at most one turn to each
\* other node (SimpleInterconnect::cycle), wherever the turn started.
HeadWaits == \A n \in Nodes : icnt.waited[n] < Cardinality(Nodes)

\* Every answer is one the core asked for, comes once and back to its core,
\* with the simple memory the answers of one channel come in the order of
\* the requests, and no node is kept waiting by the others.
AnsweredInOrder ==
  /\ HeadWaits
  /\ \A c \in MemCores : \A i \in DOMAIN answered[c] :
        LET a == answered[c][i]
        IN /\ a.core = c /\ ~a.request /\ a.nr <= asked[c]
           /\ \A j \in 1 .. i - 1 :
                /\ answered[c][j].nr # a.nr
                /\ (mem.dram = "simple" /\ get_channel_id(answered[c][j].addr) = get_channel_id(a.addr)) =>
                      answered[c][j].nr < a.nr

\* With a power of two of channels no two lines fall on one line of one channel:
\* the channel is hashed from bits the memory then drops from the address
\* (Dram::get_channel_id, DramRamulator2::push).  With other counts two lines can
\* share one: the remainder of the hash and the truncated log2 do not fit.
LineBits == 0 .. 6 \cup {8, 12, 14}
IsPowerOfTwo(n) == n = 2^log2(n)
LinesApart ==
    \/ SimulatorRunning \/ icnt.rr # 0 \/ dram.last # 0   \* once per machine, on the idle ones
    \/ IsPowerOfTwo(mem.channels) =>
          Cardinality({<<get_channel_id(a), line_in_channel(a)>> : a \in SUBSET LineBits}) = 2 ^ Cardinality(LineBits)
=============================================================================
