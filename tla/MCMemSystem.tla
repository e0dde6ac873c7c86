----------------------------- MODULE MCMemSystem ----------------------------
(* Small machines for MemSystem.                                           *)
EXTENDS MemSystem

Line(addr, write) == [addr |-> addr, write |-> write]
\* Two cores that crowd a channel; in Crowd the first one nearly keeps it.
Pair == <<<<Line({}, FALSE), Line({1}, TRUE)>>, <<Line({0}, FALSE), Line({1}, FALSE)>>>>
Crowd == <<<<Line({}, FALSE), Line({1}, TRUE), Line({0}, FALSE)>>, <<Line({}, TRUE)>>>>
MemSetup(memory, channels, periods, program) ==
    [cores |-> Len(program), channels |-> channels, latency |-> 1, dram |-> memory, dram_latency |-> 1, capacity |-> 1,
     periods |-> periods, program |-> program]
Periods(core, memory, net) == [core |-> core, dram |-> memory, icnt |-> net]
Small(n) == MemSetup("simple", n, Periods(1, 1, 1), <<<<>>>>)
MCMemSetups ==
    {MemSetup("simple", 2, Periods(1, 1, 1), Pair), MemSetup("external", 2, Periods(2, 1, 2), Pair),
     MemSetup("simple", 1, Periods(2, 3, 2), Crowd)}
    \cup {Small(2^k) : k \in 1 .. 6}
=============================================================================
