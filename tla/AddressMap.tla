----------------------------- MODULE AddressMap -----------------------------
(***************************************************************************)
(* How MultiChannelMemorySystem splits an address into channel, rank,      *)
(* bank, row and column (AddressMapping.cpp, eight schemes), and how the   *)
(* ClockDomainCrosser turns cycles of the host into cycles of the memory   *)
(* (ClockDomain.cpp).                                                      *)
(***************************************************************************)
EXTENDS Integers, Sequences, FiniteSets, Functions

CONSTANTS Widths,   \* the bit widths: [chan, rank, bank, group, row, col]
          Clocks,   \* the pairs <<memory clock, host clock>> that can be set
          MaxCount  \* bound on the counters, for model checking only

ASSUME MapAssumption ==
    /\ DOMAIN Widths = {"chan", "rank", "bank", "group", "row", "col"}
    /\ \A f \in DOMAIN Widths : Widths[f] \in Nat
    /\ Widths.group <= Widths.bank
    /\ IsFiniteSet(Clocks) /\ Clocks \subseteq (Nat \ {0}) \X (Nat \ {0})

VARIABLES scheme, clock, counter1, counter2, calls
mapVars == <<scheme, clock, counter1, counter2, calls>>

-----------------------------------------------------------------------------
\* addressMapping takes the fields of a scheme from the low end of the address;
\* Scheme8 takes the bank in two parts, "low" and "group".
FieldsOf(s) ==
    CASE s = 1 -> <<"bank", "col", "row", "rank", "chan">>
      [] s = 2 -> <<"rank", "bank", "col", "row", "chan">>
      [] s = 3 -> <<"row", "col", "bank", "rank", "chan">>
      [] s = 4 -> <<"col", "row", "bank", "rank", "chan">>
      [] s = 5 -> <<"bank", "rank", "col", "row", "chan">>
      [] s = 6 -> <<"col", "rank", "bank", "row", "chan">>
      [] s = 7 -> <<"chan", "bank", "rank", "col", "row">>
      [] s = 8 -> <<"chan", "low", "group", "col", "row", "rank">>
Width(f) == IF f = "low" THEN Widths.bank - Widths.group ELSE Widths[f]

\* diffBitWidth: the field above the ones taken before it.
Shift(fs, i) == SumFunction([j \in 1 .. i - 1 |-> Width(fs[j])])
FieldOf(s, addr, f) ==
    LET fs == FieldsOf(s)
        i == CHOOSE j \in DOMAIN fs : fs[j] = f
    IN  (addr \div 2^Shift(fs, i)) % 2^Width(f)

\* Mutant: the bank group is not moved above the bank bits.
BankUnshifted(s, addr) ==
    IF s = 8 THEN FieldOf(s, addr, "low") + FieldOf(s, addr, "group") ELSE FieldOf(s, addr, "bank")

BankOf(s, addr) ==
    IF s = 8 THEN FieldOf(s, addr, "low") + FieldOf(s, addr, "group") * 2^Width("low")
    ELSE FieldOf(s, addr, "bank")

Decode(s, addr) ==
    <<FieldOf(s, addr, "chan"), FieldOf(s, addr, "rank"), BankOf(s, addr),
      FieldOf(s, addr, "row"), FieldOf(s, addr, "col")>>

-----------------------------------------------------------------------------
MapInit(schemes) ==
    /\ scheme \in schemes /\ clock \in Clocks
    /\ counter1 = 0 /\ counter2 = 0 /\ calls = 0

\* Mutant: at most one memory cycle is run for a cycle of the host.
CyclesOnce(c1) == IF counter2 < c1 THEN 1 ELSE 0

\* The memory cycles that bring counter2 up to counter1.
Cycles(c1) == IF counter2 >= c1 THEN 0 ELSE (c1 - counter2 + clock[2] - 1) \div clock[2]

\* ClockDomainCrosser::update, one cycle of the host.
HostCycle ==
    LET c1 == counter1 + clock[1]
        n  == Cycles(c1)
        c2 == counter2 + n * clock[2]
    IN  /\ counter1 + clock[1] <= MaxCount
        /\ IF clock[1] = clock[2] THEN calls' = 1 /\ UNCHANGED <<counter1, counter2>>
           ELSE /\ calls' = n
                /\ counter1' = IF c1 = c2 THEN 0 ELSE c1
                /\ counter2' = IF c1 = c2 THEN 0 ELSE c2
        /\ UNCHANGED <<scheme, clock>>

\* setCPUClockSpeed keeps the counters.
SetClock ==
    /\ clock' \in Clocks \ {clock}
    /\ UNCHANGED <<scheme, counter1, counter2, calls>>

MapNext == HostCycle \/ SetClock

MapSpec(schemes) == MapInit(schemes) /\ [][MapNext]_mapVars

-----------------------------------------------------------------------------
(* Properties.                                                             *)

\* Every scheme gives different transactions different places, and all of
\* them within the configured numbers of channels, ranks, banks, rows and
\* columns.  The scheme never changes: TLC asks where the clocks have met.
AddrBits == Widths.chan + Widths.rank + Widths.bank + Widths.row + Widths.col
MappingBijective ==
    /\ Cardinality({Decode(scheme, a) : a \in 0 .. 2^AddrBits - 1}) = 2^AddrBits
    /\ \A a \in 0 .. 2^AddrBits - 1 : BankOf(scheme, a) < 2^Widths.bank
MappingHolds == calls # 0 /\ counter1 = 0 => MappingBijective

\* The memory never falls behind the host and is never a whole cycle ahead,
\* across changes of the host's clock too.
Slowest == CHOOSE n \in {c[2] : c \in Clocks} : \A c \in Clocks : c[2] <= n
NoDrift == counter2 - counter1 \in 0 .. Slowest - 1
=============================================================================
