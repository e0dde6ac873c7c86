------------------------------- MODULE MCPIM -------------------------------
(***************************************************************************)
(* The parts of the PIM device that share no state in the model: the       *)
(* memory controller of a channel, the kernels on the PIM blocks of a      *)
(* rank, the gated tasks with the attention unit, and the address mapping  *)
(* with the clock.  Each behaviour exercises one part.                     *)
(***************************************************************************)
EXTENDS MCPIMMemory, MCPIMDevice, GatedTasks, AddressMap

VARIABLE part
pimDeviceVars == <<memVars, deviceVars, gtsVars, mapVars, part>>

MCJobs == <<[kind |-> "DRAFTING", cycles |-> 2], [kind |-> "DRAFTING", cycles |-> 0],
            [kind |-> "PRE_VERIFICATION", cycles |-> 3], [kind |-> "DRAFTING", cycles |-> 1]>>
MCAauOps == {[op |-> "GELU", elements |-> 17], [op |-> "REDUCTION_SUM", elements |-> 9]}
MCWidths == [chan |-> 1, rank |-> 1, bank |-> 2, group |-> 1, row |-> 2, col |-> 1]
MCClocks == {<<2, 5>>, <<5, 2>>, <<3, 3>>}

PIMDeviceInit ==
    /\ part \in {"memory", "device", "tasks", "map"}
    /\ MemInit /\ GtsInit
    /\ DeviceInit /\ (part # "device" => kernel = "relu")
    /\ MapInit(1 .. 8) /\ (part # "map" => scheme = 1 /\ clock = <<2, 5>>)

PIMDeviceNext ==
    /\ UNCHANGED part
    /\ \/ part = "memory" /\ MemNext /\ UNCHANGED <<deviceVars, gtsVars, mapVars>>
       \/ part = "device" /\ DeviceNext /\ UNCHANGED <<memVars, gtsVars, mapVars>>
       \/ part = "tasks" /\ GtsNext /\ UNCHANGED <<memVars, deviceVars, mapVars>>
       \/ part = "map" /\ MapNext /\ UNCHANGED <<memVars, deviceVars, gtsVars>>

\* The clock of the memory runs, the client adds its requests, the rank is
\* updated every cycle, and the host submits its tasks.
PIMDeviceSpec ==
    /\ PIMDeviceInit /\ [][PIMDeviceNext]_pimDeviceVars
    /\ (part = "memory" => []<><<mem'.due # mem.due>>_mem) /\ WF_memVars(part = "memory" /\ Add)
    /\ WF_gtsVars(part = "tasks" /\ Tick) /\ WF_gtsVars(part = "tasks" /\ Submit)

\* Every request of the channel is answered and every task completes.
PIMServes ==
    <>[]CASE part = "memory" -> ToSet(done) = Ids
          [] part = "tasks" -> Len(served) = Len(Jobs)
          [] OTHER -> TRUE
=============================================================================
