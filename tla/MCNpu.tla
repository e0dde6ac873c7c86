------------------------------- MODULE MCNpu -------------------------------
(***************************************************************************)
(* The parts of the NPU simulator that share no state in the model: the    *)
(* core that runs the tiles, the tile programs the layers are lowered to,  *)
(* the tile scheduler, the models and requests it is given, and the way of *)
(* an access to memory.  Each behaviour exercises one part.                *)
(***************************************************************************)
EXTENDS MCCore, MCOperations, MCTileScheduler, MCServing, MCMemSystem

VARIABLE part
npuVars == <<coreVars, opVars, schedVars, svars, mvars, part>>

NpuInit ==
    /\ part \in {"core", "programs", "tiles", "serving", "memory"}
    /\ CoreInit
    /\ OpInit /\ (part # "programs" => layer.op = "KVCacheConcat")
    /\ SchedInit /\ (part # "tiles" => setup.policy = "simple")
    /\ SInit /\ (part # "serving" => serving.mode = "simple")
    /\ MInit /\ (part # "memory" => mem.channels = 1 /\ icnt.rr = 0 /\ dram.last = 0)

NpuNext ==
    /\ UNCHANGED part
    /\ \/ part = "core" /\ CoreNext /\ UNCHANGED <<opVars, schedVars, svars, mvars>>
       \/ part = "programs" /\ OpNext /\ UNCHANGED <<coreVars, schedVars, svars, mvars>>
       \/ part = "tiles" /\ SchedNext /\ UNCHANGED <<coreVars, opVars, svars, mvars>>
       \/ part = "serving" /\ SNext /\ UNCHANGED <<coreVars, opVars, schedVars, mvars>>
       \/ part = "memory" /\ MNext /\ UNCHANGED <<coreVars, opVars, schedVars, svars>>

\* The fairness of FairCoreSpec, FairSchedSpec, SSpec and MSpec.
NpuSpec ==
    /\ NpuInit /\ [][NpuNext]_npuVars
    /\ WF_coreVars(part = "core" /\ CycleWith(TRUE, TRUE)) /\ WF_coreVars(part = "core" /\ Respond)
    /\ []<>(part # "tiles" \/ pending = {})
    /\ WF_turn(part = "tiles" /\ turn' = (turn + 1) % CoreCount)
    /\ \A t \in UNION {ToSet(TilesOf(l)) : l \in Layers} : WF_schedVars(part = "tiles" /\ SomeTile(t))
    /\ WF_svars(part = "serving" /\ SNext)
    /\ WF_mvars(part = "memory" /\ Cycle)

\* The part that runs gets done: every tile the core is given finishes, every
\* model runs all of its passes, every request of a trace is served, and
\* every access a core asked for is answered.
NpuFinishes ==
    <>[]CASE part = "core" -> core.finished = Tiles /\ writes = 0
          [] part = "programs" -> TRUE
          [] part = "tiles" -> \A m \in Models : sched.passes[m] = 0
          [] part = "serving" -> Served
          [] part = "memory" -> \A c \in MemCores : Len(answered[c]) = asked[c]
=============================================================================
