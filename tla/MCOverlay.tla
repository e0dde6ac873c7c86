------------------------------ MODULE MCOverlay -----------------------------
(***************************************************************************)
(* The parts of the AHASD overlay that share no state: EDC, which plans    *)
(* the drafts, TVC, which inserts pre-verifications, and the PIM path of a *)
(* memory channel.  Each behaviour exercises one of them.                  *)
(***************************************************************************)
EXTENDS MCDraftControl, MCVerifyControl, MCPIMChannel

CONSTANT Parts   \* of "draft", "verify" and "channel"

VARIABLE part
overlayVars == <<controlVars, vcVars, pimVars, part>>

OverlayInit == part \in Parts /\ ControlInit /\ VcInit /\ PIMInit
OverlayNext ==
    /\ UNCHANGED part
    /\ \/ part = "draft" /\ ControlNext /\ UNCHANGED <<vcVars, pimVars>>
       \/ part = "verify" /\ VcNext /\ UNCHANGED <<controlVars, pimVars>>
       \/ part = "channel" /\ PIMNext /\ UNCHANGED <<controlVars, vcVars>>
OverlaySpec == OverlayInit /\ [][OverlayNext]_overlayVars

\* Neither controller sees which request it serves.
OverlaySymmetry == RequestSymmetry \cup ClientSymmetry
=============================================================================
