--------------------------- MODULE MCMachineTypes ---------------------------
(* Three configured types, one of them with a configured subtype of a vendor *)
(* and a subtype that is not configured, and a foreign type; all are below   *)
(* BaseObjectType.  A model of the vendor has two configured super types.    *)
EXTENDS MachineTypes, TLC

CONSTANTS base, tool, robot, vendor, model, other, foreign,
          null, unset, undefined

MCTypes == {base, tool, robot, vendor, model, other, foreign}
MCSuperOf == (base :> null) @@ (tool :> base) @@ (robot :> base)
               @@ (vendor :> tool) @@ (model :> vendor) @@ (other :> tool)
               @@ (foreign :> base)
MCKnown == <<robot, vendor, tool>>
=============================================================================
