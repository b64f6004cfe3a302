------------------------------ MODULE MCAnchor ------------------------------
(* The instance of Anchor whose hypervisor takes fewer addresses in a run    *)
(* than the anchor does.                                                     *)
EXTENDS Anchor

TwoBlocks == <<1, 1, 2>>
=============================================================================
