---------------------------- MODULE MCTracePipe -----------------------------
(***************************************************************************)
(* A small instance of TracePipe: the guest of MCPinTracer, whose units    *)
(* keep to one side of the ROI.                                            *)
(***************************************************************************)
EXTENDS TracePipe, MCPinTracer
=============================================================================
