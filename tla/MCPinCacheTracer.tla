-------------------------- MODULE MCPinCacheTracer --------------------------
(***************************************************************************)
(* A small instance of PinCacheTracer: one unit in the ROI and one outside *)
(* of it, blocks of 2 bytes, caches of 1 and 2 sets of 2 ways.             *)
(***************************************************************************)
EXTENDS PinCacheTracer

Load == [syscall |-> FALSE, accesses |-> 1]
Arithmetic == [syscall |-> FALSE, accesses |-> 0]

MCProgram == [kernel |-> <<Load, Load>>, outside |-> <<Arithmetic>>]
MCRoiUnits == {"kernel"}
MCOtherUnits == {"outside"}

\* Blocks 0 (twice), 1, 2 and 4.
MCAddrs == {0, 1, 2, 4, 8}

MCSizes == <<4, 8>>
MCGarbage == {[tag |-> 0, timestamp |-> 9, valid |-> FALSE]}
=============================================================================
