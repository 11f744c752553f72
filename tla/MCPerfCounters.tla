--------------------------- MODULE MCPerfCounters ---------------------------
(***************************************************************************)
(* A small instance of PerfCounters: room for two events, and one, two or  *)
(* three of them asked for.                                                *)
(***************************************************************************)
EXTENDS PerfCounters

MCConfigs == {1, 2, 3}
MCIds == {7, 8}
MCGarbage == {<<3, 0>>}
=============================================================================
