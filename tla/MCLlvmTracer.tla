---------------------------- MODULE MCLlvmTracer ----------------------------
(***************************************************************************)
(* A small instance of LlvmTracer: a block that is not main's and one that *)
(* returns from main, each of up to three instructions.                    *)
(***************************************************************************)
EXTENDS LlvmTracer

I(kind, n) == [kind |-> kind, constants |-> n]

Phis == {<<>>, <<I("phi", 0)>>, <<I("phi", 0), I("phi", 0)>>, <<I("phi", 1)>>}
Bodies == {<<>>} \union
  [1 .. 1 -> {I("other", 0), I("other", 2), I("gep", 0), I("gep", 1), I("vectorGep", 0)}]
BlocksTo(end) == {p \o b \o <<I(end, n)>> : p \in Phis, b \in Bodies, n \in 0 .. 1}

MCPrograms ==
  {[loop |-> l, main |-> m] : l \in BlocksTo("branch"), m \in BlocksTo("return")}
MCMain == {"main"}
MCAddrs == {0, 1}
=============================================================================
