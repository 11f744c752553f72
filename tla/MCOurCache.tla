----------------------------- MODULE MCOurCache -----------------------------
(***************************************************************************)
(* A small instance of OurCache.  Lines of 2 bytes and 2 ways; three       *)
(* caches of 1, 2 and 4 sets, or fully associative with 2, 4 and 8 ways.   *)
(***************************************************************************)
EXTENDS OurCache

MCBlkSize == 2
MCAssoc == 2
MCSizes == <<4, 8, 16>>

\* Blocks 0, 1, 2, 4 and 6: three of them meet in a set of every cache, and
\* five in a fully associative one of 4 ways.  Shorter traces use both
\* addresses of block 0.
MCTraces == [1 .. 6 -> {1, 2, 5, 8, 12}] \union [1 .. 4 -> {0, 1, 4, 8}]

\* No second argument, and a switch turned off and on.
MCArguments == {<<>>, <<0>>, <<1>>}

\* Leftover memory: the tag of a block of the trace, and a late timestamp.
MCGarbage == {[tag |-> 0, timestamp |-> 9, valid |-> FALSE]}
=============================================================================
