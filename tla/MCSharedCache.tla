--------------------------- MODULE MCSharedCache ----------------------------
(***************************************************************************)
(* A small instance of SharedCache: 2 sets of 4 ways with lines of 2       *)
(* bytes.  icar's full iteration has 6 lines, all in set 0, its part 2,    *)
(* both in set 1.                                                          *)
(***************************************************************************)
EXTENDS SharedCache

\* Two pirates for up to three of the ways, one pirate where two were meant, and
\* numbers up to what the assertion of pirate() rejects.
MCExperiments ==
  [program : {"forkTest"}, team : {2}, stealWayNum : {0, 2, 3, 10}] \union
  [program : {"forkTest"}, team : {1}, stealWayNum : {2, 4}] \union
  [program : {"cachePirate"}, team : {1}, stealWayNum : {3, 4, 5}]
=============================================================================
