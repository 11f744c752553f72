----------------------------- MODULE MCStatCache ----------------------------
(***************************************************************************)
(* Small instances of StatCache.                                           *)
(***************************************************************************)
EXTENDS StatCache

SeqsOf(S, lens) == UNION {[1 .. n -> S] : n \in lens}

\* Reuse distances: all traces of blocks 0 and 1, the former under two addresses,
\* and block 2.  The names of blocks do not matter, only which accesses are to the
\* same one: they are used for the first time in their order.
FirstUsesInOrder(t) ==
  \A k \in DOMAIN t : \A b \in 0 .. t[k] \div BlkSize - 1 :
    \E j \in 1 .. k - 1 : t[j] \div BlkSize = b

MCStatInputs ==
  [trace : {t \in SeqsOf({0, 1, 2, 4}, 1 .. 6) : FirstUsesInOrder(t)},
   doSample : {FALSE}, useTimeSlot : {0, 2, 3}]

\* Slots: only the lengths of the traces matter, some of which are longer than an
\* `unsigned' of 4 bits counts.
MCSlotInputs ==
  [trace : SeqsOf({0}, 0 .. 20), doSample : {FALSE}, useTimeSlot : {0, 1, 2, 3, 4, 7}]

\* Samples, and slots of them: only the positions in the trace matter, and in the
\* longer traces only how many of them there are.
MCSampleInputs ==
  [trace : SeqsOf({0}, 1 .. 20) \union {[k \in 1 .. n |-> k] : n \in 0 .. 8},
   doSample : {TRUE}, useTimeSlot : {0, 3}]

MCInputs == MCStatInputs \union MCSlotInputs \union MCSampleInputs

MCBeyond == {9}
MCSizes == <<2, 4, 5, 8>>
MCOneSize == <<2>>
=============================================================================
