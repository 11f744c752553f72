----------------------------- MODULE MCPinTracer ----------------------------
(***************************************************************************)
(* Small instances of PinTracer.  The guest's units: a kernel with a       *)
(* syscall, code outside the ROI, and a library that both may call.        *)
(***************************************************************************)
EXTENDS PinTracer

Load == [syscall |-> FALSE, accesses |-> 1]
LoadAndStore == [syscall |-> FALSE, accesses |-> 2]
Arithmetic == [syscall |-> FALSE, accesses |-> 0]
Syscall == [syscall |-> TRUE, accesses |-> 0]

MCProgram ==
  [kernel |-> <<LoadAndStore, Syscall>>, loop |-> <<Load>>,
   outside |-> <<Load, Arithmetic>>]
MCRoiUnits == {"kernel", "loop"}
MCOtherUnits == {"outside"}

\* A guest whose library runs in the ROI and outside of it.
MCSharedProgram == [library |-> <<Load>>, outside |-> <<Arithmetic>>]
MCNone == {}

MCAddrs == {0, 1}
=============================================================================
