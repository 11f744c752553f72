--------------------------- MODULE ForkTestProofs ---------------------------
(***************************************************************************)
(* The safety of the Cache Pirate experiment, for every amount of work of  *)
(* the target, every associativity and every fault the model allows.       *)
(***************************************************************************)
EXTENDS ForkTest, TLAPS

\* The variables have their types: the experiment never reads a counter beyond
\* what the target can do, and the state of a process is one of wait(2)'s.
THEOREM TypeCorrect == Spec => []TypeOK
<1> USE ForkTestAssumption DEF TypeOK, ParentStates, Dead, NotForked, setting, events, counters
<1>1. Init => TypeOK
  <2> SUFFICES ASSUME Init
               PROVE  TypeOK
    OBVIOUS
  <2>1. mapped \in [0 .. 1 -> BOOLEAN] /\ pinned \in BOOLEAN
    <3>1. (IF HugePagesMayLack THEN BOOLEAN ELSE {TRUE}) \subseteq BOOLEAN
      BY Zenon
    <3>2. mapped \in [0 .. 1 -> IF HugePagesMayLack THEN BOOLEAN ELSE {TRUE}]
      BY DEF Init
    <3>3. pinned \in BOOLEAN
      BY Zenon DEF Init
    <3>4. QED
      BY <3>1, <3>2, <3>3
  <2>2. {work, coreBefore, sysBefore, coreAfter, sysAfter} \subseteq 0 .. Work /\ coreWork \in 0 .. work
    BY DEF Init
  <2>3. stealWayNum \in StealWayNums /\ team \in Teams
    BY DEF Init
  <2>4. /\ pc \in ParentStates /\ childPid \in {0, -1, TargetPid}
        /\ piratePid \in {0, -1, PiratePid}
        /\ target \in {NotForked, "forked", "running", "stopped"} \union Dead
        /\ pirate \in {NotForked, "forked", "killed"} \union Dead
        /\ stealing \subseteq 0 .. 1 /\ bystanders \in {"alive", "killed"}
        /\ stops \in 0 .. MaxStops
    BY DEF Init
  <2>5. QED
    BY <2>1, <2>2, <2>3, <2>4
<1>2. TypeOK /\ [Next]_vars => TypeOK'
  <2> SUFFICES ASSUME TypeOK, [Next]_vars
               PROVE  TypeOK'
    OBVIOUS
  <2>1. CASE Target
    <3>1. CASE Exec
      BY <3>1 DEF Exec
    <3>2. CASE TargetWorks
      BY <3>2 DEF TargetWorks
    <3>3. CASE TargetExits
      BY <3>3 DEF TargetExits
    <3>4. CASE TargetDies
      BY <3>4 DEF TargetDies
    <3>5. QED
      BY <2>1, <3>1, <3>2, <3>3, <3>4 DEF Target
  <2>2. CASE Signals
    <3>1. CASE TargetStops
      BY <3>1 DEF TargetStops
    <3>2. CASE TargetContinues
      BY <3>2 DEF TargetContinues
    <3>3. QED
      BY <2>2, <3>1, <3>2 DEF Signals
  <2>3. CASE Pirate
    <3>1. ASSUME NEW k \in 0 .. 1, ThreadBegins(k)
          PROVE  TypeOK'
      BY <3>1 DEF ThreadBegins
    <3>2. CASE PirateCrashes \/ PirateDies
      BY <3>2 DEF PirateCrashes, PirateDies
    <3>3. QED
      BY <2>3, <3>1, <3>2 DEF Pirate
  <2>4. CASE ForkTarget \/ Program \/ ForkPirate
    <3>1. CASE ForkTarget
      BY <3>1 DEF ForkTarget
    <3>2. CASE Program
      BY <3>2 DEF Program
    <3>3. CASE ForkPirate
      BY <3>3 DEF ForkPirate
    <3>4. QED
      BY <2>4, <3>1, <3>2, <3>3
  <2>5. CASE ReadCoresBefore \/ ReadSystemBefore \/ ReadCoresAfter \/ ReadSystemAfter
    <3>1. CASE ReadCoresBefore
      BY <3>1 DEF ReadCoresBefore
    <3>2. CASE ReadSystemBefore
      BY <3>2 DEF ReadSystemBefore
    <3>3. CASE ReadCoresAfter
      BY <3>3 DEF ReadCoresAfter
    <3>4. CASE ReadSystemAfter
      BY <3>4 DEF ReadSystemAfter
    <3>5. QED
      BY <2>5, <3>1, <3>2, <3>3, <3>4
  <2>6. CASE Wait
    BY <2>6 DEF Wait, Waits, AnyChild
  <2>7. CASE Kill
    BY <2>7 DEF Kill
  <2>8. CASE UNCHANGED vars
    BY <2>8 DEF vars
  <2>9. QED
    BY <2>1, <2>2, <2>3, <2>4, <2>5, <2>6, <2>7, <2>8 DEF Next, Parent
<1>3. QED
  BY <1>1, <1>2, PTL DEF Spec

-----------------------------------------------------------------------------
(* The inductive invariant.                                                *)

BeforePirate == {"forkTarget", "program", "forkPirate"}
AfterWait == {"kill", "coresAfter", "systemAfter", "done"}
AfterKill == {"coresAfter", "systemAfter", "done"}

\* What the parent knows of its children is what it was told by fork.
Children ==
  /\ childPid = 0 <=> pc = "forkTarget"
  /\ target = NotForked <=> childPid # TargetPid
  /\ piratePid = 0 <=> pc \in BeforePirate
  /\ pirate = NotForked <=> piratePid # PiratePid

\* Only a wait for any child reaps the pirate; no signal is sent before the kill.
Signalled ==
  /\ pirate = "reaped" => childPid = -1
  /\ pirate = "killed" => pc \in AfterKill
  /\ bystanders = "killed" => pc \in AfterKill /\ ~Forked
  /\ target = "stopped" => stops > 0

\* Only a crash or the kill ends a pirate that was forked.
Alive == AbleToSteal /\ childPid # -1 /\ pirate # "forked" /\ pirate # NotForked => pc \in AfterKill

\* With two successful forks the wait returns when the target is dead.
WaitedFor == Forked /\ stops = 0 /\ pc \in AfterWait => target \in Dead

\* The cores that are read see every event of a target that stays on its core.
Cores == pinned => coreWork = work

\* Each reading is of the work there was, in the order of the readings; after
\* the death of the target the readings are of all of it.
Readings ==
  /\ coreBefore <= coreWork /\ sysBefore <= work /\ coreAfter <= coreWork /\ sysAfter <= work
  /\ pc \in {"wait"} \union AfterWait => coreBefore <= sysBefore
  /\ pc = "done" => coreAfter <= sysAfter
  /\ Forked /\ stops = 0 =>
       /\ pc \in {"systemAfter", "done"} => coreAfter = coreWork
       /\ pc = "done" => sysAfter = work

IInv == Children /\ Signalled /\ Alive /\ WaitedFor /\ Cores /\ Readings

LEMMA InductiveInit == Init => IInv
  BY ForkTestAssumption DEF Init, IInv, Children, Signalled, Alive, WaitedFor, Cores, Readings,
     BeforePirate, AfterWait, AfterKill, Forked, NotForked

\* No step of the experiment breaks the inductive invariant.
LEMMA InductiveStep == TypeOK /\ IInv /\ [Next]_vars => IInv'
<1> SUFFICES ASSUME TypeOK, IInv, [Next]_vars
             PROVE  IInv'
  OBVIOUS
<1> USE ForkTestAssumption DEF TypeOK, ParentStates, IInv, Children, Signalled, WaitedFor,
        Alive, Cores, Readings, BeforePirate, AfterWait, AfterKill, Forked, NotForked, Dead,
        AbleToSteal, Rejected, Faults, waysToSteal, setting, events, counters
<1>1. CASE Exec
  BY <1>1 DEF Exec
<1>2. CASE TargetWorks
  BY <1>2 DEF TargetWorks
<1>3. CASE TargetExits
  BY <1>3 DEF TargetExits
<1>4. CASE TargetStops
  BY <1>4 DEF TargetStops
<1>5. CASE TargetContinues
  BY <1>5 DEF TargetContinues
<1>6. ASSUME NEW k \in 0 .. 1, ThreadBegins(k)
      PROVE  IInv'
  BY <1>6 DEF ThreadBegins
<1>7. CASE PirateCrashes \/ PirateDies
  BY <1>7 DEF PirateCrashes, PirateDies, Takes
<1>8. CASE ForkTarget
  BY <1>8 DEF ForkTarget
<1>9. CASE Program
  BY <1>9 DEF Program
<1>10. CASE ForkPirate
  BY <1>10 DEF ForkPirate
<1>11. CASE ReadCoresBefore
  BY <1>11 DEF ReadCoresBefore
<1>12. CASE ReadSystemBefore
  BY <1>12 DEF ReadSystemBefore
<1>13. CASE Wait
  BY <1>13 DEF Wait, Waits, AnyChild
<1>14. CASE Kill
  BY <1>14 DEF Kill
<1>15. CASE ReadCoresAfter
  BY <1>15 DEF ReadCoresAfter
<1>16. CASE ReadSystemAfter
  BY <1>16 DEF ReadSystemAfter
<1>17. CASE UNCHANGED vars
  BY <1>17 DEF vars
<1>18. CASE TargetDies
  BY <1>18 DEF TargetDies
<1>19. QED
  BY <1>1, <1>2, <1>3, <1>4, <1>5, <1>6, <1>7, <1>8, <1>9, <1>10, <1>11, <1>12, <1>13,
     <1>14, <1>15, <1>16, <1>17, <1>18 DEF Next, Parent, Target, Pirate, Signals

LEMMA InductiveCorrect == Spec => []IInv
  BY InductiveInit, InductiveStep, TypeCorrect, PTL DEF Spec

\* KillsPirateOnly: with two successful forks kill() has the pirate's pid, and
\* the pirate was not reaped, so that no other process can have got it.
THEOREM KillsPirateOnlyCorrect == Spec => []KillsPirateOnly
<1>1. TypeOK /\ IInv => KillsPirateOnly
  BY DEF TypeOK, IInv, Signalled, KillsPirateOnly
<1>2. QED
  BY <1>1, TypeCorrect, InductiveCorrect, PTL

\* MeasuresToTheEnd: with two successful forks and a target that nobody stopped, a
\* pirate that is able to steal lives from its fork until the target is dead, no
\* pirate is signalled before, and the second readings are of all of the target's work.
THEOREM MeasuresToTheEndCorrect == Spec => []MeasuresToTheEnd
<1>1. TypeOK /\ IInv => MeasuresToTheEnd
  BY DEF TypeOK, ParentStates, IInv, Signalled, Alive, WaitedFor, Readings, AfterWait, AfterKill,
     Forked, MeasuresToTheEnd
<1>2. QED
  BY <1>1, TypeCorrect, InductiveCorrect, PTL

\* WindowsOverlap: the two windows of measurement open and close in this order,
\* so that what they disagree on is the target's work between their openings.
THEOREM WindowsOverlapCorrect == Spec => []WindowsOverlap
<1>1. TypeOK /\ IInv => WindowsOverlap
  BY ForkTestAssumption DEF TypeOK, IInv, Cores, Readings, AfterWait, WindowsOverlap
<1>2. QED
  BY <1>1, TypeCorrect, InductiveCorrect, PTL
=============================================================================
