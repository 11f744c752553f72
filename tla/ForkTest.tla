------------------------------ MODULE ForkTest ------------------------------
(***************************************************************************)
(* The Cache Pirate experiment, cache_pirate/forkTest.cc.  The parent      *)
(* forks the target program and then a pirate, which occupies ways of the  *)
(* shared cache for as long as it lives; it reads the performance counters *)
(* around its wait for the target, kills the pirate and reports the        *)
(* difference.  The processes run concurrently; forks may fail, the target *)
(* may be stopped by a signal, and the pirate may crash.  No return value  *)
(* of a fork, of waitpid or of kill is checked.                            *)
(***************************************************************************)
EXTENDS Integers, FiniteSets

CONSTANTS
  Work,          \* counted events of the target program
  Assoc,         \* _cacheAssoc of both CachePirates
  StealWayNums,  \* the values of stealWayNum
  Teams,         \* the sizes the OpenMP team of the pirate may have
  ForkMayFail, HugePagesMayLack, AffinityMayFail,   \* the faults that may occur
  MaxStops,      \* bound of the model: how often the target is stopped
  TargetPid, PiratePid                           \* pids; -1 is fork's failure

ASSUME ForkTestAssumption ==
  /\ Work \in Nat /\ Assoc \in Nat /\ MaxStops \in Nat /\ StealWayNums \subseteq Nat
  /\ Teams \subseteq Nat \ {0}
  /\ {ForkMayFail, HugePagesMayLack, AffinityMayFail} \subseteq BOOLEAN
  /\ TargetPid \in Nat \ {0} /\ PiratePid \in Nat \ {0} /\ TargetPid # PiratePid

VARIABLES
  pc,            \* where the parent is
  childPid, piratePid,
  target,        \* state of the target process
  pirate,        \* state of the pirate process
  stealWayNum,
  mapped,        \* mapped[k]: the mmap(MAP_HUGETLB) of CachePirate k succeeded
  team,          \* the number of threads of the pirate's team
  stealing,      \* the CachePirates (0 and 1) that a thread is looping over
  pinned,        \* the target's sched_setaffinity succeeded
  work,          \* events of the target so far ...
  coreWork,      \* ... and those on the cores that the parent reads
  coreBefore, sysBefore, coreAfter, sysAfter,   \* the counters as read
  bystanders,    \* processes of the user that are none of the three
  stops          \* how often the target was stopped

counters == <<coreBefore, sysBefore, coreAfter, sysAfter>>
setting == <<stealWayNum, mapped, team, pinned>>
events == <<work, coreWork>>
vars == <<pc, childPid, piratePid, target, pirate, setting, stealing, events,
          counters, bystanders, stops>>

NotForked == "notForked"
Dead == {"zombie", "reaped"}

Init ==
  /\ pc = "forkTarget"
  /\ childPid = 0 /\ piratePid = 0
  /\ target = NotForked /\ pirate = NotForked
  /\ stealWayNum \in StealWayNums
  /\ mapped \in [0 .. 1 -> IF HugePagesMayLack THEN BOOLEAN ELSE {TRUE}]
  /\ team \in Teams
  /\ pinned \in IF AffinityMayFail THEN BOOLEAN ELSE {TRUE}
  /\ stealing = {}
  /\ work = 0 /\ coreWork = 0
  /\ coreBefore = 0 /\ sysBefore = 0 /\ coreAfter = 0 /\ sysAfter = 0
  /\ bystanders = "alive"
  /\ stops = 0

-----------------------------------------------------------------------------
(* The target.  Its process exists before the parent has programmed the    *)
(* counters or forked the pirate, and waits for neither.                   *)

Exec ==
  /\ target = "forked"
  /\ target' \in {"running", "zombie"}      \* execve, or its failure and return
  /\ UNCHANGED <<pc, childPid, piratePid, pirate, setting, stealing, events,
                 counters, bystanders, stops>>

TargetWorks ==
  /\ target = "running"
  /\ work < Work
  /\ work' = work + 1
  /\ coreWork' \in {coreWork + 1} \union (IF pinned THEN {} ELSE {coreWork})
  /\ UNCHANGED <<pc, childPid, piratePid, target, pirate, setting, stealing,
                 counters, bystanders, stops>>

TargetExits ==
  /\ target = "running"
  /\ work = Work
  /\ target' = "zombie"
  /\ UNCHANGED <<pc, childPid, piratePid, pirate, setting, stealing, events,
                 counters, bystanders, stops>>

\* A SIGSTOP from outside, and a SIGCONT.
TargetStops ==
  /\ stops < MaxStops
  /\ target = "running"
  /\ target' = "stopped"
  /\ stops' = stops + 1
  /\ UNCHANGED <<pc, childPid, piratePid, pirate, setting, stealing, events,
                 counters, bystanders>>

TargetContinues ==
  /\ target = "stopped"
  /\ target' = "running"
  /\ UNCHANGED <<pc, childPid, piratePid, pirate, setting, stealing, events,
                 counters, bystanders, stops>>

\* A SIGKILL that was meant for everybody arrives, some time after kill().
TargetDies ==
  /\ piratePid = -1 /\ bystanders = "killed"
  /\ target \in {"forked", "running", "stopped"}
  /\ target' = "zombie"
  /\ UNCHANGED <<pc, childPid, piratePid, pirate, setting, stealing, events,
                 counters, bystanders, stops>>

-----------------------------------------------------------------------------
(* The pirate.                                                             *)

waysToSteal == stealWayNum \div 2     \* by each of the two CachePirates

Rejected == waysToSteal > Assoc              \* by the assertion of pirate()
Faults(k) == ~mapped[k] /\ waysToSteal > 0   \* the first read of data[]

\* A bug in Takes, a thread of the team that gets nothing.
TakesOneLess(k) == k \notin stealing /\ k < team - 1

\* Threads take the iterations of the parallel loop: each of two threads one,
\* and a thread that is alone the first, which never ends.
Takes(k) == k \notin stealing /\ k < team

\* A bug in ThreadBegins, pcp[i + 1].
ThreadBeginsAtNext(k) ==
  /\ pirate = "forked"
  /\ k \in 0 .. 1 /\ Takes(k)
  /\ stealing' = stealing \union {k + 1}
  /\ UNCHANGED <<pc, childPid, piratePid, target, pirate, setting, events,
                 counters, bystanders, stops>>

ThreadBegins(k) ==
  /\ pirate = "forked"
  /\ k \in 0 .. 1 /\ Takes(k)
  /\ ~Rejected /\ ~Faults(k)
  /\ stealing' = stealing \union {k}
  /\ UNCHANGED <<pc, childPid, piratePid, target, pirate, setting, events,
                 counters, bystanders, stops>>

PirateCrashes ==
  /\ pirate = "forked"
  /\ \E k \in 0 .. 1 : Takes(k) /\ (Rejected \/ Faults(k))
  /\ pirate' = "zombie"
  /\ stealing' = {}
  /\ UNCHANGED <<pc, childPid, piratePid, target, setting, events, counters,
                 bystanders, stops>>

\* SIGKILL is delivered some time after kill() returned.
PirateDies ==
  /\ pirate = "killed"
  /\ pirate' = "zombie"
  /\ stealing' = {}
  /\ UNCHANGED <<pc, childPid, piratePid, target, setting, events, counters,
                 bystanders, stops>>

-----------------------------------------------------------------------------
(* The parent.                                                             *)

\* The two outcomes of a fork: the parent is told a pid or -1, which is not 0
\* either, so that it goes on as the parent.
ForkTarget ==
  /\ pc = "forkTarget"
  /\ \/ target' = "forked" /\ childPid' = TargetPid
     \/ ForkMayFail /\ UNCHANGED target /\ childPid' = -1
  /\ pc' = "program"
  /\ UNCHANGED <<piratePid, pirate, setting, stealing, events, counters, bystanders, stops>>

\* PCM::program and the parent's affinity.
Program ==
  /\ pc = "program"
  /\ pc' = "forkPirate"
  /\ UNCHANGED <<childPid, piratePid, target, pirate, setting, stealing, events,
                 counters, bystanders, stops>>

ForkPirate ==
  /\ pc = "forkPirate"
  /\ \/ pirate' = "forked" /\ piratePid' = PiratePid
     \/ ForkMayFail /\ UNCHANGED pirate /\ piratePid' = -1
  /\ pc' = "coresBefore"
  /\ UNCHANGED <<childPid, target, setting, stealing, events, counters, bystanders, stops>>

ReadCoresBefore ==
  /\ pc = "coresBefore"
  /\ coreBefore' = coreWork
  /\ pc' = "systemBefore"
  /\ UNCHANGED <<childPid, piratePid, target, pirate, setting, stealing, events,
                 sysBefore, coreAfter, sysAfter, bystanders, stops>>

ReadSystemBefore ==
  /\ pc = "systemBefore"
  /\ sysBefore' = work
  /\ pc' = "wait"
  /\ UNCHANGED <<childPid, piratePid, target, pirate, setting, stealing, events,
                 coreBefore, coreAfter, sysAfter, bystanders, stops>>

\* Bugs in Waits: WNOHANG, and no WUNTRACED.
WaitsForNothing == TRUE
WaitsForExit == target = "zombie"

\* What waitpid returns for with WUNTRACED.
Waits == target \in {"zombie", "stopped"}

\* A bug in AnyChild, -1 passed for childPid.
AnyChildAlways == TRUE

\* A pid of -1 waits for whichever child ends first.
AnyChild == childPid = -1

\* waitpid(childPid, .., WUNTRACED) reaps the target or reports that it stopped;
\* waitpid(-1) does so for any child, or fails when there is none.
Wait ==
  /\ pc = "wait"
  /\ \/ /\ childPid = TargetPid
        /\ Waits
        /\ target' = IF target = "zombie" THEN "reaped" ELSE target
        /\ UNCHANGED pirate
     \/ /\ AnyChild
        /\ pirate = "zombie"
        /\ pirate' = "reaped"
        /\ UNCHANGED target
     \/ /\ childPid = -1
        /\ pirate = NotForked
        /\ UNCHANGED <<target, pirate>>
  /\ pc' = "kill"
  /\ UNCHANGED <<childPid, piratePid, setting, stealing, events, counters, bystanders, stops>>

\* A bug in Kill, the signal sent to childPid.
KillTarget ==
  /\ pc = "kill"
  /\ target' = IF target \in {"forked", "running", "stopped"} THEN "zombie" ELSE target
  /\ pc' = "coresAfter"
  /\ UNCHANGED <<childPid, piratePid, pirate, setting, stealing, events, counters,
                 bystanders, stops>>

\* kill(piratePid, SIGKILL); kill(-1, ..) goes to every process of the user but
\* the caller, and the pid of a reaped pirate may belong to another process.
Kill ==
  /\ pc = "kill"
  /\ \/ /\ piratePid = PiratePid
        /\ pirate # "reaped"
        /\ pirate' = IF pirate = "forked" THEN "killed" ELSE pirate
        /\ UNCHANGED <<target, bystanders>>
     \/ /\ piratePid = PiratePid
        /\ pirate = "reaped"
        /\ bystanders' \in {bystanders, "killed"}
        /\ UNCHANGED <<target, pirate>>
     \/ /\ piratePid = -1
        /\ bystanders' = "killed"
        /\ UNCHANGED <<target, pirate>>
  /\ pc' = "coresAfter"
  /\ UNCHANGED <<childPid, piratePid, setting, stealing, events, counters, stops>>

\* A bug in ReadCoresAfter, the counters programmed again before they are read.
ReadCoresReset ==
  /\ pc = "coresAfter"
  /\ coreAfter' = 0
  /\ pc' = "systemAfter"
  /\ UNCHANGED <<childPid, piratePid, target, pirate, setting, stealing, events,
                 coreBefore, sysBefore, sysAfter, bystanders, stops>>

ReadCoresAfter ==
  /\ pc = "coresAfter"
  /\ coreAfter' = coreWork
  /\ pc' = "systemAfter"
  /\ UNCHANGED <<childPid, piratePid, target, pirate, setting, stealing, events,
                 coreBefore, sysBefore, sysAfter, bystanders, stops>>

\* The last reading; the parent prints its results and returns.
ReadSystemAfter ==
  /\ pc = "systemAfter"
  /\ sysAfter' = work
  /\ pc' = "done"
  /\ UNCHANGED <<childPid, piratePid, target, pirate, setting, stealing, events,
                 coreBefore, sysBefore, coreAfter, bystanders, stops>>

-----------------------------------------------------------------------------
Parent ==
  \/ ForkTarget \/ Program \/ ForkPirate
  \/ ReadCoresBefore \/ ReadSystemBefore
  \/ Wait \/ Kill
  \/ ReadCoresAfter \/ ReadSystemAfter

Target == Exec \/ TargetWorks \/ TargetExits \/ TargetDies

Pirate == (\E k \in 0 .. 1 : ThreadBegins(k)) \/ PirateCrashes \/ PirateDies

Signals == TargetStops \/ TargetContinues

Next == Parent \/ Target \/ Pirate \/ Signals

Spec == Init /\ [][Next]_vars

\* The kernel schedules every runnable process: parent, target and pirate are
\* pinned to cores of their own.  Nobody has to send a signal.
FairSpec ==
  /\ Spec
  /\ WF_vars(Parent)
  /\ WF_vars(Target)
  /\ WF_vars(PirateCrashes \/ PirateDies)
  /\ \A k \in 0 .. 1 : WF_vars(ThreadBegins(k))
-----------------------------------------------------------------------------
(* Properties.                                                             *)

ParentStates ==
  {"forkTarget", "program", "forkPirate", "coresBefore", "systemBefore", "wait",
   "kill", "coresAfter", "systemAfter", "done"}

TypeOK ==
  /\ pc \in ParentStates
  /\ childPid \in {0, -1, TargetPid} /\ piratePid \in {0, -1, PiratePid}
  /\ target \in {NotForked, "forked", "running", "stopped"} \union Dead
  /\ pirate \in {NotForked, "forked", "killed"} \union Dead
  /\ stealWayNum \in StealWayNums /\ mapped \in [0 .. 1 -> BOOLEAN] /\ team \in Teams
  /\ pinned \in BOOLEAN
  /\ stealing \subseteq 0 .. 1
  /\ {work, coreBefore, sysBefore, coreAfter, sysAfter} \subseteq 0 .. Work
  /\ coreWork \in 0 .. work
  /\ bystanders \in {"alive", "killed"}
  /\ stops \in 0 .. MaxStops

Forked == childPid # -1 /\ piratePid # -1

\* No thread of the pirate's team fails the assertion or reads a mapping that
\* was not made.
AbleToSteal == ~Rejected /\ \A k \in 0 .. 1 : k < team => ~Faults(k)

\* When both forks succeeded and the target was never stopped, no signal is sent
\* to the pirate while the target can still run, and a pirate that is able to
\* steal is alive from its fork until then; the counters are not read again
\* before, so that all that the target did on a core that is read, and anywhere,
\* is in the last readings.
MeasuresToTheEnd ==
  Forked /\ stops = 0 =>
    /\ pirate = "killed" => target \in Dead
    /\ pirate # NotForked /\ AbleToSteal /\ target \notin Dead => pirate = "forked"
    /\ pc = "done" => coreAfter = coreWork /\ sysAfter = work

\* The core counters are read before the system's on either side of the wait:
\* what they report of a target that stays on its core differs by what it did
\* between the readings only, and of no target it is more than it did.
WindowsOverlap ==
  pc = "done" =>
    /\ coreBefore <= sysBefore /\ coreAfter <= sysAfter
    /\ coreAfter - coreBefore <= Work
    /\ Forked /\ stops = 0 /\ pinned =>
         (coreAfter - coreBefore) - (sysAfter - sysBefore) = sysBefore - coreBefore

\* With two successful forks the signal reaches nobody but the pirate.
KillsPirateOnly == Forked => bystanders = "alive"

\* When the target could be forked, the parent's wait ends.
ParentReturns == [](childPid = TargetPid => <>(pc = "done"))

\* With two successful forks no pirate survives the experiment.
PirateGone == (piratePid = PiratePid /\ childPid = TargetPid) ~> (pirate \in Dead)

\* A pirate that is able to steal comes to do so with both its CachePirates, or
\* with the first when its team is one thread, if it is not killed before.
BothSteal ==
  (pirate = "forked" /\ AbleToSteal)
    ~> (stealing = {k \in 0 .. 1 : k < team} \/ pirate = "killed")

(* What the comments and messages of the program say without conditions.   *)

\* `Kill the pirate'
KillsNobodyElse == bystanders = "alive"
=============================================================================
