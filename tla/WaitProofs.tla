------------------------------- MODULE WaitProofs -------------------------------
(***************************************************************************)
(* The safety of wait(), wait_for() and wait_until(), on whatever threads  *)
(* the waiter and the unlocker run and however often the waiter wakes up.  *)
(***************************************************************************)
EXTENDS Wait, Naturals, TLAPS

\* Who holds the mutex, by where the two threads are.  The unlocker of a timed wait
\* never takes it.
Holders ==
  /\ mutex = Waiter <=> wpc \in {"check", "sleep", "unlock"}
  /\ mutex = Resolver <=> ~timed /\ rpc \in {"store", "ready", "notify", "release"}

\* unlock does its work once: ownership_ is given up with the first call of it, and a
\* continuable that is ready needs none.
UnlockedOnce ==
  /\ rpc \in {"held", "unlock"} => owned
  /\ owned => rpc \in {"held", "unlock"} \/ (rpc = "destroyed" /\ wpc = "gone")
  /\ owned => ~ready
  /\ wpc = "start" => rpc = "held"
  /\ rpc = "held" => argument = "empty"

\* ready is raised behind the store, and nothing is stored afterwards.
Published ==
  /\ rpc \in {"held", "unlock", "frame", "store", "ready"} => ~ready
  /\ rpc \in {"notify", "release"} => ready
  /\ rpc \in {"ready", "notify", "release"} \/ ready => result = argument
  /\ rpc \in {"used", "destroyed"} => result = argument \/ wpc = "gone"
  /\ result \in {"empty", argument}

\* Nobody leaves the wait but for the flag or the deadline.
LeftForAReason ==
  /\ wpc \in {"unlock", "read"} => ready \/ timedOut
  /\ wpc \in {"poll", "read"} => timed
  /\ wpc = "gone" /\ ~timed => rpc \in {"used", "destroyed"}

IInv == /\ TypeOK
        /\ Holders
        /\ UnlockedOnce
        /\ Published
        /\ LeftForAReason
        /\ OutcomeTrue
-------------------------------------------------------------------------------
\* The invariant holds initially.
LEMMA InitIInv == Init => IInv
<1> QED
  BY WaitAssumption DEF Init, MonitorInit, IInv, TypeOK, Result, Holders, UnlockedOnce,
     Published, LeftForAReason, OutcomeTrue

\* Every step of the waiter, of the unlocker and of the clock preserves it.
LEMMA NextIInv == IInv /\ [Next]_vars => IInv'
<1> SUFFICES ASSUME IInv, [Next]_vars PROVE IInv'
  OBVIOUS
<1> USE WaitAssumption DEF IInv, TypeOK, Holders, UnlockedOnce, Published, LeftForAReason,
        OutcomeTrue, Settled, Result, WaiterGoto, ResolverGoto, waiterVars, resolverVars
<1>1. CASE ReadyAlready
  BY <1>1 DEF ReadyAlready, Handed, Unpacked
<1>2. CASE Begin
  BY <1>2 DEF Begin, Handed
<1>3. CASE Poll
  BY <1>3 DEF Poll, Handed
<1>4. CASE LockFrame
  BY <1>4 DEF LockFrame, Lock, Handed
<1>5. CASE CheckReady
  BY <1>5 DEF CheckReady, Handed
<1>6. CASE FallAsleep
  BY <1>6 DEF FallAsleep, Sleep, Handed
<1>7. CASE Spurious
  BY <1>7 DEF Spurious, WakeUp, Handed
<1>8. CASE Timeout
  BY <1>8 DEF Timeout, WakeUp, Handed
<1>9. CASE Relock
  BY <1>9 DEF Relock, Lock, Handed
<1>10. CASE Leave
  BY <1>10 DEF Leave, Unlock, Handed, Unpacked
<1>11. CASE Return
  BY <1>11 DEF Return, Handed, Unpacked
<1>12. CASE Resolve
  BY <1>12 DEF Resolve, Handed
<1>13. CASE Destroy
  BY <1>13 DEF Destroy, Handed
<1>14. CASE Disown
  <2> USE <1>14 DEF Disown
  <2>1. TypeOK' /\ Holders' /\ LeftForAReason'
    OBVIOUS
  <2>2. UnlockedOnce' /\ Published'
    OBVIOUS
  <2>3. OutcomeTrue'
    BY DEF Handed
  <2> QED
    BY <2>1, <2>2, <2>3
<1>15. CASE ResolverLock
  BY <1>15 DEF ResolverLock, Lock, Handed
<1>16. CASE LockWeak
  BY <1>16 DEF LockWeak, Handed
<1>17. CASE Store
  BY <1>17 DEF Store, Handed
<1>18. CASE SetReady
  BY <1>18 DEF SetReady, Handed
<1>19. CASE Notify
  BY <1>19 DEF Notify, NotifyAll, Handed
<1>20. CASE ResolverUnlock
  BY <1>20 DEF ResolverUnlock, Unlock, Handed
<1>21. CASE UNCHANGED vars
  BY <1>21 DEF vars, Handed
<1> QED
  BY <1>1, <1>2, <1>3, <1>4, <1>5, <1>6, <1>7, <1>8, <1>9, <1>10, <1>11, <1>12, <1>13,
     <1>14, <1>15, <1>16, <1>17, <1>18, <1>19, <1>20, <1>21
     DEF Next, WaiterStep, ResolverStep, Finished

\* It is an invariant of the specification.
LEMMA IInvariant == Spec => []IInv
<1> QED
  BY InitIInv, NextIInv, PTL DEF Spec
-------------------------------------------------------------------------------
\* Every variable of wait() stays in its domain; in particular the unlocker of a timed
\* wait never holds cv_mutex, and a wait without a deadline never times out.
THEOREM TypeCorrect == Spec => []TypeOK
<1> QED
  BY IInvariant, PTL DEF IInv

\* unsafe_unlocker never touches the frame of a wait() that has returned.
THEOREM FrameOutlivesUnlocker == Spec => []NoDanglingFrame
<1>1. IInv => NoDanglingFrame
  BY DEF IInv, TypeOK, Holders, UnlockedOnce, LeftForAReason, NoDanglingFrame
<1> QED
  BY <1>1, IInvariant, PTL

\* A wait that blocked returns what the first call of unlock was given, or, if it timed
\* out, that or an empty result; never an older, a torn or somebody else's one.
THEOREM WaitTellsTheTruth == Spec => []OutcomeTrue
<1> QED
  BY IInvariant, PTL DEF IInv

\* wait_for and wait_until return a result that was stored before they read the frame,
\* even if the deadline has passed.
THEOREM LateResultCounts == Spec => LateResultKept
<1>1. IInv /\ Return /\ rpc \in {"ready", "notify", "used"} => returned' = argument
  BY DEF IInv, Published, Return, WaiterGoto
<1> QED
  BY <1>1, IInvariant, PTL DEF LateResultKept
-------------------------------------------------------------------------------
(* Who waits for whom *)

\* Where a sleeper is.  The waiter of wait() holds the mutex from the test of the flag
\* until it sleeps, so that the flag is not raised in between; it sleeps with the flag up
\* only until notify_all, which is the next thing the unlocker does.  A wait that has
\* timed out does not sleep again.
Awake ==
  /\ asleep # {} => wpc = "asleep" /\ ~timedOut
  /\ timedOut => wpc \in {"asleep", "unlock", "read", "gone"}
  /\ ~timed /\ wpc = "sleep" => ~ready
  /\ ~timed /\ asleep # {} /\ ready => rpc = "notify"
  /\ ~timed /\ rpc \in {"used", "destroyed"} => ready \/ wpc = "gone"

\* The initial states have no sleeper.
LEMMA InitAwake == Init => Awake
<1> QED
  BY DEF Init, MonitorInit, Awake

\* No step makes the waiter sleep through the event.
LEMMA NextAwake == IInv /\ Awake /\ [Next]_vars => Awake'
<1> SUFFICES ASSUME IInv, Awake, [Next]_vars PROVE Awake'
  OBVIOUS
<1> USE WaitAssumption DEF IInv, TypeOK, Holders, UnlockedOnce, Published, Awake,
        WaiterGoto, ResolverGoto, waiterVars, resolverVars
<1>1. CASE ReadyAlready \/ Begin \/ Poll \/ CheckReady \/ Return
  BY <1>1 DEF ReadyAlready, Begin, Poll, CheckReady, Return
<1>2. CASE LockFrame \/ Relock
  BY <1>2 DEF LockFrame, Relock, Lock
<1>3. CASE FallAsleep
  BY <1>3 DEF FallAsleep, Sleep
<1>4. CASE Spurious \/ Timeout
  BY <1>4 DEF Spurious, Timeout, WakeUp
<1>5. CASE Leave
  BY <1>5 DEF Leave, Unlock
<1>6. CASE Resolve \/ Destroy \/ Disown \/ LockWeak \/ Store \/ SetReady
  BY <1>6 DEF Resolve, Destroy, Disown, LockWeak, Store, SetReady
<1>7. CASE ResolverLock
  BY <1>7 DEF ResolverLock, Lock
<1>8. CASE Notify
  BY <1>8 DEF Notify, NotifyAll
<1>9. CASE ResolverUnlock
  BY <1>9 DEF ResolverUnlock, Unlock
<1>10. CASE UNCHANGED vars
  BY <1>10 DEF vars
<1> QED
  BY <1>1, <1>2, <1>3, <1>4, <1>5, <1>6, <1>7, <1>8, <1>9, <1>10
     DEF Next, WaiterStep, ResolverStep, Finished

\* It is an invariant of the specification.
LEMMA AwakeInvariant == Spec => [](IInv /\ Awake)
<1> QED
  BY InitIInv, NextIInv, InitAwake, NextAwake, PTL DEF Spec

\* wait() loses no wakeup: a waiter that sleeps although the flag is up is about to be
\* notified.
NoLostWakeup == ~timed /\ Waiter \in asleep /\ ready => rpc = "notify"

\* The waiter cannot go on by itself, and the unlocker cannot or need not.
WaiterBlocked   == \/ Waiter \in asleep
                   \/ wpc \in {"lock", "asleep"} /\ mutex # Free
ResolverBlocked == ~timed /\ rpc = "frame" /\ mutex # Free
ResolverIdle    == rpc \in {"held", "used", "destroyed"}

\* A blocked waiter waits for an unlocker that can go on, or that has not been called;
\* one with a deadline may sleep until then.
BlockedForAReason ==
  WaiterBlocked =>
    \/ ~ResolverBlocked /\ ~ResolverIdle
    \/ Waiter \in asleep /\ (rpc = "held" \/ timed)

\* A wait that is over has left the monitor: nobody sleeps in it, and of wait() nobody
\* has the mutex that was on its stack.
MonitorLeft == wpc = "gone" => asleep = {} /\ mutex = Free

WaiterRank ==
  CASE wpc = "start" -> 12 [] wpc = "poll" -> 11 [] wpc = "lock" -> 10
    [] wpc = "check" -> 9 [] wpc = "sleep" -> 8
    [] wpc = "asleep" -> (IF asleep = {} THEN 10 ELSE 7)
    [] wpc = "unlock" -> 2 [] wpc = "read" -> 1 [] wpc = "gone" -> 0

ResolverRank ==
  CASE rpc = "held" -> 8 [] rpc = "unlock" -> 7 [] rpc = "frame" -> 6 [] rpc = "store" -> 5
    [] rpc = "ready" -> 4 [] rpc = "notify" -> 3 [] rpc = "release" -> 2
    [] rpc = "used" -> 1 [] rpc = "destroyed" -> 0

\* A bound on the steps to come: those of the unlocker count for more than those
\* of the waiter, which it wakes up once, and so does the deadline.
Ahead == 40 * ResolverRank + (IF timedOut THEN 0 ELSE 20) + WaiterRank

\* Only spurious wakeups can go on for ever.
EveryStepCounts == [][Spurious \/ Ahead' < Ahead]_vars

\* No wakeup of wait() is lost, however often its waiter wakes up for nothing and
\* whenever the unlocker comes: the mutex is around the flag on both sides.
THEOREM NoWakeupLost == Spec => []NoLostWakeup
<1>1. IInv /\ Awake => NoLostWakeup
  BY DEF Awake, NoLostWakeup
<1> QED
  BY <1>1, AwakeInvariant, PTL

\* The waiter and the unlocker never wait for each other.
THEOREM NobodyIsStuck == Spec => []BlockedForAReason
<1>1. IInv /\ Awake => BlockedForAReason
  BY WaitAssumption DEF IInv, TypeOK, Holders, UnlockedOnce, Awake, BlockedForAReason,
     WaiterBlocked, ResolverBlocked, ResolverIdle
<1> QED
  BY <1>1, AwakeInvariant, PTL

\* wait(), wait_for() and wait_until() leave their monitor as they found it.
THEOREM MonitorIsLeft == Spec => []MonitorLeft
<1>1. IInv /\ Awake => MonitorLeft
  BY WaitAssumption DEF IInv, TypeOK, Holders, LeftForAReason, Awake, MonitorLeft
<1> QED
  BY <1>1, AwakeInvariant, PTL

\* But for spurious wakeups a wait takes at most 352 steps: neither the loop around the
\* condition variable nor the unlocker that is called twice goes on for ever.
THEOREM WaitTerminates == Spec => [](Ahead \in 0 .. 352) /\ EveryStepCounts
<1>1. IInv => Ahead \in 0 .. 352
  BY DEF IInv, TypeOK, Ahead, WaiterRank, ResolverRank
<1>2. IInv /\ Awake /\ [Next]_vars => [Spurious \/ Ahead' < Ahead]_vars
  <2> SUFFICES ASSUME IInv, Awake, Next, ~Spurious PROVE Ahead' < Ahead \/ UNCHANGED vars
    OBVIOUS
  <2> USE DEF IInv, TypeOK, Awake, WaiterGoto, ResolverGoto, waiterVars, resolverVars,
          Ahead, WaiterRank, ResolverRank
  <2>1. CASE ReadyAlready
    BY <2>1 DEF ReadyAlready
  <2>2. CASE Begin \/ Poll
    BY <2>2 DEF Begin, Poll
  <2>3. CASE LockFrame \/ Relock
    BY <2>3 DEF LockFrame, Relock, Lock
  <2>4. CASE CheckReady
    BY <2>4 DEF CheckReady
  <2>5. CASE FallAsleep
    BY <2>5 DEF FallAsleep, Sleep
  <2>6. CASE Timeout
    BY <2>6 DEF Timeout, WakeUp
  <2>7. CASE Leave \/ Return
    BY <2>7 DEF Leave, Return, Unlock
  <2>8. CASE Resolve \/ Destroy \/ Disown
    BY <2>8 DEF Resolve, Destroy, Disown, UnlockedOnce
  <2>9. CASE ResolverLock \/ LockWeak
    BY <2>9 DEF ResolverLock, LockWeak, Lock
  <2>10. CASE Store \/ SetReady
    BY <2>10 DEF Store, SetReady
  <2>11. CASE Notify
    BY <2>11 DEF Notify, NotifyAll
  <2>12. CASE ResolverUnlock
    BY <2>12 DEF ResolverUnlock, Unlock
  <2> QED
    BY <2>1, <2>2, <2>3, <2>4, <2>5, <2>6, <2>7, <2>8, <2>9, <2>10, <2>11, <2>12
       DEF Next, WaiterStep, ResolverStep, Finished
<1> QED
  BY <1>1, <1>2, AwakeInvariant, PTL DEF Spec, EveryStepCounts
=============================================================================
