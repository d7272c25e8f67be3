---------------------------------- MODULE Wait ----------------------------------
(***************************************************************************)
(* transforms::wait(), wait_for() and wait_until() of                      *)
(* detail/transforms/wait.hpp: a thread starts a continuable and blocks    *)
(* until an unlocker, the callback that resolves it on whatever thread,    *)
(* has stored the result and raised a flag.                                *)
(*                                                                         *)
(* wait() keeps mutex, condition variable, flag and result on its stack,   *)
(* and its unlocker (unsafe_unlocker) has raw pointers to them.  A wait    *)
(* that is timed may give up: it shares the frame, and its unlocker keeps  *)
(* a weak_ptr.  Then the mutex is cv_mutex, which only the waiter takes;   *)
(* another one, rw_mutex, is around the result, and each of its critical   *)
(* sections is one step here.                                              *)
(***************************************************************************)
EXTENDS Monitor

CONSTANTS Waiter, Resolver

ASSUME WaitAssumption == Waiter # Resolver /\ Free \notin {Waiter, Resolver}

VARIABLES timed,     \* whether it is wait_for or wait_until
          wpc,       \* where the waiting thread is
          rpc,       \* where the unlocker is
          owned,     \* ownership_ of the unlocker: not unlocked yet
          argument,  \* what the first call of unlock was given
          ready,     \* the flag of the frame
          result,    \* sync_result of the frame
          timedOut,  \* the deadline ended the wait
          returned   \* how the wait ended for its caller

waiterVars   == <<wpc, timedOut, returned>>
resolverVars == <<rpc, owned, argument, ready, result>>
vars         == <<timed, mutex, asleep, wpc, timedOut, returned,
                  rpc, owned, argument, ready, result>>

Settled == {"value", "exception", "cancellation"}
Result  == Settled \cup {"empty"}

\* wait_and_unpack turns a result into a value or an exception; a timed wait
\* returns it as it is.
Unpacked(k) == CASE k = "value" -> "value"
                 [] k = "exception" -> "rethrown"
                 [] k \in {"cancellation", "empty"} -> "canceled"

Handed(k) == IF timed THEN k ELSE Unpacked(k)

TypeOK ==
  /\ timed \in BOOLEAN /\ owned \in BOOLEAN /\ ready \in BOOLEAN
  /\ timedOut \in BOOLEAN /\ (timedOut => timed)
  /\ mutex \in {Free, Waiter} \cup (IF timed THEN {} ELSE {Resolver})
  /\ asleep \subseteq {Waiter}
  /\ wpc \in {"start", "poll", "lock", "check", "sleep", "asleep", "unlock", "read", "gone"}
  /\ rpc \in {"held", "unlock", "frame", "store", "ready", "notify", "release", "used",
              "destroyed"}
  /\ argument \in Result
  /\ result \in Result
  /\ returned \in {"nothing", "rethrown", "canceled"} \cup Result

Init ==
  /\ timed \in BOOLEAN
  /\ MonitorInit
  /\ wpc = "start" /\ rpc = "held"
  /\ owned = TRUE /\ ready = FALSE /\ timedOut = FALSE
  /\ argument = "empty" /\ result = "empty" /\ returned = "nothing"

WaiterGoto(from, to) == wpc = from /\ wpc' = to
ResolverGoto(from, to) == rpc = from /\ rpc' = to
-------------------------------------------------------------------------------
(* The waiting thread *)

\* A continuable that is ready is unpacked in place, without a frame.
ReadyAlready == /\ WaiterGoto("start", "gone")
                /\ ResolverGoto("held", "destroyed")
                /\ \E k \in Settled : returned' = Handed(k)
                /\ UNCHANGED <<timed, mutex, asleep, owned, argument, ready, result, timedOut>>

\* next(unlocker).done(): from here on the unlocker may be called.
Begin == /\ WaiterGoto("start", IF timed THEN "poll" ELSE "lock")
         /\ UNCHANGED <<timed, mutex, asleep, timedOut, returned, resolverVars>>

\* A timed wait tests the flag before it takes cv_mutex.
Poll == /\ WaiterGoto("poll", IF ready THEN "read" ELSE "lock")
        /\ UNCHANGED <<timed, mutex, asleep, timedOut, returned, resolverVars>>

LockFrame == /\ WaiterGoto("lock", "check")
             /\ Lock(Waiter)
             /\ UNCHANGED <<timed, timedOut, returned, resolverVars>>

\* Fault: the flag is not tested before the waiter sleeps.
CheckReadyBlind == /\ WaiterGoto("check", "sleep")
                   /\ UNCHANGED <<timed, mutex, asleep, timedOut, returned, resolverVars>>

\* The test of ready in front of cv.wait, and the predicate inside cv.wait and
\* cv.wait_for, evaluated by a waiter that holds the mutex.
CheckReady == /\ WaiterGoto("check", IF ready THEN "unlock" ELSE "sleep")
              /\ UNCHANGED <<timed, mutex, asleep, timedOut, returned, resolverVars>>

FallAsleep == /\ WaiterGoto("sleep", "asleep")
              /\ Sleep(Waiter)
              /\ UNCHANGED <<timed, timedOut, returned, resolverVars>>

Spurious == /\ WakeUp(Waiter)
            /\ UNCHANGED <<timed, waiterVars, resolverVars>>

Timeout == /\ timed
           /\ WakeUp(Waiter)
           /\ timedOut' = TRUE
           /\ UNCHANGED <<timed, wpc, returned, resolverVars>>

\* Fault: a wakeup is taken for the event, without a predicate.
RelockNoPredicate == /\ WaiterGoto("asleep", "unlock")
                     /\ Waiter \notin asleep
                     /\ Lock(Waiter)
                     /\ UNCHANGED <<timed, timedOut, returned, resolverVars>>

\* After a timeout the predicate is evaluated once more, but its value is unused.
Relock == /\ WaiterGoto("asleep", IF timedOut THEN "unlock" ELSE "check")
          /\ Waiter \notin asleep
          /\ Lock(Waiter)
          /\ UNCHANGED <<timed, timedOut, returned, resolverVars>>

\* The lock is released.  wait() has moved the result out under it, and its frame
\* is gone with it.
Leave == /\ WaiterGoto("unlock", IF timed THEN "read" ELSE "gone")
         /\ Unlock(Waiter)
         /\ returned' = IF timed THEN returned ELSE Unpacked(result)
         /\ UNCHANGED <<timed, timedOut, resolverVars>>

\* Fault: a timeout is taken for the absence of a result.
ReturnOnTimeout == /\ WaiterGoto("read", "gone")
                   /\ returned' = IF timedOut THEN "empty" ELSE result
                   /\ UNCHANGED <<timed, mutex, asleep, timedOut, resolverVars>>

\* A timed wait moves the result out under rw_mutex, and gives the frame up.
Return == /\ WaiterGoto("read", "gone")
          /\ returned' = result
          /\ UNCHANGED <<timed, mutex, asleep, timedOut, resolverVars>>
-------------------------------------------------------------------------------
(* The unlocker, on the thread that resolves or drops the continuable *)

\* operator(): the continuable is resolved.
Resolve == /\ wpc # "start"
           /\ ResolverGoto("held", "unlock")
           /\ argument' \in Settled
           /\ UNCHANGED <<timed, mutex, asleep, waiterVars, owned, ready, result>>

\* The destructor, of an unlocker that was called before or never was.
Destroy == /\ wpc # "start"
           /\ rpc \in {"held", "used"}
           /\ rpc' = IF owned THEN "unlock" ELSE "destroyed"
           /\ UNCHANGED <<timed, mutex, asleep, waiterVars, owned, argument, ready, result>>

Disown == /\ ResolverGoto("unlock", "frame")
          /\ owned' = FALSE
          /\ UNCHANGED <<timed, mutex, asleep, waiterVars, argument, ready, result>>

\* The unlocker of wait() holds the mutex from its first access to its last.
ResolverLock == /\ ~timed
                /\ ResolverGoto("frame", "store")
                /\ Lock(Resolver)
                /\ UNCHANGED <<timed, waiterVars, owned, argument, ready, result>>

\* Fault: the unlocker tries again until the frame is there.
LockWeakRetries == /\ timed
                   /\ ResolverGoto("frame", IF wpc = "gone" THEN "frame" ELSE "store")
                   /\ UNCHANGED <<timed, mutex, asleep, waiterVars, owned, argument, ready,
                                  result>>

\* frame_.lock(): nothing is left to do once the waiter has gone.
LockWeak == /\ timed
            /\ ResolverGoto("frame", IF wpc = "gone" THEN "used" ELSE "store")
            /\ UNCHANGED <<timed, mutex, asleep, waiterVars, owned, argument, ready, result>>

Store == /\ ResolverGoto("store", "ready")
         /\ result' = argument
         /\ UNCHANGED <<timed, mutex, asleep, waiterVars, owned, argument, ready>>

\* Fault: the mutex is released before notify_all.
SetReadyUnlocks == /\ ResolverGoto("ready", "notify")
                   /\ ready' = TRUE
                   /\ IF timed THEN UNCHANGED <<mutex, asleep>> ELSE Unlock(Resolver)
                   /\ UNCHANGED <<timed, waiterVars, owned, argument, result>>

SetReady == /\ ResolverGoto("ready", "notify")
            /\ ready' = TRUE
            /\ UNCHANGED <<timed, mutex, asleep, waiterVars, owned, argument, result>>

\* notify_all; the unlocker of a timed wait does not hold cv_mutex.
Notify == /\ ResolverGoto("notify", IF timed THEN "used" ELSE "release")
          /\ NotifyAll
          /\ UNCHANGED <<timed, waiterVars, owned, argument, ready, result>>

ResolverUnlock == /\ ResolverGoto("release", "used")
                  /\ Unlock(Resolver)
                  /\ UNCHANGED <<timed, waiterVars, owned, argument, ready, result>>
-------------------------------------------------------------------------------
WaiterStep == \/ Begin \/ Poll \/ LockFrame \/ CheckReady \/ FallAsleep \/ Relock
              \/ Leave \/ Return

ResolverStep == \/ Disown \/ ResolverLock \/ LockWeak \/ Store \/ SetReady \/ Notify
                \/ ResolverUnlock

Finished == wpc = "gone" /\ rpc = "destroyed" /\ UNCHANGED vars

Next == \/ WaiterStep \/ ReadyAlready \/ Spurious \/ Timeout
        \/ ResolverStep \/ Resolve \/ Destroy
        \/ Finished

Spec == Init /\ [][Next]_vars

\* Both threads run, and a resolver that keeps asking for the mutex gets it even
\* if spurious wakeups make the waiter take it again and again.  Nobody has to
\* resolve or destroy the continuable, and the deadline may be arbitrarily far away.
FairSpec == /\ Spec
            /\ WF_vars(WaiterStep)
            /\ WF_vars(ResolverStep) /\ SF_vars(ResolverLock)

\* The deadline is reached some time.  It is a point in time fixed when the wait
\* begins, so spurious wakeups do not put it off.
DeadlineSpec == FairSpec /\ SF_vars(Timeout)
-------------------------------------------------------------------------------
\* The unlocker of wait() never touches the frame after wait() has returned: it has
\* the mutex until its last access, and the waiter cannot leave without that mutex
\* once it has been told.
NoDanglingFrame ==
  ~timed /\ rpc \in {"frame", "store", "ready", "notify", "release"} => wpc # "gone"

\* A wait that had to block returns what the first call of the unlocker was given,
\* and only when there was one; the call its destructor makes afterwards changes
\* nothing.  One that timed out returns that or an empty result, and nothing else.
OutcomeTrue ==
  wpc = "gone" =>
    \/ owned /\ rpc = "destroyed"
    \/ ~timedOut /\ ~owned /\ returned = Handed(argument)
    \/ timedOut /\ returned \in {"empty", argument}

\* A wait that timed out still returns a result that was stored before it read
\* the frame; only a resolver that comes too late loses its result.
LateResultKept ==
  [][Return /\ rpc \in {"ready", "notify", "used"} => returned' = argument]_vars

\* unlock returns whatever the waiter does, and even if it has gone.
ResolverReturns == rpc = "unlock" ~> rpc \in {"used", "destroyed"}

\* wait() returns once the continuable is resolved or its promise dropped: no
\* wakeup is lost; and a timed wait returns at its deadline, if not before.
WaitReturns == wpc # "start" /\ (timed \/ ~owned) ~> wpc = "gone"
===============================================================================
