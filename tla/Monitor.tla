-------------------------------- MODULE Monitor --------------------------------
(***************************************************************************)
(* One std::mutex and one std::condition_variable, as the wait transforms  *)
(* of detail/transforms/wait.hpp use them.  A thread that waits releases   *)
(* the mutex and falls asleep in one step; notify_all wakes the sleepers   *)
(* of that moment and nobody who comes later; a sleeper may also wake for  *)
(* no reason.  An awakened thread has to take the mutex again.             *)
(***************************************************************************)

CONSTANT Free        \* the owner of a mutex nobody holds

VARIABLES mutex,     \* the thread that holds the mutex
          asleep     \* the threads blocked on the condition variable

MonitorInit == /\ mutex = Free
               /\ asleep = {}

Lock(t) == /\ mutex = Free
           /\ mutex' = t
           /\ UNCHANGED asleep

Unlock(t) == /\ mutex = t
             /\ mutex' = Free
             /\ UNCHANGED asleep

Sleep(t) == /\ mutex = t
            /\ mutex' = Free
            /\ asleep' = asleep \cup {t}

NotifyAll == /\ asleep' = {}
             /\ UNCHANGED mutex

WakeUp(t) == /\ t \in asleep
             /\ asleep' = asleep \ {t}
             /\ UNCHANGED mutex
===============================================================================
