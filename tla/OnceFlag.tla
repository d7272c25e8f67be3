------------------------------- MODULE OnceFlag -------------------------------
(***************************************************************************)
(* The std::once_flag that when_all and when_any keep in their shared      *)
(* state, as std::call_once drives it.  The first caller becomes the       *)
(* active one and runs the callable; every other caller blocks while the   *)
(* flag is "running" and returns once it is "done".  A callable that       *)
(* throws would set the flag back to "idle"; the callables passed here     *)
(* are the noexcept continuations of detail/core/base.hpp, so that case    *)
(* does not arise.                                                         *)
(***************************************************************************)

VARIABLE flag

FlagState == {"idle", "running", "done"}

OnceInit == flag = "idle"

\* The caller is the first one: it runs the callable.
OnceEnter == /\ flag = "idle"
             /\ flag' = "running"

\* The callable returned: whoever waits in call_once may go on.
OnceExit == /\ flag = "running"
            /\ flag' = "done"

\* A later caller returns without running the callable.
OncePassive == /\ flag = "done"
               /\ UNCHANGED flag
===============================================================================
