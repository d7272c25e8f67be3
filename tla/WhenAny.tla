-------------------------------- MODULE WhenAny --------------------------------
(***************************************************************************)
(* when_any / operator||: any_result_submitter of                          *)
(* detail/connection/connection-any.hpp.  Every child, whether it arrives  *)
(* with a value or fails, goes straight into call_once with the callback;  *)
(* the first one wins.  All children are started, the ones after the       *)
(* winner too.                                                             *)
(***************************************************************************)
EXTENDS Connection

vars == <<pc, settled, under, flag, calls, verdict>>

Init == ConnectionInit

\* create_callback shares the submitter and changes nothing else; next() and
\* done() start the child.
Start(c) == /\ Launch(c, "boxed")
            /\ UNCHANGED <<settled, under, flag, calls, verdict>>

TraversalEnds == /\ \A c \in Child : pc[c] # "boxed"
                 /\ Goto(Main, "traverse", "done")
                 /\ UNCHANGED <<settled, under, flag, calls, verdict>>

\* Fault: a failure is swallowed.
ArriveSwallows(c) == \/ Resolve(c, "value", "once")
                     \/ \E k \in Failure : Resolve(c, k, "done")
                     \/ Drop(c)

Arrive(c) == \/ \E k \in Kind : Resolve(c, k, "once")
             \/ Drop(c)

Invoke(c) == Deliver(c, Single(c))

CallOnce(c) == EnterOnce(c) \/ PassOnce(c) \/ LeaveOnce(c)

Finished == (AllDone \/ Entangled) /\ UNCHANGED vars

Next == \/ TraversalEnds
        \/ \E c \in Child : Start(c) \/ Arrive(c) \/ CallOnce(c) \/ Invoke(c)
        \/ Finished

Spec == Init /\ [][Next]_vars

Fairness == /\ WF_vars(TraversalEnds)
            /\ \A c \in Child : WF_vars(Start(c)) /\ WF_vars(CallOnce(c) \/ Invoke(c))

FairSpec == Spec /\ Fairness
-------------------------------------------------------------------------------
\* The shared state implements the abstract connection in mode "any",
\* liveness included: the first settled child leads to a verdict.
Abs == INSTANCE Resolution WITH Mode <- "any"
ImplementsAny == Abs!FairSpec
===============================================================================
