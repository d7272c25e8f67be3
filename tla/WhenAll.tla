-------------------------------- MODULE WhenAll --------------------------------
(***************************************************************************)
(* when_all / operator&&: result_submitter of                              *)
(* detail/connection/connection-all.hpp.  Every child that arrives with a  *)
(* value stores it in its box and decrements left_; whoever brings left_   *)
(* to zero invokes the callback with all values.  A child that fails       *)
(* invokes the callback with its failure and never decrements left_.       *)
(*                                                                         *)
(* The order in which traverse_pack visits the boxes is left open, and     *)
(* the value a child arrives with is represented by the child.             *)
(***************************************************************************)
EXTENDS Connection

VARIABLES left,   \* left_: unregistered completions, plus one for Main
          box     \* what the box of each child holds

allVars == <<left, box>>
vars    == <<pc, settled, under, flag, calls, verdict, left, box>>

TypeOK == /\ ConnectionTypeOK
          /\ left \in Nat
          /\ box \in [Child -> {"empty", "value"}]

\* Fault: Main does not count as a completion of its own.
InitUncounted == /\ ConnectionInit
                 /\ left = 0
                 /\ box = [c \in Child |-> "empty"]

Init == /\ ConnectionInit
        /\ left = 1
        /\ box = [c \in Child |-> "empty"]

\* Fault: left_ is not incremented.
CreateCallbackUncounted(c) ==
  /\ pc[Main] = "traverse"
  /\ Returned(Main)
  /\ pc[c] = "boxed"
  /\ pc' = [pc EXCEPT ![c] = "attached"]
  /\ UNCHANGED <<settled, under, flag, calls, verdict, left, box>>

\* create_callback: the child is counted before it is started.
CreateCallback(c) ==
  /\ pc[Main] = "traverse"
  /\ Returned(Main)
  /\ \A d \in Child : pc[d] # "attached"
  /\ pc[c] = "boxed"
  /\ pc' = [pc EXCEPT ![c] = "attached"]
  /\ left' = left + 1
  /\ UNCHANGED <<settled, under, flag, calls, verdict, box>>

Start(c) == /\ Launch(c, "attached")
            /\ UNCHANGED <<settled, under, flag, calls, verdict, left, box>>

\* The traversal is over: Main gives up its own count.
Accept == /\ \A c \in Child : pc[c] \notin {"boxed", "attached"}
          /\ Goto(Main, "traverse", "complete")
          /\ UNCHANGED <<settled, under, flag, calls, verdict, left, box>>

Arrive(c) == /\ \/ Resolve(c, "value", "assign")
                \/ \E k \in Failure : Resolve(c, k, "once")
                \/ Drop(c)
             /\ UNCHANGED allVars

\* Fault: the value is not stored.
AssignForgets(c) == /\ Goto(c, "assign", "complete")
                    /\ UNCHANGED <<settled, under, flag, calls, verdict, left, box>>

Assign(c) == /\ Goto(c, "assign", "complete")
             /\ box' = [box EXCEPT ![c] = "value"]
             /\ UNCHANGED <<settled, under, flag, calls, verdict, left>>

CompleteOne(a) ==
  /\ left' = left - 1
  /\ Goto(a, "complete", IF left' = 0 THEN "once" ELSE "done")
  /\ UNCHANGED <<settled, under, flag, calls, verdict, box>>

\* An activation that completed the connection, not one that reports a failure.
Completes(a) == a \in Child => settled[a] = "value"

Stored == [kind |-> "values", of |-> {c \in Child : box[c] = "value"}]

Invoke(a) == /\ \/ Completes(a) /\ Deliver(a, Stored)
                \/ ~Completes(a) /\ Deliver(a, Single(a))
             /\ UNCHANGED allVars

CallOnce(a) == /\ EnterOnce(a) \/ PassOnce(a) \/ LeaveOnce(a)
               /\ UNCHANGED allVars

\* The steps the library takes on its own once a thread is inside it.
Step(a) == CompleteOne(a) \/ CallOnce(a) \/ Invoke(a)

Finished == (AllDone \/ Entangled) /\ UNCHANGED vars

Next == \/ Accept
        \/ \E c \in Child : CreateCallback(c) \/ Start(c) \/ Arrive(c) \/ Assign(c)
        \/ \E a \in Actor : Step(a)
        \/ Finished

Spec == Init /\ [][Next]_vars

\* A thread inside the library keeps running.  Nothing obliges a child to be
\* resolved: Arrive is left out.
Fairness == /\ WF_vars(Accept)
            /\ \A c \in Child : WF_vars(CreateCallback(c) \/ Start(c) \/ Assign(c))
            /\ \A a \in Actor : WF_vars(Step(a))

FairSpec == Spec /\ Fairness
-------------------------------------------------------------------------------
\* The callback of the connection is invoked at most once, however the
\* failures of several children and the completion of all of them race
\* (call_once on flag_, and left_ that a failure never decrements).
InvokedOnce == calls <= 1

\* The callback is invoked with values only if every child arrived with one
\* and every box was filled before finalize_data read it, and with a failure
\* only if the child it names failed that way.
VerdictJustified ==
  /\ verdict.kind = "values" =>
       verdict.of = Child /\ \A c \in Child : settled[c] = "value"
  /\ verdict.kind \in Failure =>
       \E c \in Child : verdict = [kind |-> settled[c], of |-> {c}]

\* While the boxes are moved out by finalize_data nobody writes to one of
\* them, and Main no longer walks over them.
BoxesUnshared ==
  \A a \in Actor : pc[a] = "callback" /\ Completes(a) =>
    /\ pc[Main] # "traverse"
    /\ \A c \in Child : pc[c] \notin {"started", "assign"}

\* The assertions of complete_one (left_ > 0) and of invoke (left_ == 0).
CountAsserted ==
  \A a \in Actor :
    /\ pc[a] = "complete" => left > 0
    /\ pc[a] \in {"once", "callback"} /\ Completes(a) => left = 0

\* A failing child's call into the connection returns only after the callback
\* was invoked: the loser of the race waits in call_once for the winner.
FailureReported ==
  \A c \in Child : pc[c] = "done" /\ settled[c] \in Failure => verdict # NoVerdict

\* Every call into the connection returns, unless the callback resolves a sibling
\* synchronously that then waits for itself in call_once.
CallsReturn ==
  \A a \in Actor : pc[a] \in {"assign", "complete", "once", "callback", "leave"}
                     ~> pc[a] = "done" \/ Entangled

\* The shared state implements the abstract connection in mode "all",
\* liveness included: a failure, or the last value, leads to a verdict.
Abs == INSTANCE Resolution WITH Mode <- "all"
ImplementsAll     == Abs!Safety
ImplementsAllFair == Abs!FairSpec
===============================================================================
