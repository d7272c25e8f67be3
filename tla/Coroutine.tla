------------------------------- MODULE Coroutine -------------------------------
(***************************************************************************)
(* A coroutine that awaits continuables and returns one: awaitable and     *)
(* promise_type of detail/other/coroutines.hpp.                            *)
(*                                                                         *)
(* Two threads meet at an awaitable: the awaiter, which runs the coroutine *)
(* up to the co_await, starts the continuable and then tries to suspend,   *)
(* and the resolver, which stores the result and then may have to resume   *)
(* the coroutine.  They agree through the atomic state_.  A resolver that  *)
(* runs inside the awaiter's call of done() is the case in which it has    *)
(* finished before the awaiter goes on.  The n-th await of the coroutine   *)
(* is number n, with an awaitable of its own.                              *)
(*                                                                         *)
(* uncaught is not in the code.  It records where an exception that leaves *)
(* the coroutine has come from.                                            *)
(***************************************************************************)
EXTENDS Naturals, FiniteSets

CONSTANT Awaits   \* bound: how often the coroutine awaits

ASSUME CoroutineAssumption == Awaits \in Nat

VARIABLES body,      \* where the code of the coroutine is
          thrown,    \* the exception that leaves the coroutine
          uncaught,  \* the await it has come from, or 0
          number,    \* the number of the current await
          awaiter,   \* for each await, where the awaiting thread is
          resolver,  \* and where the resolving thread is
          state,     \* state_
          result,    \* result_
          entered,   \* how often the coroutine went on behind the await
          outcome    \* what the promise of the coroutine was resolved with

vars == <<body, thrown, uncaught, number, awaiter, resolver, state, result, entered, outcome>>

Await == 1 .. Awaits
Kind  == {"value", "exception", "cancellation"}

TypeOK ==
  /\ body \in {"created", "running", "awaiting", "unwinding", "returned"}
  /\ thrown \in {"nothing", "exception", "await_canceled"}
  /\ uncaught \in 0 .. Awaits
  /\ number \in 0 .. Awaits
  /\ awaiter \in [Await -> {"none", "suspend", "exchange", "resume", "left"}]
  /\ resolver \in [Await -> {"none", "armed", "exchange", "resume", "left"}]
  /\ state \in [Await -> {"pending", "suspended", "resolved"}]
  /\ result \in [Await -> Kind \cup {"empty"}]
  /\ entered \in [Await -> Nat]
  /\ outcome \in Kind \cup {"none"}

Init == /\ body = "created"
        /\ thrown = "nothing"
        /\ uncaught = 0
        /\ number = 0
        /\ awaiter = [n \in Await |-> "none"]
        /\ resolver = [n \in Await |-> "none"]
        /\ state = [n \in Await |-> "pending"]
        /\ result = [n \in Await |-> "empty"]
        /\ entered = [n \in Await |-> 0]
        /\ outcome = "none"

AwaiterGoto(n, from, to) == /\ awaiter[n] = from
                            /\ awaiter' = [awaiter EXCEPT ![n] = to]

ResolverGoto(n, from, to) == /\ resolver[n] = from
                             /\ resolver' = [resolver EXCEPT ![n] = to]
-------------------------------------------------------------------------------
\* The continuable that the coroutine returned is invoked: the coroutine was
\* suspended at its beginning, and is resumed.
Begin == /\ body = "created"
         /\ body' = "running"
         /\ UNCHANGED <<thrown, uncaught, number, awaiter, resolver, state, result, entered,
                        outcome>>

\* co_await: the awaitable is constructed.  A continuable that is ready yields its
\* result at once, and the coroutine is not suspended.
CoAwait ==
  /\ body = "running" /\ number < Awaits
  /\ body' = "awaiting"
  /\ number' = number + 1
  /\ \/ /\ \E k \in Kind : result' = [result EXCEPT ![number'] = k]
        /\ AwaiterGoto(number', "none", "resume")
     \/ /\ UNCHANGED result
        /\ AwaiterGoto(number', "none", "suspend")
  /\ UNCHANGED <<thrown, uncaught, resolver, state, entered, outcome>>

\* Fault: the awaitable is marked as suspended before the continuable is started.
SuspendEarly(n) == /\ AwaiterGoto(n, "suspend", "exchange")
                   /\ ResolverGoto(n, "none", "armed")
                   /\ state' = [state EXCEPT ![n] = "suspended"]
                   /\ UNCHANGED <<body, thrown, uncaught, number, result, entered, outcome>>

\* await_suspend: the continuable is started with the handler that resumes.
Suspend(n) == /\ AwaiterGoto(n, "suspend", "exchange")
              /\ ResolverGoto(n, "none", "armed")
              /\ UNCHANGED <<body, thrown, uncaught, number, state, result, entered, outcome>>

\* Fault: the awaiter does not look at the state it replaced.
SuspendedBlind(n) ==
  /\ AwaiterGoto(n, "exchange", "left")
  /\ state' = [state EXCEPT ![n] = "suspended"]
  /\ UNCHANGED <<body, thrown, uncaught, number, resolver, result, entered, outcome>>

\* await_suspend returns whether the coroutine stays suspended.
Suspended(n) ==
  /\ AwaiterGoto(n, "exchange", IF state[n] = "resolved" THEN "resume" ELSE "left")
  /\ state' = [state EXCEPT ![n] = "suspended"]
  /\ UNCHANGED <<body, thrown, uncaught, number, resolver, result, entered, outcome>>

\* The handler is called, and stores the result.
Resolve(n) ==
  /\ ResolverGoto(n, "armed", "exchange")
  /\ \E k \in Kind : result' = [result EXCEPT ![n] = k]
  /\ UNCHANGED <<body, thrown, uncaught, number, awaiter, state, entered, outcome>>

\* The promise is dropped, and the handler destroyed.
Drop(n) == /\ ResolverGoto(n, "armed", "left")
           /\ UNCHANGED <<body, thrown, uncaught, number, awaiter, state, result, entered,
                          outcome>>

\* Fault: the resolver resumes the coroutine in any case.
ResolvedAlways(n) ==
  /\ ResolverGoto(n, "exchange", "resume")
  /\ state' = [state EXCEPT ![n] = "resolved"]
  /\ UNCHANGED <<body, thrown, uncaught, number, awaiter, result, entered, outcome>>

\* The handler resumes the coroutine only if it was suspended.
Resolved(n) ==
  /\ ResolverGoto(n, "exchange", IF state[n] = "suspended" THEN "resume" ELSE "left")
  /\ state' = [state EXCEPT ![n] = "resolved"]
  /\ UNCHANGED <<body, thrown, uncaught, number, awaiter, result, entered, outcome>>

\* What await_resume threw leaves the coroutine: the empty exception has become an
\* await_canceled_exception.
Uncaught(n) ==
  /\ result[n] # "value"
  /\ body' = "unwinding"
  /\ thrown' = IF result[n] = "cancellation" THEN "await_canceled" ELSE "exception"
  /\ uncaught' = n

\* await_resume, on whichever thread: a value is returned, or the coroutine catches what
\* is thrown, or does not.
Resume(n) ==
  /\ \/ AwaiterGoto(n, "resume", "left") /\ UNCHANGED resolver
     \/ ResolverGoto(n, "resume", "left") /\ UNCHANGED awaiter
  /\ entered' = [entered EXCEPT ![n] = @ + 1]
  /\ \/ body' = "running" /\ UNCHANGED <<thrown, uncaught>>
     \/ Uncaught(n)
  /\ UNCHANGED <<number, state, result, outcome>>

\* The code of the coroutine throws: an exception of its own, or one it has caught.
Throw == /\ body = "running"
         /\ \/ body' = "unwinding" /\ thrown' = "exception" /\ UNCHANGED uncaught
            \/ \E n \in 1 .. number : Uncaught(n)
         /\ UNCHANGED <<number, awaiter, resolver, state, result, entered, outcome>>

\* co_return: return_void, return_value.
Return == /\ body = "running"
          /\ body' = "returned"
          /\ outcome' = "value"
          /\ UNCHANGED <<thrown, uncaught, number, awaiter, resolver, state, result, entered>>

Unwound == /\ body = "unwinding"
           /\ body' = "returned"
           /\ UNCHANGED <<thrown, uncaught, number, awaiter, resolver, state, result, entered>>

\* Fault: every failure is a cancellation.
UnhandledCanceled == /\ Unwound
                     /\ outcome' = "cancellation"

\* unhandled_exception
UnhandledException ==
  /\ Unwound
  /\ outcome' = IF thrown = "await_canceled" THEN "cancellation" ELSE "exception"

Finished == /\ body \in {"returned", "awaiting"}
            /\ \A n \in Await : {awaiter[n], resolver[n]} \subseteq {"none", "left"}
            /\ UNCHANGED vars

Next == \/ Begin \/ CoAwait \/ Throw \/ Return \/ UnhandledException
        \/ \E n \in Await : \/ Suspend(n) \/ Suspended(n) \/ Resolve(n) \/ Drop(n)
                            \/ Resolved(n) \/ Resume(n)
        \/ Finished

Spec == Init /\ [][Next]_vars

\* The library's own steps are taken.  Nobody has to resolve a continuable, and
\* what the coroutine does between two awaits is its own affair.
Fairness == \A n \in Await : WF_vars(Suspend(n) \/ Suspended(n) \/ Resolved(n) \/ Resume(n))

FairSpec == Spec /\ Fairness
-------------------------------------------------------------------------------
\* A coroutine is resumed once per suspension: two threads never run it at once,
\* and no thread runs it while another is about to.
OneRunner ==
  LET runners == {n \in Await : awaiter[n] \in {"suspend", "resume"}}
      resumed == {n \in Await : resolver[n] = "resume"}
  IN  /\ Cardinality(runners) + Cardinality(resumed) <= 1
      /\ runners \cup resumed # {} => body = "awaiting"
      /\ \A n \in Await : entered[n] <= 1

\* The awaitable is a temporary of the coroutine and dies when the coroutine goes
\* on: nobody has the exchange of its state before him then, and there is a result
\* (the assertion of await_resume).
NoDanglingAwaitable ==
  \A n \in Await : entered[n] > 0 =>
    awaiter[n] # "exchange" /\ resolver[n] # "exchange" /\ result[n] # "empty"

\* What leaves the coroutine is what its continuable is resolved with: the cancellation of
\* an await that is not caught is a cancellation again, an exception of an await stays one,
\* and so does one of the coroutine itself.  All of it comes behind the last of the awaits.
OutcomeJustified ==
  outcome # "none" =>
    /\ outcome = IF uncaught # 0 THEN result[uncaught]
                 ELSE IF thrown = "nothing" THEN "value" ELSE "exception"
    /\ body = "returned" /\ \A n \in 1 .. number : entered[n] = 1

\* Once the awaited continuable is resolved, the coroutine goes on, whoever of the
\* two threads is the first to exchange the state.
GoesOn == \A n \in Await : resolver[n] = "exchange" ~> entered[n] = 1
===============================================================================
