--------------------------------- MODULE Chain ---------------------------------
(***************************************************************************)
(* A running chain of handlers: callback_base, the invokers, on_executor,  *)
(* work_proxy, the ready continuation and final_callback of                *)
(* detail/core/base.hpp, what then, fail, next and via of continuable_base *)
(* make of them, and async of detail/operations/async.hpp, which puts a    *)
(* callable in front of a chain.  The nested callbacks (next_callback_     *)
(* inside next_callback_ ...) are the sequence of the stages still to      *)
(* come; a handler that returns a continuable puts the stages of that      *)
(* continuable in front of them.  A chain that runs is one thread of       *)
(* control: what is in flight is held by a promise ("pending"), by a ready *)
(* continuation ("ready"), by an executor ("queued"), or by whoever is     *)
(* calling.  The build is one with exceptions and without                  *)
(* CONTINUABLE_WITH_UNHANDLED_EXCEPTIONS.                                  *)
(***************************************************************************)
EXTENDS Sequences, Naturals

CONSTANTS Error,       \* exceptions that are not the empty one
          MaxStages    \* bound: the stages a chain consists of at any time

ASSUME ChainAssumption == MaxStages \in Nat /\ Error \cap {"none", "value", "canceled"} = {}

VARIABLES where,    \* who holds the rest of the chain
          rest,     \* the stages still to come
          signal,   \* what is in flight; "canceled" is the empty exception
          flying,   \* exceptions raised, and not yet handled nor discarded
          skipped,  \* the stages the signal passed by since it was raised
          how       \* how the chain ended

vars == <<where, rest, signal, flying, skipped, how>>

\* What a handler may do: return nothing, a value or a failure, an empty result, a
\* continuable, or once more what it was called with.
Answer == {"void", "result", "empty", "continuable", "again"}
Any    == Answer \ {"again"}

\* then, fail and next handle results, errors and both, and call a handler of the
\* program.
Then(e)      == [handles |-> {"result"}, executor |-> e, answers |-> Any]
Fail(e)      == [handles |-> {"error"}, executor |-> e, answers |-> Any]
NextStage(e) == [handles |-> {"result", "error"}, executor |-> e, answers |-> Any]

\* then with a continuable returns it; fail with a continuable lets it go its own way.
ThenContinuable == [Then(FALSE) EXCEPT !.answers = {"continuable"}]
FailContinuable == [Fail(FALSE) EXCEPT !.answers = {"void"}]

\* via is a next that makes a result of what it gets, errors too.
Via == [NextStage(TRUE) EXCEPT !.answers = {"again"}]

Stage  == UNION {{Then(e), Fail(e), NextStage(e)} : e \in BOOLEAN}
            \cup {ThenContinuable, FailContinuable, Via}
\* The chains of at most max stages.
Chains(max) == UNION {[1 .. n -> Stage] : n \in 0 .. max}

Failed == signal \in Error \cup {"canceled"}
Path   == IF Failed THEN "error" ELSE "result"

Place  == {"pending", "ready", "arriving", "queued", "handler", "ended"}
Ending == {"completed", "canceled", "trapped", "stopped", "dropped", "discarded"}

TypeOK == /\ where \in Place
          /\ rest \in Chains(MaxStages)
          /\ signal \in {"none", "value", "canceled"} \cup Error
          /\ flying \subseteq Error
          /\ skipped \subseteq Stage
          /\ how \in Ending \cup {"running"}

\* Exceptions that may be raised.
Failures == (Error \ flying) \cup {"canceled"}

\* The continuations at the front of a chain: one with a promise, or one that was
\* made ready, with values (make_ready_continuable) or with a failure
\* (make_exceptional_continuable, make_cancelling_continuable).
Promised  == [at |-> "pending", with |-> "none"]
MadeReady == [at : {"ready"}, with : Failures \cup {"value"}]

Begins(w, s) == \E front \in {Promised} \cup MadeReady : w = front.at /\ s = front.with

Init == /\ rest \in Chains(MaxStages)
        /\ flying = {}
        /\ Begins(where, signal)
        /\ skipped = {}
        /\ how = "running"

\* The stages stages are called with signal s; an exception that is raised
\* again is the same exception, as far as anybody can tell.
Raise(s, stages) == /\ where' = "arriving"
                    /\ signal' = s
                    /\ rest' = stages
                    /\ flying' = flying \cup ({s} \cap Error)
                    /\ skipped' = {}
                    /\ UNCHANGED how

\* The rest of the chain is destroyed without being called.
End(ending) == /\ where' = "ended"
               /\ rest' = <<>>
               /\ how' = ending
               /\ UNCHANGED <<signal, skipped>>

-------------------------------------------------------------------------------
\* The promise is resolved.
Resolve == /\ where = "pending"
           /\ \E s \in Failures \cup {"value"} : Raise(s, rest)

\* The result of a ready continuable is taken, and never empty.
Unpack == where = "ready" /\ Raise(signal, rest)

\* The promise is dropped.
Drop == /\ where = "pending"
        /\ End("dropped")
        /\ UNCHANGED flying

\* The continuable is one of async or async_on: its continuation calls the callable
\* as a stage in front of the others, with an executor or without.
Async == /\ where = "pending"
         /\ Len(rest) < MaxStages
         /\ \E e \in BOOLEAN : Raise("value", <<Then(e)>> \o rest)

Handles == rest # <<>> /\ Path \in Head(rest).handles

\* Faults: a stage passes on results only, passes on what it should handle, or
\* passes on nothing.
ForwardResults == /\ where = "arriving"
                  /\ rest # <<>> /\ ~Handles
                  /\ IF Failed THEN End("stopped") /\ UNCHANGED flying
                               ELSE Raise(signal, Tail(rest))
ForwardAnything == /\ where = "arriving"
                   /\ rest # <<>>
                   /\ rest' = Tail(rest)
                   /\ skipped' = skipped \cup {Head(rest)}
                   /\ UNCHANGED <<where, signal, flying, how>>
ForwardNothing == /\ where = "arriving"
                  /\ rest # <<>> /\ ~Handles
                  /\ UNCHANGED vars

\* A stage that does not handle the path calls its next callback.
Forward == /\ where = "arriving"
           /\ rest # <<>> /\ ~Handles
           /\ rest' = Tail(rest)
           /\ skipped' = skipped \cup {Head(rest)}
           /\ UNCHANGED <<where, signal, flying, how>>

\* The handler is called, at once or by the executor it was given to.
Dispatch == /\ where = "arriving"
            /\ Handles
            /\ IF Head(rest).executor
                 THEN where' = "queued" /\ UNCHANGED flying
                 ELSE where' = "handler" /\ flying' = flying \ {signal}
            /\ UNCHANGED <<rest, signal, skipped, how>>

\* work()
ExecutorRuns == /\ where = "queued"
                /\ where' = "handler"
                /\ flying' = flying \ {signal}
                /\ UNCHANGED <<rest, signal, skipped, how>>

\* work.set_exception and work.set_canceled: the next callback gets the failure
\* of the executor, and the arguments of the handler are destroyed with the work.
ExecutorRejects == /\ where = "queued"
                   /\ where' = "arriving"
                   /\ rest' = Tail(rest)
                   /\ skipped' = {}
                   /\ signal' \in Failures
                   /\ flying' = (flying \ {signal}) \cup ({signal'} \cap Error)
                   /\ UNCHANGED how

\* The executor destroys the work.
ExecutorDrops == /\ where = "queued"
                 /\ End("discarded")
                 /\ flying' = flying \ {signal}

Answers(a) == where = "handler" /\ a \in Head(rest).answers

\* The handler returns nothing: on the error path that stops the chain.
ReturnsVoid == /\ Answers("void")
               /\ IF Failed THEN End("stopped") /\ UNCHANGED flying
                            ELSE Raise("value", Tail(rest))

\* The handler returns a value, throws, or returns a cancellation_result, an
\* exceptional_result or a result that holds either.
ReturnsResult == /\ Answers("result")
                 /\ \E s \in Failures \cup {"value"} : Raise(s, Tail(rest))

\* make_result of what the handler was called with.
ReturnsAgain == /\ Answers("again")
                /\ Raise(signal, Tail(rest))

\* The handler returns an empty result.
ReturnsEmpty == /\ Answers("empty")
                /\ End("stopped")
                /\ UNCHANGED flying

\* The handler returns a continuable, with handlers of its own.
ReturnsContinuable ==
  /\ Answers("continuable")
  /\ \E inner \in Chains(MaxStages - Len(Tail(rest))) : rest' = inner \o Tail(rest)
  /\ Begins(where', signal')
  /\ skipped' = {}
  /\ UNCHANGED <<flying, how>>

\* The final callback: a value and the empty exception are ignored, any other
\* exception traps.
FinalCallback == /\ where = "arriving"
                 /\ rest = <<>>
                 /\ End(CASE signal = "value" -> "completed"
                          [] signal = "canceled" -> "canceled"
                          [] OTHER -> "trapped")
                 /\ flying' = flying \ {signal}

Returns == ReturnsVoid \/ ReturnsResult \/ ReturnsAgain \/ ReturnsEmpty \/ ReturnsContinuable

Finished == where = "ended" /\ UNCHANGED vars

Next == \/ Resolve \/ Drop \/ Async \/ Unpack
        \/ Forward \/ Dispatch \/ FinalCallback
        \/ ExecutorRuns \/ ExecutorRejects \/ ExecutorDrops
        \/ Returns
        \/ Finished

Spec == Init /\ [][Next]_vars

\* The library calls on, and a handler returns.  A promise may stay unresolved,
\* and an executor may keep its work.
FairSpec == Spec /\ WF_vars(Unpack \/ Forward \/ Dispatch \/ FinalCallback \/ Returns)
-------------------------------------------------------------------------------
\* No exception vanishes: whatever was raised and neither reached an error handler
\* nor trapped, nor was destroyed by an executor with the work it belonged to, is
\* the exception in flight.  In particular none is left when the chain has ended.
ExceptionsAccounted ==
  flying \subseteq (IF where \in {"arriving", "queued"} THEN {signal} ELSE {})

\* A result or a failure goes to the first handler for it: every stage it has
\* passed since it was raised handles the other path only.
FirstHandler ==
  \A s \in skipped : Path \notin s.handles

\* The library never stalls: whatever arrives, or is there already, comes to a
\* handler, to an executor or to the end of the chain.  (Handlers may go on for ever:
\* each can return a continuable that is ready, with another handler.)
Progress == where \in {"ready", "arriving"} ~> where \in {"handler", "queued", "ended"}
===============================================================================
