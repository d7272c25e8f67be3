---------------------------------- MODULE Loop ----------------------------------
(***************************************************************************)
(* cti::loop and cti::range_loop: loop_frame and make_range_looper of      *)
(* detail/operations/loop.hpp.  Every iteration calls the callable and     *)
(* attaches a handler to the continuable it returns; the handler resolves  *)
(* the promise of the loop or starts the next iteration.  The frame is     *)
(* kept alive by shared pointers: the one of the continuation that created *)
(* it, and the pointer `me' of the current iteration, which is moved from  *)
(* the stack into the handler.                                             *)
(***************************************************************************)
EXTENDS Naturals, Sequences

CONSTANTS Last,            \* bound: the positions of a range are 0 .. Last
          MaxCalls,        \* bound: how often the callable is called
          ArgumentsFirst   \* whether the arguments of a call may be evaluated
                           \* before the object it is made on (not since C++17)

ASSUME LoopAssumption == Last \in Nat /\ MaxCalls \in Nat /\ ArgumentsFirst \in BOOLEAN

VARIABLES range,    \* whether the callable is a range looper
          begin,    \* its current position
          end,      \* its sentinel
          phase,    \* where the iteration is
          me,       \* where the pointer of the iteration is
          starter,  \* whether the continuation that made the frame still runs
          nested,   \* whether the iteration runs on its stack
          calls,    \* the positions the callable was called with
          result,   \* what the iteration ended with
          outcome   \* what the promise of the loop was resolved with, in order

vars == <<range, begin, end, phase, me, starter, nested, calls, result, outcome>>

Failure == {"exception", "cancellation"}
Result  == {"empty", "value"} \cup Failure

Init == /\ range \in BOOLEAN
        /\ begin \in 0 .. Last
        /\ end \in begin .. Last
        /\ range \/ begin = end
        /\ phase = "loop"
        /\ me = "stack"
        /\ starter = TRUE
        /\ nested = TRUE
        /\ calls = <<>>
        /\ result = "none"
        /\ outcome = <<>>
-------------------------------------------------------------------------------
MayCall == Len(calls) < MaxCalls

\* Fault: the handler captures this, and the pointer ends with the call.
CallCapturesThis ==
  /\ phase = "loop" /\ MayCall
  /\ calls' = Append(calls, begin)
  /\ phase' = "flight"
  /\ me' = "null"
  /\ UNCHANGED <<range, begin, end, starter, nested, result, outcome>>

\* The callable returns a continuable, and the handler takes the pointer.
Call ==
  /\ phase = "loop" /\ MayCall
  /\ calls' = Append(calls, begin)
  /\ phase' = "flight"
  /\ me' = "handler"
  /\ UNCHANGED <<range, begin, end, starter, nested, result, outcome>>

\* Fault: a callable that throws leaves the loop as it is.
ThrowSwallowed ==
  /\ phase = "loop" /\ MayCall
  /\ calls' = Append(calls, begin)
  /\ phase' = "done"
  /\ me' = "null"
  /\ result' = "exception"
  /\ UNCHANGED <<range, begin, end, starter, nested, outcome>>

\* The callable throws.  The exception is resolved through me, which may have been
\* moved into the handler already, and destroyed with it.
Throw ==
  /\ phase = "loop" /\ MayCall
  /\ calls' = Append(calls, begin)
  /\ \/ /\ phase' = "resolve"
        /\ result' = "exception"
        /\ UNCHANGED me
     \/ /\ ArgumentsFirst
        /\ phase' = "crashed"
        /\ result' = "exception"
        /\ me' = "null"
  /\ UNCHANGED <<range, begin, end, starter, nested, outcome>>

\* The continuation that made the frame returns, once nothing runs on its stack.
Starter == /\ starter
           /\ nested => phase \in {"flight", "done"}
           /\ starter' = FALSE
           /\ UNCHANGED <<range, begin, end, phase, me, nested, calls, result, outcome>>

\* The handler is called, inside done() of the call or later.
Settle(r) == /\ phase = "flight"
             /\ phase' = "resolve"
             /\ result' = r
             /\ nested' \in {FALSE, starter /\ nested}
             /\ UNCHANGED <<range, end, me, starter, calls, outcome>>

\* The continuable of a plain loop is resolved with a result.
Iterated == /\ ~range
            /\ \E r \in Result : Settle(r)
            /\ UNCHANGED begin

\* Fault: the position is compared before it is incremented.
RangeIteratedLate == /\ range
                     /\ Settle(IF begin # end THEN "empty" ELSE "value")
                     /\ begin' = begin + 1

\* The continuable of a range loop is resolved: ++begin != end
RangeIterated == /\ range
                 /\ begin' = begin + 1
                 /\ Settle(IF begin' # end THEN "empty" ELSE "value")

RangeFailed == /\ range
               /\ \E r \in Failure : Settle(r)
               /\ UNCHANGED begin

\* Its promise is dropped, and the handler is destroyed.
Drop == /\ phase = "flight"
        /\ phase' = "done"
        /\ me' = "null"
        /\ UNCHANGED <<range, begin, end, starter, nested, calls, result, outcome>>

\* resolve() with an empty result: the next iteration.
Repeat == /\ phase = "resolve" /\ result = "empty"
          /\ phase' = "loop"
          /\ me' = "stack"
          /\ result' = "none"
          /\ UNCHANGED <<range, begin, end, starter, nested, calls, outcome>>

\* Fault: an empty result may end the loop.
FinishOnEmpty == /\ phase = "resolve"
                 /\ phase' = "done"
                 /\ me' = "null"
                 /\ outcome' = Append(outcome, result)
                 /\ UNCHANGED <<range, begin, end, starter, nested, calls, result>>

\* resolve() with anything else: the promise of the loop is resolved.
Finish == /\ phase = "resolve" /\ result # "empty"
          /\ phase' = "done"
          /\ me' = "null"
          /\ outcome' = Append(outcome, result)
          /\ UNCHANGED <<range, begin, end, starter, nested, calls, result>>

Finished == /\ \/ phase = "done" /\ ~starter
               \/ phase = "crashed"
               \/ phase = "loop" /\ ~MayCall
            /\ UNCHANGED vars

Next == \/ Call \/ Throw \/ Starter \/ Iterated \/ RangeIterated \/ RangeFailed
        \/ Drop \/ Repeat \/ Finish \/ Finished

Spec == Init /\ [][Next]_vars

\* The library's own steps are taken, the callable returns or throws, and the
\* continuables it returned are resolved or dropped.
Fairness == /\ WF_vars(Call \/ Throw) /\ WF_vars(Repeat \/ Finish) /\ WF_vars(Starter)
            /\ WF_vars(Iterated \/ RangeIterated \/ RangeFailed \/ Drop)

FairSpec == Spec /\ Fairness
-------------------------------------------------------------------------------
\* The frame is alive as long as an iteration uses it, that is, somebody holds a
\* pointer to it; and nobody holds one when the loop is over.
FrameAlive == /\ phase \in {"loop", "flight", "resolve"} => me # "null" \/ starter
              /\ phase = "done" => me = "null"

\* The promise is resolved at most once, and with the result of the last
\* iteration; an empty result never ends the loop.
OutcomeJustified ==
  /\ Len(outcome) <= 1
  /\ outcome # <<>> => phase = "done" /\ outcome = <<result>> /\ result # "empty"

\* A callable that throws, like a continuable that fails, ends the loop with the
\* exception, unless the null pointer is used.
FailureReported == result \in Failure ~> outcome = <<result>> \/ phase = "crashed"

\* A range loop calls the callable with one position after the other, and resolves
\* behind the call for the last one.  Unless the range was empty from the start, the
\* callable is never called with end.
RangeCovered ==
  range =>
    /\ \A i \in 2 .. Len(calls) : calls[i] = calls[i - 1] + 1
    /\ outcome = <<"value">> => calls # <<>> /\ calls[Len(calls)] = end - 1
    /\ calls # <<>> /\ calls[1] # end => \A i \in 1 .. Len(calls) : calls[i] < end
===============================================================================
