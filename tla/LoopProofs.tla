------------------------------- MODULE LoopProofs -------------------------------
(***************************************************************************)
(* The safety of cti::loop and cti::range_loop, for ranges and runs of any *)
(* length, and in both orders in which a compiler may evaluate the call of *)
(* the callable.                                                           *)
(***************************************************************************)
EXTENDS Loop, SequenceTheorems, TLAPS

\* What the variables may hold.
TypeOK ==
  /\ range \in BOOLEAN /\ starter \in BOOLEAN /\ nested \in BOOLEAN
  /\ begin \in Nat /\ end \in Nat
  /\ phase \in {"loop", "flight", "resolve", "done", "crashed"}
  /\ me \in {"stack", "handler", "null"}
  /\ calls \in Seq(Nat)
  /\ result \in Result \cup {"none"}
  /\ outcome \in {<<>>} \cup {<<r>> : r \in Result}

\* The pointer is on the stack or in the handler, until the iteration is over.
Held ==
  /\ phase = "loop" => me = "stack"
  /\ phase = "flight" => me = "handler"
  /\ phase = "resolve" => me # "null"
  /\ phase \in {"done", "crashed"} => me = "null"

\* Only an iteration that is over has a result, and only a loop that is over an outcome.
Outcome ==
  /\ phase \in {"loop", "flight"} => result = "none"
  /\ phase = "resolve" => result # "none"
  /\ phase # "done" => outcome = <<>>
  /\ phase = "done" => outcome = <<>> \/ (outcome = <<result>> /\ result \in Result \ {"empty"})

\* The last call was made with begin, or with the position before it once ++begin ran.
LastCall ==
  range =>
    /\ phase = "loop" => calls = <<>> \/ calls[Len(calls)] + 1 = begin
    /\ phase = "flight" => calls # <<>> /\ calls[Len(calls)] = begin
    /\ phase \in {"resolve", "done"} /\ result \in {"empty", "value"} =>
         /\ calls # <<>> /\ calls[Len(calls)] + 1 = begin
         /\ result = "value" => begin = end
         /\ result = "empty" => begin # end

Consecutive == range => \A i \in 2 .. Len(calls) : calls[i] = calls[i - 1] + 1

\* A range that was not empty is never left.
Inside ==
  range =>
    /\ calls = <<>> => begin <= end
    /\ calls # <<>> /\ calls[1] # end =>
         /\ \A i \in 1 .. Len(calls) : calls[i] < end
         /\ phase \in {"loop", "flight"} => begin < end
         /\ phase = "resolve" => begin <= end

IInv == TypeOK /\ Held /\ Outcome /\ LastCall /\ Consecutive /\ Inside
-------------------------------------------------------------------------------
\* The invariant holds initially.
LEMMA InitIInv == Init => IInv
  BY LoopAssumption DEF Init, IInv, TypeOK, Held, Outcome, LastCall, Consecutive, Inside

\* What another call adds to the calls.
LEMMA Called ==
  ASSUME calls \in Seq(Nat), begin \in Nat, calls' = Append(calls, begin)
  PROVE  /\ calls' \in Seq(Nat) /\ calls' # <<>>
         /\ Len(calls) \in Nat /\ Len(calls') = Len(calls) + 1
         /\ calls'[Len(calls')] = begin
         /\ \A i \in 1 .. Len(calls) : calls'[i] = calls[i]
         /\ calls = <<>> => Len(calls) = 0
         /\ calls # <<>> => Len(calls) > 0
<1>1. /\ Len(calls) \in Nat /\ calls' \in Seq(Nat) /\ Len(calls') = Len(calls) + 1
      /\ calls'[Len(calls) + 1] = begin
      /\ \A i \in 1 .. Len(calls) : calls'[i] = calls[i]
  BY AppendProperties, LenProperties
<1>2. calls' # <<>>
  BY <1>1
<1>3. (calls = <<>> => Len(calls) = 0) /\ (calls # <<>> => Len(calls) > 0)
  BY <1>1, EmptySeq
<1> QED
  BY <1>1, <1>2, <1>3

\* The positions keep following one another, and stay in the range.
LEMMA CallKeepsRange ==
  ASSUME IInv, phase = "loop", calls' = Append(calls, begin), UNCHANGED <<range, begin, end>>,
         phase' # "loop", result' \notin {"empty", "value"}
  PROVE  LastCall' /\ Consecutive' /\ Inside'
<1>1. calls \in Seq(Nat) /\ begin \in Nat /\ end \in Nat
  BY DEF IInv, TypeOK
<1>2. /\ calls' \in Seq(Nat) /\ calls' # <<>>
      /\ Len(calls) \in Nat /\ Len(calls') = Len(calls) + 1
      /\ calls'[Len(calls')] = begin
      /\ \A i \in 1 .. Len(calls) : calls'[i] = calls[i] /\ calls[i] \in Nat
      /\ calls = <<>> => Len(calls) = 0
      /\ calls # <<>> => Len(calls) > 0
  BY <1>1, Called, ElementOfSeq
<1>3. LastCall'
  BY <1>2 DEF LastCall
<1>4. Consecutive'
  <2> SUFFICES ASSUME range, NEW i \in 2 .. Len(calls')
               PROVE  calls'[i] = calls'[i - 1] + 1
    BY DEF Consecutive
  <2>1. CASE i = Len(calls')
    <3>1. calls # <<>> /\ i - 1 = Len(calls) /\ i - 1 \in 1 .. Len(calls)
      BY <1>2, <2>1
    <3>2. calls[Len(calls)] + 1 = begin
      BY <3>1 DEF IInv, LastCall
    <3> QED
      BY <1>2, <2>1, <3>1, <3>2
  <2>2. CASE i # Len(calls')
    <3>1. i \in 2 .. Len(calls) /\ i - 1 \in 1 .. Len(calls) /\ i \in 1 .. Len(calls)
      BY <1>2, <2>2
    <3>2. calls[i] = calls[i - 1] + 1
      BY <3>1 DEF IInv, Consecutive
    <3> QED
      BY <1>2, <3>1, <3>2
  <2> QED
    BY <2>1, <2>2
<1>5. Inside'
  <2> SUFFICES ASSUME range, calls'[1] # end
               PROVE  begin < end /\ \A i \in 1 .. Len(calls') : calls'[i] < end
    BY <1>1, <1>2 DEF Inside
  <2>1. CASE calls = <<>>
    <3>1. Len(calls') = 1 /\ calls'[1] = begin
      BY <1>2, <2>1
    <3>2. begin <= end
      BY <2>1 DEF IInv, Inside
    <3> QED
      BY <1>1, <3>1, <3>2
  <2>2. CASE calls # <<>>
    <3>1. calls'[1] = calls[1]
      BY <1>2, <2>2
    <3>2. begin < end /\ \A i \in 1 .. Len(calls) : calls[i] < end
      BY <2>2, <3>1 DEF IInv, Inside
    <3>3. \A i \in 1 .. Len(calls') : i = Len(calls') \/ i \in 1 .. Len(calls)
      BY <1>2
    <3> QED
      BY <1>2, <3>2, <3>3
  <2> QED
    BY <2>1, <2>2
<1> QED
  BY <1>3, <1>4, <1>5

\* Every step of an iteration preserves it.
LEMMA NextIInv == IInv /\ [Next]_vars => IInv'
<1> SUFFICES ASSUME IInv, [Next]_vars PROVE IInv'
  OBVIOUS
<1>1. CASE Call
  <2>1. TypeOK'
    BY <1>1, Called DEF Call, IInv, TypeOK
  <2>2. Held' /\ Outcome'
    BY <1>1 DEF Call, IInv, Held, Outcome
  <2>3. result' \notin {"empty", "value"}
    BY <1>1 DEF Call, IInv, Outcome
  <2> QED
    BY <1>1, <2>1, <2>2, <2>3, CallKeepsRange DEF Call, IInv
<1>2. CASE Throw
  <2>1. TypeOK'
    BY <1>2, Called DEF Throw, IInv, TypeOK, Result, Failure
  <2>2. Held' /\ Outcome'
    BY <1>2 DEF Throw, IInv, Held, Outcome
  <2>3. phase' # "loop" /\ result' \notin {"empty", "value"}
    BY <1>2 DEF Throw
  <2> QED
    BY <1>2, <2>1, <2>2, <2>3, CallKeepsRange DEF Throw, IInv
<1>3. CASE Starter
  BY <1>3 DEF Starter, IInv, TypeOK, Held, Outcome, LastCall, Consecutive, Inside
<1>4. ASSUME NEW r \in Result, Settle(r), begin' \in Nat
      PROVE  TypeOK' /\ Held' /\ Outcome' /\ Consecutive'
  <2>1. TypeOK'
    BY <1>4 DEF Settle, IInv, TypeOK
  <2>2. Held' /\ Outcome'
    BY <1>4 DEF Settle, IInv, Held, Outcome, Result, Failure
  <2>3. Consecutive'
    BY <1>4 DEF Settle, IInv, Consecutive
  <2> QED
    BY <2>1, <2>2, <2>3
<1>5. CASE Iterated
  <2>1. PICK r \in Result : Settle(r)
    BY <1>5 DEF Iterated
  <2>2. begin' \in Nat /\ ~range'
    BY <1>5, <2>1 DEF Iterated, Settle, IInv, TypeOK
  <2> QED
    BY <1>4, <2>1, <2>2 DEF IInv, LastCall, Inside
<1>6. CASE RangeIterated
  <2> DEFINE r == IF begin' # end THEN "empty" ELSE "value"
  <2>1. Settle(r) /\ begin' = begin + 1
    BY <1>6 DEF RangeIterated
  <2>2. r \in Result /\ begin' \in Nat /\ begin \in Nat /\ end \in Nat
    BY <2>1 DEF Result, IInv, TypeOK
  <2>3. /\ phase = "flight" /\ phase' = "resolve" /\ result' = r
        /\ UNCHANGED <<range, end, calls>>
    BY <2>1 DEF Settle
  <2>4. LastCall'
    BY <2>1, <2>2, <2>3 DEF IInv, LastCall
  <2>5. Inside'
    BY <2>1, <2>2, <2>3 DEF IInv, Inside, LastCall
  <2> QED
    BY <1>4, <2>1, <2>2, <2>4, <2>5 DEF IInv
<1>7. CASE RangeFailed
  <2>1. PICK r \in Failure : Settle(r)
    BY <1>7 DEF RangeFailed
  <2>2. begin' = begin /\ begin \in Nat /\ end \in Nat /\ r \in Result
    BY <1>7 DEF RangeFailed, Result, IInv, TypeOK
  <2>3. LastCall' /\ Inside'
    BY <2>1, <2>2 DEF Settle, Failure, IInv, LastCall, Inside
  <2> QED
    BY <1>4, <2>1, <2>2, <2>3 DEF IInv
<1>8. CASE Drop
  BY <1>8 DEF Drop, IInv, TypeOK, Held, Outcome, LastCall, Consecutive, Inside
<1>9. CASE Repeat
  <2>1. TypeOK' /\ Held' /\ Outcome' /\ Consecutive'
    BY <1>9 DEF Repeat, IInv, TypeOK, Held, Outcome, Consecutive
  <2>2. LastCall'
    BY <1>9 DEF Repeat, IInv, LastCall
  <2>3. Inside'
    BY <1>9 DEF Repeat, IInv, TypeOK, LastCall, Inside
  <2> QED
    BY <2>1, <2>2, <2>3 DEF IInv
<1>10. CASE Finish
  <2>1. TypeOK'
    BY <1>10 DEF Finish, IInv, TypeOK, Outcome
  <2>2. Held' /\ Outcome'
    BY <1>10 DEF Finish, IInv, TypeOK, Held, Outcome
  <2>3. LastCall' /\ Consecutive' /\ Inside'
    BY <1>10 DEF Finish, IInv, LastCall, Consecutive, Inside
  <2> QED
    BY <2>1, <2>2, <2>3 DEF IInv
<1>11. CASE UNCHANGED vars
  BY <1>11 DEF vars, IInv, TypeOK, Held, Outcome, LastCall, Consecutive, Inside
<1> QED
  BY <1>1, <1>2, <1>3, <1>5, <1>6, <1>7, <1>8, <1>9, <1>10, <1>11 DEF Next, Finished

\* It is an invariant of the specification.
LEMMA IInvariant == Spec => []IInv
<1> QED
  BY InitIInv, NextIInv, PTL DEF Spec
-------------------------------------------------------------------------------
\* The state of a loop keeps its type.
THEOREM TypeCorrect == Spec => []TypeOK
<1>1. IInv => TypeOK
  BY DEF IInv
<1> QED
  BY <1>1, IInvariant, PTL

\* While an iteration uses the loop frame, somebody holds a pointer to it, and nobody
\* does when the loop is over.
THEOREM FrameOutlivesIterations == Spec => []FrameAlive
<1>1. IInv => FrameAlive
  BY DEF IInv, Held, FrameAlive
<1> QED
  BY <1>1, IInvariant, PTL

\* The promise of a loop is resolved at most once, with what its last iteration
\* ended with, and never with an empty result.
THEOREM ResolvedWithLastResult == Spec => []OutcomeJustified
<1>1. IInv => OutcomeJustified
  <2> SUFFICES ASSUME IInv PROVE OutcomeJustified
    OBVIOUS
  <2>1. outcome = <<>> \/ (phase = "done" /\ outcome = <<result>> /\ result # "empty")
    BY DEF IInv, TypeOK, Outcome
  <2>2. CASE outcome = <<>>
    <3>1. Len(outcome) = 0
      BY <2>2
    <3> QED
      BY <2>2, <3>1 DEF OutcomeJustified
  <2>3. CASE phase = "done" /\ outcome = <<result>> /\ result # "empty"
    <3>1. Len(outcome) = 1
      BY <2>3
    <3> QED
      BY <2>3, <3>1 DEF OutcomeJustified
  <2> QED
    BY <2>1, <2>2, <2>3
<1> QED
  BY <1>1, IInvariant, PTL

\* A range loop calls the callable for one position after the other, up to the last
\* one, and never with end unless the range was empty.
THEOREM RangeIsCovered == Spec => []RangeCovered
<1>1. IInv => RangeCovered
  <2> SUFFICES ASSUME IInv, range PROVE RangeCovered
    BY DEF RangeCovered
  <2>1. outcome = <<"value">> => calls # <<>> /\ calls[Len(calls)] = end - 1
    <3> SUFFICES ASSUME outcome = <<"value">>
                 PROVE  calls # <<>> /\ calls[Len(calls)] = end - 1
      OBVIOUS
    <3>1. phase = "done" /\ outcome = <<result>>
      BY DEF IInv, Outcome
    <3>2. result = "value"
      BY <3>1
    <3>3. calls # <<>> /\ calls[Len(calls)] + 1 = begin /\ begin = end
      BY <3>1, <3>2 DEF IInv, LastCall
    <3>4. calls[Len(calls)] \in Nat
      BY <3>3, EmptySeq, LenProperties, ElementOfSeq DEF IInv, TypeOK
    <3> QED
      BY <3>3, <3>4
  <2> QED
    BY <2>1 DEF RangeCovered, IInv, Consecutive, Inside
<1> QED
  BY <1>1, IInvariant, PTL
-------------------------------------------------------------------------------
(* That a loop ends *)

\* The range of the loop was not empty when the loop began.
NotEmpty == range /\ (IF calls = <<>> THEN begin # end ELSE calls[1] # end)

\* How many calls were made, how far they have brought the loop, and how it may have ended:
\* with an outcome, or because an iteration or its handler is gone.
Counted ==
  /\ range /\ calls # <<>> => calls[Len(calls)] = calls[1] + Len(calls) - 1
  /\ NotEmpty => begin <= end
  /\ phase = "done" => outcome # <<>> \/ result = "none"
  /\ phase = "crashed" => result = "exception" /\ ArgumentsFirst

\* It holds initially.
LEMMA InitCounted == Init => Counted
  BY LoopAssumption DEF Init, Counted, NotEmpty

\* Every step keeps count.
LEMMA NextCounted == IInv /\ Counted /\ [Next]_vars => Counted'
<1> SUFFICES ASSUME IInv, Counted, [Next]_vars PROVE Counted'
  OBVIOUS
<1>1. ASSUME phase = "loop", calls' = Append(calls, begin), UNCHANGED <<range, begin, end>>
      PROVE  /\ range => calls'[Len(calls')] = calls'[1] + Len(calls') - 1
             /\ NotEmpty' => begin' <= end'
  <2>1. /\ calls \in Seq(Nat) /\ begin \in Nat /\ end \in Nat
        /\ calls' \in Seq(Nat) /\ calls' # <<>>
        /\ Len(calls) \in Nat /\ Len(calls') = Len(calls) + 1
        /\ calls'[Len(calls')] = begin
        /\ \A i \in 1 .. Len(calls) : calls'[i] = calls[i] /\ calls[i] \in Nat
        /\ calls = <<>> => Len(calls) = 0
        /\ calls # <<>> => Len(calls) > 0
    BY <1>1, Called, ElementOfSeq DEF IInv, TypeOK
  <2>2. CASE calls = <<>>
    <3>1. Len(calls') = 1 /\ calls'[1] = begin
      BY <2>1, <2>2
    <3> QED
      BY <1>1, <2>1, <2>2, <3>1 DEF Counted, NotEmpty
  <2>3. CASE calls # <<>>
    <3>1. 1 \in 1 .. Len(calls) /\ Len(calls) \in 1 .. Len(calls) /\ calls'[1] = calls[1]
      BY <2>1, <2>3
    <3>2. range => calls[Len(calls)] + 1 = begin
      BY <1>1, <2>3 DEF IInv, LastCall
    <3> QED
      BY <1>1, <2>1, <2>3, <3>1, <3>2 DEF Counted, NotEmpty
  <2> QED
    BY <2>2, <2>3
<1>2. CASE Call
  BY <1>1, <1>2 DEF Call, Counted
<1>3. CASE Throw
  BY <1>1, <1>3 DEF Throw, Counted
<1>4. CASE Starter
  BY <1>4 DEF Starter, Counted, NotEmpty
<1>5. CASE Iterated
  BY <1>5 DEF Iterated, Settle, Counted, NotEmpty
<1>6. CASE RangeIterated
  <2>1. NotEmpty' => begin' <= end'
    BY <1>6 DEF RangeIterated, Settle, NotEmpty, IInv, TypeOK, LastCall, Inside
  <2> QED
    BY <1>6, <2>1 DEF RangeIterated, Settle, Counted
<1>7. CASE RangeFailed
  BY <1>7 DEF RangeFailed, Settle, Counted, NotEmpty
<1>8. CASE Drop
  BY <1>8 DEF Drop, Counted, NotEmpty, IInv, Outcome
<1>9. CASE Repeat
  BY <1>9 DEF Repeat, Counted, NotEmpty
<1>10. CASE Finish
  <2>1. outcome' # <<>>
    BY <1>10 DEF Finish, IInv, TypeOK, Outcome
  <2> QED
    BY <1>10, <2>1 DEF Finish, Counted, NotEmpty
<1>11. CASE UNCHANGED vars
  BY <1>11 DEF vars, Counted, NotEmpty
<1> QED
  BY <1>2, <1>3, <1>4, <1>5, <1>6, <1>7, <1>8, <1>9, <1>10, <1>11 DEF Next, Finished

\* It is an invariant of the specification, too.
LEMMA CountedInvariant == Spec => [](IInv /\ Counted)
<1> QED
  BY InitIInv, NextIInv, InitCounted, NextCounted, PTL DEF Spec

\* The calls a range loop makes are as many as the range has positions, and no more.
CallsCounted ==
  NotEmpty =>
    /\ calls # <<>> => Len(calls) <= end - calls[1]
    /\ outcome = <<"value">> => Len(calls) = end - calls[1]

\* A range loop calls the callable once for each position of a range that is not empty,
\* and at most as often if it fails or is dropped.
THEOREM OneCallPerPosition == Spec => []CallsCounted
<1>1. IInv /\ Counted => CallsCounted
  <2> SUFFICES ASSUME IInv, Counted, NotEmpty PROVE CallsCounted
    BY DEF CallsCounted
  <2>1. /\ calls \in Seq(Nat) /\ begin \in Nat /\ end \in Nat /\ Len(calls) \in Nat
        /\ calls # <<>> => Len(calls) > 0
        /\ \A i \in 1 .. Len(calls) : calls[i] \in Nat
    BY EmptySeq, LenProperties, ElementOfSeq DEF IInv, TypeOK
  <2>2. ASSUME calls # <<>>
        PROVE  /\ calls[1] \in Nat /\ calls[Len(calls)] = calls[1] + Len(calls) - 1
               /\ calls[Len(calls)] < end
    BY <2>1, <2>2 DEF IInv, Inside, Counted, NotEmpty
  <2>3. ASSUME outcome = <<"value">>
        PROVE  calls # <<>> /\ calls[Len(calls)] + 1 = end
    <3>1. phase = "done" /\ outcome = <<result>>
      BY <2>3 DEF IInv, Outcome
    <3>2. result = "value"
      BY <2>3, <3>1
    <3> QED
      BY <3>1, <3>2 DEF IInv, LastCall, NotEmpty
  <2>4. calls # <<>> => Len(calls) <= end - calls[1]
    BY <2>1, <2>2
  <2>5. outcome = <<"value">> => Len(calls) = end - calls[1]
    BY <2>1, <2>2, <2>3
  <2> QED
    BY <2>4, <2>5 DEF CallsCounted
<1> QED
  BY <1>1, CountedInvariant, PTL

\* What is left of a range loop: five steps at most for each position still to come, and
\* the return of the continuation that made the frame.
PhaseRank == CASE phase = "loop" -> 4 [] phase = "flight" -> 3
               [] phase = "resolve" -> (IF result \in Failure THEN 1 ELSE 5)
               [] phase \in {"done", "crashed"} -> 0
Ahead     == 5 * (end - begin) + PhaseRank + (IF starter THEN 1 ELSE 0)

\* A range loop whose range is not empty ends: each of its steps leaves fewer.
EveryStepCounts == NotEmpty => Ahead \in Nat /\ NotEmpty' /\ Ahead' < Ahead

\* The loop ends on its own account, without a bound on the number of calls.
THEOREM RangeLoopTerminates == Spec => [][EveryStepCounts]_vars
<1>1. IInv /\ Counted /\ [Next]_vars => [EveryStepCounts]_vars
  <2> SUFFICES ASSUME IInv, Counted, Next, NotEmpty, ~UNCHANGED vars
               PROVE  Ahead \in Nat /\ NotEmpty' /\ Ahead' < Ahead
    BY DEF EveryStepCounts
  <2>1. /\ begin \in Nat /\ end \in Nat /\ begin <= end /\ starter \in BOOLEAN /\ range
        /\ calls \in Seq(Nat) /\ phase \in {"loop", "flight", "resolve", "done", "crashed"}
    BY DEF IInv, TypeOK, Counted, NotEmpty
  <2>2. Ahead \in Nat
    BY <2>1 DEF Ahead, PhaseRank
  <2>3. CASE Call \/ Throw
    <3>1. calls' = Append(calls, begin) /\ UNCHANGED <<range, begin, end, starter>>
      BY <2>3 DEF Call, Throw
    <3>2. /\ calls' # <<>>
          /\ calls'[1] = IF calls = <<>> THEN begin ELSE calls[1]
      BY <2>1, <3>1, Called
    <3>3. NotEmpty'
      BY <3>1, <3>2 DEF NotEmpty
    <3>4. PhaseRank' < PhaseRank /\ PhaseRank \in Nat /\ PhaseRank' \in Nat
      BY <2>3 DEF Call, Throw, PhaseRank, Failure
    <3>5. begin' = begin /\ end' = end /\ starter' = starter
      BY <3>1
    <3>6. Ahead' < Ahead
      <4> DEFINE p == PhaseRank
                 q == PhaseRank'
                 d == 5 * (end - begin) + (IF starter THEN 1 ELSE 0)
      <4>1. Ahead = d + p /\ Ahead' = d + q
        <5>1. d \in Int /\ p \in Nat /\ q \in Nat
          BY <2>1, <3>4
        <5> QED
          BY <2>1, <5>1, <3>5 DEF Ahead
      <4>2. d \in Int /\ p \in Nat /\ q \in Nat /\ q < p
        BY <2>1, <3>4
      <4> HIDE DEF p, q, d
      <4> QED
        BY <4>1, <4>2
    <3> QED
      BY <2>2, <3>3, <3>6
  <2>4. CASE Starter
    <3>1. UNCHANGED <<range, begin, end, phase, calls, result>> /\ starter /\ ~starter'
      BY <2>4 DEF Starter
    <3>2. PhaseRank' = PhaseRank /\ PhaseRank \in Nat /\ NotEmpty'
      BY <2>1, <3>1 DEF PhaseRank, NotEmpty
    <3> QED
      BY <2>1, <2>2, <3>1, <3>2 DEF Ahead
  <2>5. CASE RangeIterated
    <3>1. /\ phase = "flight" /\ phase' = "resolve" /\ begin' = begin + 1
          /\ UNCHANGED <<range, end, starter, calls>> /\ result' \in {"empty", "value"}
          /\ calls # <<>>
      BY <2>1, <2>5 DEF RangeIterated, Settle, IInv, LastCall
    <3>2. PhaseRank = 3 /\ PhaseRank' = 5 /\ NotEmpty'
      BY <3>1 DEF PhaseRank, NotEmpty, Failure
    <3> QED
      BY <2>1, <2>2, <3>1, <3>2 DEF Ahead
  <2>6. CASE RangeFailed
    <3>1. /\ phase = "flight" /\ phase' = "resolve" /\ result' \in Failure
          /\ UNCHANGED <<range, begin, end, starter, calls>>
      BY <2>6 DEF RangeFailed, Settle
    <3>2. PhaseRank = 3 /\ PhaseRank' = 1 /\ NotEmpty'
      BY <3>1 DEF PhaseRank, NotEmpty
    <3> QED
      BY <2>1, <2>2, <3>1, <3>2 DEF Ahead
  <2>7. CASE Drop \/ Repeat \/ Finish
    <3>1. UNCHANGED <<range, begin, end, starter, calls>>
      BY <2>7 DEF Drop, Repeat, Finish
    <3>2. /\ PhaseRank' < PhaseRank /\ PhaseRank \in Nat /\ PhaseRank' \in Nat
          /\ NotEmpty'
      BY <2>7, <3>1 DEF Drop, Repeat, Finish, PhaseRank, NotEmpty, Failure
    <3>3. Ahead' < Ahead
      <4> DEFINE p == PhaseRank
                 q == PhaseRank'
                 d == 5 * (end - begin) + (IF starter THEN 1 ELSE 0)
      <4>1. Ahead = d + p /\ Ahead' = d + q
        <5>1. d \in Int /\ p \in Nat /\ q \in Nat
          BY <2>1, <3>2
        <5> QED
          BY <2>1, <3>1, <5>1 DEF Ahead
      <4>2. d \in Int /\ p \in Nat /\ q \in Nat /\ q < p
        BY <2>1, <3>2
      <4> HIDE DEF p, q, d
      <4> QED
        BY <4>1, <4>2
    <3> QED
      BY <2>2, <3>2, <3>3
  <2>8. ~Iterated
    BY <2>1 DEF Iterated
  <2> QED
    BY <2>2, <2>3, <2>4, <2>5, <2>6, <2>7, <2>8 DEF Next, Finished
<1> QED
  BY <1>1, CountedInvariant, PTL DEF Spec

\* What ends an iteration with a failure ends the loop: the failure is about to be resolved
\* or was resolved, unless the null pointer was used, which no compiler does since C++17.
FailureKept ==
  /\ result \in Failure => phase = "resolve" \/ outcome = <<result>> \/ phase = "crashed"
  /\ phase = "crashed" => ArgumentsFirst
  /\ phase = "done" => outcome = <<result>> \/ (outcome = <<>> /\ result = "none")

\* Nothing is called behind a failure or an outcome, and neither of them is changed.
EndsForGood ==
  /\ result \in Failure => result' = result /\ calls' = calls
  /\ outcome # <<>> => UNCHANGED <<outcome, result, calls>>

\* All that FailureReported says, but that the next step is taken: a loop never passes by a
\* failure, of the callable or of its continuable, and never calls again behind it.
THEOREM FailureEndsTheLoop == Spec => []FailureKept /\ [][EndsForGood]_vars
<1>1. IInv /\ Counted => FailureKept
  BY DEF IInv, TypeOK, Outcome, Counted, FailureKept, Failure
<1>2. IInv /\ Counted /\ [Next]_vars => [EndsForGood]_vars
  <2> SUFFICES ASSUME IInv, Counted, Next PROVE EndsForGood \/ UNCHANGED vars
    OBVIOUS
  <2>1. /\ result \in Failure => phase \in {"resolve", "done", "crashed"} /\ result # "empty"
        /\ outcome # <<>> => phase = "done"
    BY DEF IInv, TypeOK, Outcome, Failure
  <2>2. CASE Call \/ Throw \/ Starter \/ Drop \/ Repeat \/ Finish
    BY <2>1, <2>2 DEF Call, Throw, Starter, Drop, Repeat, Finish, EndsForGood
  <2>3. CASE Iterated \/ RangeIterated \/ RangeFailed
    BY <2>1, <2>3 DEF Iterated, RangeIterated, RangeFailed, Settle, EndsForGood
  <2> QED
    BY <2>2, <2>3 DEF Next, Finished
<1>3. Spec => []FailureKept
  BY <1>1, CountedInvariant, PTL
<1>4. Spec => [][EndsForGood]_vars
  BY <1>2, CountedInvariant, PTL DEF Spec
<1> QED
  BY <1>3, <1>4
=============================================================================
