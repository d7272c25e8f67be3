------------------------------ MODULE ChainProofs ------------------------------
(***************************************************************************)
(* The safety of a chain of handlers, for chains of any length made of any *)
(* handlers, with any exceptions; and behind it that of the result<...> in *)
(* which a handler may say how the chain goes on.                          *)
(***************************************************************************)
EXTENDS Chain, ResultVariant, SequenceTheorems, TLAPS

\* What an executor has, or a handler is called with, is for that handler.
Dispatched == where \in {"queued", "handler"} => Handles

IInv == TypeOK /\ Dispatched /\ ExceptionsAccounted /\ FirstHandler
-------------------------------------------------------------------------------
(* Chains are sequences *)

\* A chain is a sequence of stages that is not too long.
LEMMA ChainIsSequence ==
  ASSUME NEW max \in Nat, NEW s
  PROVE  s \in Chains(max) <=> s \in Seq(Stage) /\ Len(s) <= max
<1>1. ASSUME s \in Chains(max) PROVE s \in Seq(Stage) /\ Len(s) <= max
  <2>1. PICK n \in 0 .. max : s \in [1 .. n -> Stage]
    BY <1>1 DEF Chains
  <2> QED
    BY <2>1
<1>2. ASSUME s \in Seq(Stage), Len(s) <= max PROVE s \in Chains(max)
  <2>1. Len(s) \in 0 .. max /\ s \in [1 .. Len(s) -> Stage]
    BY <1>2
  <2> QED
    BY <2>1 DEF Chains
<1> QED
  BY <1>1, <1>2

\* Nothing to come is a chain, and so is one stage if there may be one.
LEMMA ShortChains ==
  /\ \A max \in Nat : <<>> \in Chains(max)
  /\ \A max \in Nat, e \in BOOLEAN : max > 0 => <<Then(e)>> \in Chains(max)
<1>1. ASSUME NEW max \in Nat PROVE <<>> \in Chains(max)
  <2>1. <<>> \in Seq(Stage) /\ Len(<<>>) <= max
    BY EmptySeq
  <2> QED
    BY <2>1, ChainIsSequence
<1>2. ASSUME NEW max \in Nat, NEW e \in BOOLEAN, max > 0 PROVE <<Then(e)>> \in Chains(max)
  <2>1. Then(e) \in Stage
    <3>1. Then(e) \in {Then(e), Fail(e), NextStage(e)}
      OBVIOUS
    <3> QED
      BY <3>1 DEF Stage
  <2>2. <<Then(e)>> \in Seq(Stage) /\ Len(<<Then(e)>>) = 1
    BY <2>1
  <2>3. Len(<<Then(e)>>) <= max
    BY <1>2, <2>2
  <2> QED
    BY <2>2, <2>3, ChainIsSequence
<1> QED
  BY <1>1, <1>2

\* Behind the first stage of a chain is a chain.
LEMMA TailOfChain ==
  ASSUME NEW max \in Nat, NEW s \in Chains(max), s # <<>>
  PROVE  Tail(s) \in Chains(max) /\ Len(Tail(s)) = Len(s) - 1 /\ Head(s) \in Stage
<1>1. s \in Seq(Stage) /\ Len(s) <= max
  BY ChainIsSequence
<1>2. Tail(s) \in Seq(Stage) /\ Len(Tail(s)) = Len(s) - 1 /\ Head(s) \in Stage
  BY <1>1, HeadTailProperties
<1>3. Len(Tail(s)) <= max
  BY <1>1, <1>2, LenProperties
<1>4. Tail(s) \in Chains(max)
  BY <1>2, <1>3, ChainIsSequence
<1> QED
  BY <1>2, <1>4

\* A chain in front of another one that leaves it room is a chain.
LEMMA ConcatOfChains ==
  ASSUME NEW max \in Nat, NEW t \in Chains(max), NEW s \in Chains(max - Len(t))
  PROVE  s \o t \in Chains(max)
<1>1. t \in Seq(Stage) /\ Len(t) <= max
  BY ChainIsSequence
<1>2. max - Len(t) \in Nat
  BY <1>1
<1>3. s \in Seq(Stage) /\ Len(s) <= max - Len(t)
  BY <1>2, ChainIsSequence
<1>4. s \o t \in Seq(Stage) /\ Len(s \o t) = Len(s) + Len(t)
  BY <1>1, <1>3, ConcatProperties
<1>5. Len(s \o t) <= max
  BY <1>1, <1>3, <1>4, LenProperties
<1> QED
  BY <1>4, <1>5, ChainIsSequence
-------------------------------------------------------------------------------
\* The invariant holds initially.
LEMMA InitIInv == Init => IInv
<1> SUFFICES ASSUME Init PROVE IInv
  OBVIOUS
<1> USE ChainAssumption DEF Init, Begins, Promised, MadeReady
<1>1. TypeOK
  BY DEF TypeOK, Place, Ending, Failures
<1>2. Dispatched /\ ExceptionsAccounted /\ FirstHandler
  BY DEF Dispatched, ExceptionsAccounted, FirstHandler
<1> QED
  BY <1>1, <1>2 DEF IInv

\* Every step of the chain, of its handlers and of its executors preserves it.
LEMMA NextIInv == IInv /\ [Next]_vars => IInv'
<1> SUFFICES ASSUME IInv, [Next]_vars PROVE IInv'
  OBVIOUS
<1> USE ChainAssumption DEF IInv, TypeOK
<1>1. CASE Resolve
  <2> USE <1>1 DEF Resolve, Raise
  <2>1. TypeOK'
    BY TailOfChain DEF Place, Ending, Failures, Dispatched, Handles
  <2>2. Dispatched' /\ ExceptionsAccounted' /\ FirstHandler'
    BY DEF Dispatched, Handles, Failed, Path, ExceptionsAccounted, FirstHandler
  <2> QED
    BY <2>1, <2>2
<1>2. CASE Unpack
  <2> USE <1>2 DEF Unpack, Raise
  <2>1. TypeOK'
    BY TailOfChain DEF Place, Ending, Failures, Dispatched, Handles
  <2>2. Dispatched' /\ ExceptionsAccounted' /\ FirstHandler'
    BY DEF Dispatched, Handles, Failed, Path, ExceptionsAccounted, FirstHandler
  <2> QED
    BY <2>1, <2>2
<1>3. CASE Drop
  <2> USE <1>3 DEF Drop, End
  <2>1. TypeOK'
    BY ShortChains DEF Place, Ending, Failures, Dispatched, Handles
  <2>2. Dispatched' /\ ExceptionsAccounted' /\ FirstHandler'
    BY DEF Dispatched, Handles, Failed, Path, ExceptionsAccounted, FirstHandler
  <2> QED
    BY <2>1, <2>2
<1>4. CASE Async
  <2> USE <1>4 DEF Async, Raise
  <2>1. TypeOK'
    <3>1. PICK e \in BOOLEAN : Raise("value", <<Then(e)>> \o rest)
      BY DEF Raise
    <3>2. Len(rest) \in Nat /\ MaxStages - Len(rest) \in Nat /\ MaxStages - Len(rest) > 0
      BY ChainIsSequence
    <3>3. <<Then(e)>> \o rest \in Chains(MaxStages)
      BY <3>2, ShortChains, ConcatOfChains
    <3> QED
      BY <3>1, <3>3 DEF Raise, Place, Ending
  <2>2. Dispatched' /\ ExceptionsAccounted' /\ FirstHandler'
    BY DEF Dispatched, Handles, Failed, Path, ExceptionsAccounted, FirstHandler
  <2> QED
    BY <2>1, <2>2
<1>5. CASE Forward
  <2> USE <1>5 DEF Forward
  <2>1. TypeOK'
    BY TailOfChain DEF Place, Ending, Failures, Dispatched, Handles
  <2>2. Dispatched' /\ ExceptionsAccounted' /\ FirstHandler'
    BY DEF Dispatched, Handles, Failed, Path, ExceptionsAccounted, FirstHandler
  <2> QED
    BY <2>1, <2>2
<1>6. CASE Dispatch
  <2> USE <1>6 DEF Dispatch
  <2>1. TypeOK'
    BY TailOfChain DEF Place, Ending, Failures, Dispatched, Handles
  <2>2. Dispatched' /\ ExceptionsAccounted' /\ FirstHandler'
    BY DEF Dispatched, Handles, Failed, Path, ExceptionsAccounted, FirstHandler
  <2> QED
    BY <2>1, <2>2
<1>7. CASE FinalCallback
  <2> USE <1>7 DEF FinalCallback, End
  <2>1. TypeOK'
    BY ShortChains DEF Place, Ending, Failures, Dispatched, Handles
  <2>2. Dispatched' /\ ExceptionsAccounted' /\ FirstHandler'
    BY DEF Dispatched, Handles, Failed, Path, ExceptionsAccounted, FirstHandler
  <2> QED
    BY <2>1, <2>2
<1>8. CASE ExecutorRuns
  <2> USE <1>8 DEF ExecutorRuns
  <2>1. TypeOK'
    BY TailOfChain DEF Place, Ending, Failures, Dispatched, Handles
  <2>2. Dispatched' /\ ExceptionsAccounted' /\ FirstHandler'
    BY DEF Dispatched, Handles, Failed, Path, ExceptionsAccounted, FirstHandler
  <2> QED
    BY <2>1, <2>2
<1>9. CASE ExecutorRejects
  <2> USE <1>9 DEF ExecutorRejects
  <2>1. TypeOK'
    BY TailOfChain DEF Place, Ending, Failures, Dispatched, Handles
  <2>2. Dispatched' /\ ExceptionsAccounted' /\ FirstHandler'
    BY DEF Dispatched, Handles, Failed, Path, ExceptionsAccounted, FirstHandler
  <2> QED
    BY <2>1, <2>2
<1>10. CASE ExecutorDrops
  <2> USE <1>10 DEF ExecutorDrops, End
  <2>1. TypeOK'
    BY ShortChains DEF Place, Ending, Failures, Dispatched, Handles
  <2>2. Dispatched' /\ ExceptionsAccounted' /\ FirstHandler'
    BY DEF Dispatched, Handles, Failed, Path, ExceptionsAccounted, FirstHandler
  <2> QED
    BY <2>1, <2>2
<1>11. CASE ReturnsVoid
  <2> USE <1>11 DEF ReturnsVoid, Answers, Raise, End
  <2>1. TypeOK'
    BY ShortChains, TailOfChain DEF Place, Ending, Failures, Dispatched, Handles
  <2>2. Dispatched' /\ ExceptionsAccounted' /\ FirstHandler'
    BY DEF Dispatched, Handles, Failed, Path, ExceptionsAccounted, FirstHandler
  <2> QED
    BY <2>1, <2>2
<1>12. CASE ReturnsResult
  <2> USE <1>12 DEF ReturnsResult, Answers, Raise
  <2>1. TypeOK'
    BY TailOfChain DEF Place, Ending, Failures, Dispatched, Handles
  <2>2. Dispatched' /\ ExceptionsAccounted' /\ FirstHandler'
    BY DEF Dispatched, Handles, Failed, Path, ExceptionsAccounted, FirstHandler
  <2> QED
    BY <2>1, <2>2
<1>13. CASE ReturnsAgain
  <2> USE <1>13 DEF ReturnsAgain, Answers, Raise
  <2>1. TypeOK'
    BY TailOfChain DEF Place, Ending, Failures, Dispatched, Handles
  <2>2. Dispatched' /\ ExceptionsAccounted' /\ FirstHandler'
    BY DEF Dispatched, Handles, Failed, Path, ExceptionsAccounted, FirstHandler
  <2> QED
    BY <2>1, <2>2
<1>14. CASE ReturnsEmpty
  <2> USE <1>14 DEF ReturnsEmpty, Answers, End
  <2>1. TypeOK'
    BY ShortChains DEF Place, Ending, Failures, Dispatched, Handles
  <2>2. Dispatched' /\ ExceptionsAccounted' /\ FirstHandler'
    BY DEF Dispatched, Handles, Failed, Path, ExceptionsAccounted, FirstHandler
  <2> QED
    BY <2>1, <2>2
<1>15. CASE ReturnsContinuable
  <2> USE <1>15 DEF ReturnsContinuable, Answers, Begins, MadeReady, Promised
  <2>1. TypeOK'
    <3>1. rest # <<>> /\ Tail(rest) \in Chains(MaxStages)
      BY TailOfChain DEF Dispatched, Handles
    <3>2. rest' \in Chains(MaxStages)
      <4>1. PICK inner \in Chains(MaxStages - Len(Tail(rest))) : rest' = inner \o Tail(rest)
        OBVIOUS
      <4> QED
        BY <3>1, <4>1, ConcatOfChains
    <3>3. where' \in Place /\ signal' \in {"none", "value", "canceled"} \cup Error
      BY DEF Place, Failures
    <3> QED
      BY <3>2, <3>3
  <2>2. Dispatched' /\ ExceptionsAccounted' /\ FirstHandler'
    BY DEF Dispatched, Handles, Failed, Path, ExceptionsAccounted, FirstHandler
  <2> QED
    BY <2>1, <2>2
<1>16. CASE UNCHANGED vars
  BY <1>16 DEF vars, Dispatched, Handles, Failed, Path, ExceptionsAccounted, FirstHandler
<1> QED
  BY <1>1, <1>2, <1>3, <1>4, <1>5, <1>6, <1>7, <1>8, <1>9, <1>10, <1>11, <1>12, <1>13,
     <1>14, <1>15, <1>16
     DEF Next, Returns, Finished

\* It is an invariant of the specification.
LEMMA IInvariant == Spec => []IInv
<1> QED
  BY InitIInv, NextIInv, PTL DEF Spec
-------------------------------------------------------------------------------
\* The stages still to come are a chain within the bound, and what is in flight is a
\* result, the empty exception or an exception of the program.
THEOREM TypeCorrect == Spec => []TypeOK
<1> QED
  BY IInvariant, PTL DEF IInv

\* A handler is called, and an executor given work, only with what the handler handles.
THEOREM DispatchedToItsHandler == Spec => []Dispatched
<1> QED
  BY IInvariant, PTL DEF IInv

\* No exception is lost on its way through a chain, whatever the stages and executors do.
THEOREM NoExceptionVanishes == Spec => []ExceptionsAccounted
<1> QED
  BY IInvariant, PTL DEF IInv

\* A result or a failure never passes a stage that would have handled it.
THEOREM NoHandlerPassedBy == Spec => []FirstHandler
<1> QED
  BY IInvariant, PTL DEF IInv
-------------------------------------------------------------------------------
(* That a chain comes to its end *)

\* Something is in flight as soon as the promise is resolved.  How the chain ended, and what
\* it had in flight then: it completes with a value, and only an exception that nobody
\* handled traps.
EndingTrue ==
  /\ where \in {"ready", "arriving", "queued", "handler"} => signal # "none"
  /\ where = "ended" <=> how # "running"
  /\ where = "ended" => rest = <<>>
  /\ how = "completed" => signal = "value"
  /\ how = "canceled" => signal = "canceled"
  /\ how = "trapped" => signal \in Error

\* It holds initially.
LEMMA InitEndingTrue == Init => EndingTrue
  BY ChainAssumption DEF Init, Begins, Promised, MadeReady, Failures, EndingTrue

\* Every step that ends a chain says how.
LEMMA NextEndingTrue == IInv /\ EndingTrue /\ [Next]_vars => EndingTrue'
<1> SUFFICES ASSUME IInv, EndingTrue, [Next]_vars PROVE EndingTrue'
  OBVIOUS
<1> USE ChainAssumption DEF EndingTrue
<1>1. CASE Resolve \/ Drop \/ Async \/ Unpack
  BY <1>1 DEF Resolve, Drop, Async, Unpack, Raise, End, Failures
<1>2. CASE Forward \/ Dispatch
  BY <1>2 DEF Forward, Dispatch
<1>3. CASE FinalCallback
  <2>1. signal \in {"none", "value", "canceled"} \cup Error
    BY DEF IInv, TypeOK
  <2>2. signal # "none"
    BY <1>3, <2>1 DEF FinalCallback, End
  <2> QED
    BY <1>3, <2>1, <2>2 DEF FinalCallback, End
<1>4. CASE ExecutorRuns \/ ExecutorRejects \/ ExecutorDrops
  BY <1>4 DEF ExecutorRuns, ExecutorRejects, ExecutorDrops, End, Failures
<1>5. CASE ReturnsVoid \/ ReturnsEmpty
  BY <1>5 DEF ReturnsVoid, ReturnsEmpty, Answers, End, Raise
<1>6. CASE ReturnsResult \/ ReturnsAgain \/ ReturnsContinuable
  BY <1>6 DEF ReturnsResult, ReturnsAgain, ReturnsContinuable, Answers, Raise, Begins,
     Promised, MadeReady, Failures
<1>7. CASE UNCHANGED vars
  BY <1>7 DEF vars
<1> QED
  BY <1>1, <1>2, <1>3, <1>4, <1>5, <1>6, <1>7 DEF Next, Returns, Finished

\* The two invariants together.
LEMMA EndingInvariant == Spec => [](IInv /\ EndingTrue)
<1> QED
  BY InitIInv, NextIInv, InitEndingTrue, NextEndingTrue, PTL DEF Spec

\* A chain that has ended does nothing any more: it is resolved, dropped or stopped once.
EndsOnce == where = "ended" => UNCHANGED vars

\* A chain ends once, with nothing of it left, in the way that what it had in flight calls
\* for.
THEOREM EndsOnceAndJustified == Spec => []EndingTrue /\ [][EndsOnce]_vars
<1>1. IInv /\ EndingTrue /\ [Next]_vars => [EndsOnce]_vars
  BY DEF Next, Returns, Resolve, Drop, Async, Unpack, Forward, Dispatch, FinalCallback,
     ExecutorRuns, ExecutorRejects, ExecutorDrops, ReturnsVoid, ReturnsResult, ReturnsAgain,
     ReturnsEmpty, ReturnsContinuable, Answers, Finished, EndsOnce
<1>2. Spec => []EndingTrue
  BY EndingInvariant, PTL
<1>3. Spec => [][EndsOnce]_vars
  BY <1>1, EndingInvariant, PTL DEF Spec
<1> QED
  BY <1>2, <1>3

\* What the library does on its own: it unpacks what is ready, and calls one stage after
\* the other until somebody else has the chain.
OnItsWay == where \in {"ready", "arriving"}
CallsOn  == Unpack \/ Forward \/ Dispatch \/ FinalCallback

\* The calls that may still follow: one for each stage, the final callback, and one to
\* unpack what is ready.
Hops == Len(rest) + (IF where = "ready" THEN 2 ELSE 1)

\* While a chain is on its way, only the library moves it, and every call of it comes to
\* one of the others or uses up one of the hops.
HopByHop ==
  OnItsWay =>
    /\ CallsOn
    /\ where' \in {"handler", "queued", "ended"} \/ (where' = "arriving" /\ Hops' < Hops)
    /\ Hops \in Nat

\* All that Progress says, but that the library's next call is made: a chain on its way
\* comes to a handler, an executor or its end in as many calls as it has stages, and two.
THEOREM NeverStalls == Spec => [][HopByHop]_vars
<1>1. IInv /\ [Next]_vars => [HopByHop]_vars
  <2> SUFFICES ASSUME IInv, Next, OnItsWay, ~UNCHANGED vars
               PROVE  /\ CallsOn
                      /\ \/ where' \in {"handler", "queued", "ended"}
                         \/ where' = "arriving" /\ Hops' < Hops
                      /\ Hops \in Nat
    BY DEF HopByHop
  <2>1. /\ Len(rest) \in Nat
        /\ rest # <<>> => Len(Tail(rest)) = Len(rest) - 1
    BY ChainAssumption, ChainIsSequence, TailOfChain DEF IInv, TypeOK
  <2>2. CallsOn
    BY DEF OnItsWay, CallsOn, Next, Returns, Resolve, Drop, Async, ExecutorRuns,
       ExecutorRejects, ExecutorDrops, ReturnsVoid, ReturnsResult, ReturnsAgain,
       ReturnsEmpty, ReturnsContinuable, Answers, Finished
  <2>3. Hops \in Nat
    BY <2>1 DEF Hops
  <2>4. CASE Unpack
    <3>1. rest' = rest /\ where = "ready" /\ where' = "arriving"
      BY <2>4 DEF Unpack, Raise
    <3> QED
      BY <2>1, <2>2, <2>3, <3>1 DEF Hops
  <2>5. CASE Forward
    <3>1. rest # <<>> /\ rest' = Tail(rest) /\ where = "arriving" /\ where' = "arriving"
      BY <2>5 DEF Forward
    <3> QED
      BY <2>1, <2>2, <2>3, <3>1 DEF Hops
  <2>6. CASE Dispatch \/ FinalCallback
    BY <2>2, <2>3, <2>6 DEF Dispatch, FinalCallback, End
  <2> QED
    BY <2>2, <2>4, <2>5, <2>6 DEF CallsOn
<1> QED
  BY <1>1, IInvariant, PTL DEF Spec
-------------------------------------------------------------------------------
(* result<...> and its storage *)

\* The types of a storage, and that what the program has taken it cannot give again.
Storage ==
  /\ exists \subseteq Variant
  /\ slot \in [Variant -> Slot]
  /\ memory \in [Variant -> Object \cup {Raw}]
  /\ unused \subseteq Content /\ taken \subseteq Content \ unused
  /\ threw \in BOOLEAN /\ misuse \in BOOLEAN

ResultInv == Storage /\ SlotTruthful /\ NothingLeaks

\* destroy() leaves raw memory behind, whatever threw before, and destroys what is there
\* unless something did.
LEMMA DestroyedIsRaw ==
  ASSUME ResultInv, NEW v \in Variant
  PROVE  /\ Destroyed(v) = Raw
         /\ ~threw /\ v \in exists => ~BadDestroy(v)
<1>1. Destroyed(v) = Raw
  BY DEF Destroyed, Raw, ResultInv, NothingLeaks, Storage, Object
<1>2. ASSUME ~threw, v \in exists PROVE ~BadDestroy(v)
  BY <1>2 DEF BadDestroy, Raw, ResultInv, Storage, SlotTruthful, Slot, Is
<1> QED
  BY <1>1, <1>2

\* The invariant holds initially.
LEMMA ResultInitInv == ResultInit => ResultInv
<1> QED
  BY VariantAssumption
     DEF ResultInit, ResultInv, Storage, SlotTruthful, NothingLeaks, Slot, Object,
         Raw, Is

\* Every operation on a result preserves it, whether it throws or not.
LEMMA ResultNextInv == ResultInv /\ [ResultNext]_resultVars => ResultInv'
<1> SUFFICES ASSUME ResultInv, [ResultNext]_resultVars PROVE ResultInv'
  OBVIOUS
<1> USE VariantAssumption DEF ResultInv, Storage, SlotTruthful, NothingLeaks,
        Slot, Object, Raw, Is
<1>1. ASSUME NEW v \in Variant, Make(v) PROVE ResultInv'
  BY <1>1 DEF Make, Construct
<1>2. ASSUME NEW v \in Variant, SetEmpty(v) PROVE ResultInv'
  BY <1>2, DestroyedIsRaw DEF SetEmpty
<1>3. ASSUME NEW v \in Variant, NEW s \in Slot \ {"empty"},
             NEW c \in unused \cup {"moved"}, Set(v, s, c)
      PROVE  ResultInv'
  BY <1>3, DestroyedIsRaw DEF Set, BadConstruct
<1>4. ASSUME NEW v \in Variant, Take(v) PROVE ResultInv'
  BY <1>4 DEF Take, Moved
<1>5. ASSUME NEW v \in Variant, Destruct(v) PROVE ResultInv'
  BY <1>5, DestroyedIsRaw DEF Destruct, BadConstruct
<1>6. ASSUME NEW v \in Variant, NEW c \in Content, SetThrows(v, c) PROVE ResultInv'
  BY <1>6, DestroyedIsRaw DEF SetThrows
<1>7. ASSUME NEW v \in Variant, NEW w \in Variant, MoveConstruct(v, w) PROVE ResultInv'
  BY <1>7, DestroyedIsRaw DEF MoveConstruct
<1>8. ASSUME NEW v \in Variant, NEW w \in Variant, MoveConstructThrows(v, w) PROVE ResultInv'
  BY <1>8 DEF MoveConstructThrows, Moved
<1>9. ASSUME NEW v \in Variant, NEW w \in Variant, MoveAssign(v, w) PROVE ResultInv'
  BY <1>9, DestroyedIsRaw DEF MoveAssign, BadConstruct
<1>10. ASSUME NEW v \in Variant, NEW w \in Variant, MoveAssignThrows(v, w) PROVE ResultInv'
  BY <1>10, DestroyedIsRaw DEF MoveAssignThrows, Moved
<1>11. CASE UNCHANGED resultVars
  BY <1>11 DEF resultVars
<1> QED
  BY <1>1, <1>2, <1>3, <1>4, <1>5, <1>6, <1>7, <1>8, <1>9, <1>10, <1>11
     DEF ResultNext, Change

\* It is an invariant of results.
LEMMA ResultInvariant == ResultSpec => []ResultInv
<1> QED
  BY ResultInitInv, ResultNextInv, PTL DEF ResultSpec

\* Until a move threw, is_empty(), is_value() and is_exception() tell what is in the memory,
\* and every object is destroyed once: for any number of results, and any contents.
THEOREM SlotTellsTheTruth == ResultSpec => []SlotTruthful
<1> QED
  BY ResultInvariant, PTL DEF ResultInv

\* Whatever throws, no object lies where the slot does not say so, and no content is in two
\* places.
THEOREM NoContentLost == ResultSpec => []NothingLeaks
<1> QED
  BY ResultInvariant, PTL DEF ResultInv
=============================================================================
