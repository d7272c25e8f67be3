---------------------------- MODULE CoroutineProofs ----------------------------
(***************************************************************************)
(* The safety of a coroutine that awaits continuables, for any number of   *)
(* awaits and whichever of the two threads that meet at an await is first. *)
(***************************************************************************)
EXTENDS Coroutine, FiniteSetTheorems, TLAPS

\* What the two threads have done at an await, in the order in which each must do it.
\* The resolver has the coroutine only if it found it suspended.
Handshake(n) ==
  /\ awaiter[n] \in {"none", "suspend"} => resolver[n] = "none" /\ result[n] = "empty"
  /\ awaiter[n] = "exchange" => resolver[n] \in {"armed", "exchange", "left"}
  /\ awaiter[n] = "resume" => resolver[n] \in {"none", "left"}
  /\ resolver[n] \in {"armed", "exchange"} => awaiter[n] \in {"exchange", "left"}
  /\ resolver[n] = "armed" => result[n] = "empty"
  /\ resolver[n] = "resume" => awaiter[n] = "left"

\* The last of the two to exchange the state sees what the first of them left there.
Exchanged(n) ==
  /\ resolver[n] \in {"none", "armed", "exchange"} =>
       state[n] = IF resolver[n] # "none" /\ awaiter[n] = "left" THEN "suspended"
                                                                  ELSE "pending"
  /\ resolver[n] = "left" /\ awaiter[n] = "exchange" => state[n] \in {"pending", "resolved"}
  /\ state[n] = "resolved" => result[n] # "empty"

\* The coroutine is entered once, by the thread that was told to, and with a result.
EnteredOnce(n) ==
  /\ entered[n] \in {0, 1}
  /\ awaiter[n] = "resume" \/ resolver[n] \in {"exchange", "resume"} \/ entered[n] = 1 =>
       result[n] # "empty"
  /\ awaiter[n] # "left" \/ resolver[n] \notin {"none", "left"} => entered[n] = 0
  /\ awaiter[n] = "left" /\ resolver[n] = "none" => entered[n] = 1

\* The awaits before the current one are over, and those behind it have not begun.
OneAtATime ==
  /\ \A n \in Await : n > number => awaiter[n] = "none" /\ entered[n] = 0
  /\ \A n \in Await : n < number => entered[n] = 1
  /\ number > 0 => awaiter[number] # "none" /\ (entered[number] = 0 <=> body = "awaiting")
  /\ body = "created" => number = 0
  /\ body = "awaiting" => number > 0

\* What leaves the coroutine is known by its type, and has come from an await that failed,
\* or from the coroutine itself; and the promise is resolved with it.
ThrownJustified ==
  /\ uncaught # 0 =>
       /\ uncaught \in 1 .. number /\ result[uncaught] \in {"exception", "cancellation"}
       /\ thrown = IF result[uncaught] = "cancellation" THEN "await_canceled" ELSE "exception"
  /\ uncaught = 0 => thrown # "await_canceled"
  /\ body \in {"created", "running", "awaiting"} => uncaught = 0 /\ thrown = "nothing"
  /\ body = "unwinding" => thrown # "nothing"
  /\ outcome # "none" => body = "returned"
  /\ body = "returned" =>
       outcome = CASE thrown = "nothing" -> "value"
                   [] thrown = "await_canceled" -> "cancellation"
                   [] thrown = "exception" -> "exception"

Consistent == \A n \in Await : Handshake(n) /\ Exchanged(n) /\ EnteredOnce(n)

IInv == TypeOK /\ Consistent /\ OneAtATime /\ ThrownJustified
-------------------------------------------------------------------------------
\* The invariant holds initially.
LEMMA InitIInv == Init => IInv
<1> SUFFICES ASSUME Init PROVE IInv
  OBVIOUS
<1> USE CoroutineAssumption DEF Init, Await
<1>1. TypeOK
  BY DEF TypeOK
<1>2. Consistent
  BY DEF Consistent, Handshake, Exchanged, EnteredOnce
<1>3. OneAtATime /\ ThrownJustified
  BY DEF OneAtATime, ThrownJustified
<1> QED
  BY <1>1, <1>2, <1>3 DEF IInv

\* Every step of the coroutine and of the threads at its awaits preserves it.
LEMMA NextIInv == IInv /\ [Next]_vars => IInv'
<1> SUFFICES ASSUME IInv, [Next]_vars PROVE IInv'
  OBVIOUS
<1> USE CoroutineAssumption DEF IInv, TypeOK, Kind, Await, AwaiterGoto, ResolverGoto
<1>1. CASE Begin
  <2> USE <1>1 DEF Begin
  <2>1. TypeOK'
    OBVIOUS
  <2>2. Consistent'
    BY DEF Consistent, Handshake, Exchanged, EnteredOnce
  <2>3. OneAtATime'
    BY DEF Consistent, Handshake, EnteredOnce, OneAtATime
  <2>4. ThrownJustified'
    BY DEF Consistent, Handshake, EnteredOnce, OneAtATime, ThrownJustified
  <2> QED
    BY <2>1, <2>2, <2>3, <2>4
<1>2. CASE CoAwait
  <2> USE <1>2 DEF CoAwait
  <2>1. TypeOK'
    <3>1. number' \in Await /\ number' \in 0 .. Awaits
      OBVIOUS
    <3>2. result' \in [Await -> Kind \cup {"empty"}]
      BY <3>1
    <3>3. awaiter' \in [Await -> {"none", "suspend", "exchange", "resume", "left"}]
      BY <3>1
    <3> QED
      BY <3>1, <3>2, <3>3
  <2>2. Consistent'
    <3> SUFFICES ASSUME NEW n \in Await
                 PROVE  (Handshake(n) /\ Exchanged(n) /\ EnteredOnce(n))'
      BY DEF Consistent
    <3> USE DEF Consistent, Handshake, Exchanged, EnteredOnce, OneAtATime
    <3>1. CASE n = number + 1
      BY <3>1
    <3>2. CASE n # number + 1
      BY <3>2
    <3> QED
      BY <3>1, <3>2
  <2>3. OneAtATime'
    BY DEF Consistent, Handshake, EnteredOnce, OneAtATime
  <2>4. ThrownJustified'
    BY DEF Consistent, Handshake, EnteredOnce, OneAtATime, ThrownJustified
  <2> QED
    BY <2>1, <2>2, <2>3, <2>4
<1>3. CASE Throw
  <2> USE <1>3 DEF Throw, Uncaught
  <2>1. TypeOK'
    OBVIOUS
  <2>2. Consistent'
    BY DEF Consistent, Handshake, Exchanged, EnteredOnce
  <2>3. OneAtATime'
    BY DEF Consistent, Handshake, EnteredOnce, OneAtATime
  <2>4. ThrownJustified'
    BY DEF Consistent, Handshake, EnteredOnce, OneAtATime, ThrownJustified
  <2> QED
    BY <2>1, <2>2, <2>3, <2>4
<1>4. CASE Return
  <2> USE <1>4 DEF Return
  <2>1. TypeOK'
    OBVIOUS
  <2>2. Consistent'
    BY DEF Consistent, Handshake, Exchanged, EnteredOnce
  <2>3. OneAtATime'
    BY DEF Consistent, Handshake, EnteredOnce, OneAtATime
  <2>4. ThrownJustified'
    BY DEF Consistent, Handshake, EnteredOnce, OneAtATime, ThrownJustified
  <2> QED
    BY <2>1, <2>2, <2>3, <2>4
<1>5. CASE UnhandledException
  <2> USE <1>5 DEF UnhandledException, Unwound
  <2>1. TypeOK'
    OBVIOUS
  <2>2. Consistent'
    BY DEF Consistent, Handshake, Exchanged, EnteredOnce
  <2>3. OneAtATime'
    BY DEF Consistent, Handshake, EnteredOnce, OneAtATime
  <2>4. ThrownJustified'
    BY DEF Consistent, Handshake, EnteredOnce, OneAtATime, ThrownJustified
  <2> QED
    BY <2>1, <2>2, <2>3, <2>4
<1>6. ASSUME NEW n \in Await, Suspend(n) PROVE IInv'
  <2> USE <1>6 DEF Suspend
  <2>1. TypeOK'
    OBVIOUS
  <2>2. Consistent'
    BY DEF Consistent, Handshake, Exchanged, EnteredOnce
  <2>3. OneAtATime'
    BY DEF Consistent, Handshake, EnteredOnce, OneAtATime
  <2>4. ThrownJustified'
    BY DEF Consistent, Handshake, EnteredOnce, OneAtATime, ThrownJustified
  <2> QED
    BY <2>1, <2>2, <2>3, <2>4
<1>7. ASSUME NEW n \in Await, Suspended(n) PROVE IInv'
  <2> USE <1>7 DEF Suspended
  <2>1. TypeOK'
    OBVIOUS
  <2>2. Consistent'
    BY DEF Consistent, Handshake, Exchanged, EnteredOnce
  <2>3. OneAtATime'
    BY DEF Consistent, Handshake, EnteredOnce, OneAtATime
  <2>4. ThrownJustified'
    BY DEF Consistent, Handshake, EnteredOnce, OneAtATime, ThrownJustified
  <2> QED
    BY <2>1, <2>2, <2>3, <2>4
<1>8. ASSUME NEW n \in Await, Resolve(n) PROVE IInv'
  <2> USE <1>8 DEF Resolve
  <2>1. TypeOK'
    OBVIOUS
  <2>2. Consistent'
    BY DEF Consistent, Handshake, Exchanged, EnteredOnce
  <2>3. OneAtATime'
    BY DEF Consistent, Handshake, EnteredOnce, OneAtATime
  <2>4. ThrownJustified'
    BY DEF Consistent, Handshake, EnteredOnce, OneAtATime, ThrownJustified
  <2> QED
    BY <2>1, <2>2, <2>3, <2>4
<1>9. ASSUME NEW n \in Await, Drop(n) PROVE IInv'
  <2> USE <1>9 DEF Drop
  <2>1. TypeOK'
    OBVIOUS
  <2>2. Consistent'
    BY DEF Consistent, Handshake, Exchanged, EnteredOnce
  <2>3. OneAtATime'
    BY DEF Consistent, Handshake, EnteredOnce, OneAtATime
  <2>4. ThrownJustified'
    BY DEF Consistent, Handshake, EnteredOnce, OneAtATime, ThrownJustified
  <2> QED
    BY <2>1, <2>2, <2>3, <2>4
<1>10. ASSUME NEW n \in Await, Resolved(n) PROVE IInv'
  <2> USE <1>10 DEF Resolved
  <2>1. TypeOK'
    OBVIOUS
  <2>2. Consistent'
    BY DEF Consistent, Handshake, Exchanged, EnteredOnce
  <2>3. OneAtATime'
    BY DEF Consistent, Handshake, EnteredOnce, OneAtATime
  <2>4. ThrownJustified'
    BY DEF Consistent, Handshake, EnteredOnce, OneAtATime, ThrownJustified
  <2> QED
    BY <2>1, <2>2, <2>3, <2>4
<1>11. ASSUME NEW n \in Await, Resume(n) PROVE IInv'
  <2> USE <1>11 DEF Resume, Uncaught
  <2>1. TypeOK'
    <3>1. entered' \in [Await -> Nat]
      OBVIOUS
    <3>2. awaiter' \in [Await -> {"none", "suspend", "exchange", "resume", "left"}]
      OBVIOUS
    <3>3. resolver' \in [Await -> {"none", "armed", "exchange", "resume", "left"}]
      OBVIOUS
    <3> QED
      BY <3>1, <3>2, <3>3
  <2>2. Consistent'
    BY DEF Consistent, Handshake, Exchanged, EnteredOnce
  <2>3. OneAtATime'
    BY DEF Consistent, Handshake, EnteredOnce, OneAtATime
  <2>4. ThrownJustified'
    BY DEF Consistent, Handshake, EnteredOnce, OneAtATime, ThrownJustified
  <2> QED
    BY <2>1, <2>2, <2>3, <2>4
<1>12. CASE UNCHANGED vars
  BY <1>12 DEF vars, Consistent, Handshake, Exchanged, EnteredOnce, OneAtATime,
     ThrownJustified
<1> QED
  BY <1>1, <1>2, <1>3, <1>4, <1>5, <1>6, <1>7, <1>8, <1>9, <1>10, <1>11, <1>12
     DEF Next, Finished

\* It is an invariant of the specification.
LEMMA IInvariant == Spec => []IInv
<1> QED
  BY InitIInv, NextIInv, PTL DEF Spec
-------------------------------------------------------------------------------
\* Every variable of the awaitables and of the promise stays in its domain.
THEOREM TypeCorrect == Spec => []TypeOK
<1> QED
  BY IInvariant, PTL DEF IInv

\* At any number of awaits, at most one thread is between a suspension and the entry of
\* the coroutine behind it, and the coroutine is entered once per await.
THEOREM CoroutineHasOneRunner == Spec => []OneRunner
<1>1. ASSUME IInv PROVE OneRunner
  <2> DEFINE runners == {n \in Await : awaiter[n] \in {"suspend", "resume"}}
             resumed == {n \in Await : resolver[n] = "resume"}
  <2> USE <1>1, CoroutineAssumption
      DEF IInv, TypeOK, Await, Consistent, Handshake, EnteredOnce, OneAtATime
  <2>1. \A n \in runners \cup resumed : n = number /\ body = "awaiting"
    OBVIOUS
  <2>2. runners \cap resumed = {}
    OBVIOUS
  <2>3. \/ runners = {} /\ resumed = {}
        \/ runners = {number} /\ resumed = {}
        \/ runners = {} /\ resumed = {number}
    BY <2>1, <2>2
  <2>4. Cardinality(runners) + Cardinality(resumed) <= 1
    <3>1. Cardinality({}) = 0 /\ Cardinality({number}) = 1
      BY FS_EmptySet, FS_Singleton
    <3> QED
      BY ONLY <2>3, <3>1
  <2>5. \A n \in Await : entered[n] <= 1
    OBVIOUS
  <2> QED
    BY <2>1, <2>4, <2>5 DEF OneRunner
<1> QED
  BY <1>1, IInvariant, PTL

\* Nobody exchanges the state of an awaitable after the coroutine went on behind it, and
\* await_resume finds a result.
THEOREM AwaitableOutlivesItsThreads == Spec => []NoDanglingAwaitable
<1>1. IInv => NoDanglingAwaitable
  BY DEF IInv, TypeOK, Consistent, EnteredOnce, NoDanglingAwaitable
<1> QED
  BY <1>1, IInvariant, PTL

\* The continuable of the coroutine is resolved with what left the coroutine, a cancellation
\* as a cancellation and an exception as an exception, and only behind the last await.
THEOREM CoroutineOutcomeJustified == Spec => []OutcomeJustified
<1>1. IInv => OutcomeJustified
  BY CoroutineAssumption
     DEF IInv, TypeOK, Await, Consistent, EnteredOnce, OneAtATime, ThrownJustified,
         OutcomeJustified
<1> QED
  BY <1>1, IInvariant, PTL
-------------------------------------------------------------------------------
(* That a suspended coroutine goes on *)

\* Who has left the awaitable without the coroutine: nobody, if there is a result; and a
\* resolver that did has told the awaiter, and an awaiter that did the resolver.
HandedOver(n) ==
  /\ awaiter[n] = "left" /\ resolver[n] = "left" => entered[n] = 1 \/ result[n] = "empty"
  /\ awaiter[n] = "exchange" /\ resolver[n] = "left" =>
       result[n] = "empty" \/ state[n] = "resolved"
  /\ awaiter[n] = "left" => entered[n] = 1 \/ state[n] # "pending"

\* It holds initially.
LEMMA InitHandedOver == Init => \A n \in Await : HandedOver(n)
<1> QED
  BY DEF Init, HandedOver

\* Each step hands the coroutine over to the one or to the other.
LEMMA NextHandedOver ==
  IInv /\ (\A n \in Await : HandedOver(n)) /\ [Next]_vars => (\A n \in Await : HandedOver(n))'
<1> SUFFICES ASSUME IInv, \A n \in Await : HandedOver(n), [Next]_vars, NEW m \in Await
             PROVE  HandedOver(m)'
  OBVIOUS
<1> USE CoroutineAssumption DEF IInv, TypeOK, Kind, Await, AwaiterGoto, ResolverGoto,
        Consistent, Handshake, Exchanged, EnteredOnce, HandedOver
<1>1. CASE Begin \/ Throw \/ Return \/ UnhandledException
  BY <1>1 DEF Begin, Throw, Uncaught, Return, UnhandledException, Unwound
<1>2. CASE CoAwait
  BY <1>2 DEF CoAwait, OneAtATime
<1>3. ASSUME NEW n \in Await, Suspend(n) PROVE HandedOver(m)'
  BY <1>3 DEF Suspend
<1>4. ASSUME NEW n \in Await, Suspended(n) PROVE HandedOver(m)'
  BY <1>4 DEF Suspended
<1>5. ASSUME NEW n \in Await, Resolve(n) \/ Drop(n) PROVE HandedOver(m)'
  BY <1>5 DEF Resolve, Drop
<1>6. ASSUME NEW n \in Await, Resolved(n) PROVE HandedOver(m)'
  BY <1>6 DEF Resolved
<1>7. ASSUME NEW n \in Await, Resume(n) PROVE HandedOver(m)'
  BY <1>7 DEF Resume, Uncaught
<1>8. CASE UNCHANGED vars
  BY <1>8 DEF vars
<1> QED
  BY <1>1, <1>2, <1>3, <1>4, <1>5, <1>6, <1>7, <1>8 DEF Next, Finished

\* Somebody is on his way to the coroutine: the one who will resume it, or one who is about
\* to find that out with the exchange of the state.
Coming(n) ==
  \/ awaiter[n] = "resume" \/ resolver[n] = "resume"
  \/ awaiter[n] = "exchange" /\ state[n] = "resolved"
  \/ resolver[n] = "exchange" /\ (state[n] = "suspended" \/ awaiter[n] = "exchange")

\* Where there is a result, the coroutine was resumed, or somebody is coming.
ResumptionKept == \A n \in Await : result[n] # "empty" => entered[n] = 1 \/ Coming(n)

\* A coroutine stays suspended for ever only if the promise it waits for was dropped.
StrandedByDrop ==
  body = "awaiting" /\ {awaiter[number], resolver[number]} \subseteq {"left", "none"} =>
    /\ resolver[number] = "left" /\ result[number] = "empty" /\ entered[number] = 0
    /\ state[number] = "suspended"

AwaiterRank(at) == CASE at = "none" -> 4 [] at = "suspend" -> 3 [] at = "exchange" -> 2
                     [] at = "resume" -> 1 [] at = "left" -> 0

ResolverRank(at) == CASE at = "none" -> 4 [] at = "armed" -> 3 [] at = "exchange" -> 2
                      [] at = "resume" -> 1 [] at = "left" -> 0

BodyRank(at) == CASE at = "created" -> 3 [] at \in {"running", "awaiting"} -> 2
                  [] at = "unwinding" -> 1 [] at = "returned" -> 0

\* A step takes one of the two threads at an await on, and neither of them back.
Nearer(n) ==
  /\ AwaiterRank(awaiter'[n]) <= AwaiterRank(awaiter[n])
  /\ ResolverRank(resolver'[n]) <= ResolverRank(resolver[n])
  /\ \/ AwaiterRank(awaiter'[n]) < AwaiterRank(awaiter[n])
     \/ ResolverRank(resolver'[n]) < ResolverRank(resolver[n])

Unmoved(n) == awaiter'[n] = awaiter[n] /\ resolver'[n] = resolver[n]

\* Every step brings one of the awaits nearer to its end and moves no other one, or
\* takes the code of the coroutine on.
OneStepNearer ==
  /\ BodyRank(body') <= BodyRank(body)
  /\ \/ \E n \in Await : Nearer(n) /\ \A m \in Await \ {n} : Unmoved(m)
     \/ BodyRank(body') < BodyRank(body) /\ \A m \in Await : Unmoved(m)

\* No resumption is lost between the two threads, whoever of them comes first: all that
\* GoesOn says, but that they go on.
THEOREM NoResumptionLost == Spec => [](ResumptionKept /\ StrandedByDrop)
<1> DEFINE J == IInv /\ \A n \in Await : HandedOver(n)
<1>1. Spec => []J
  BY InitIInv, NextIInv, InitHandedOver, NextHandedOver, PTL DEF Spec
<1>2. J => ResumptionKept
  BY CoroutineAssumption DEF IInv, TypeOK, Await, Kind, Consistent, Handshake, Exchanged,
     EnteredOnce, HandedOver, ResumptionKept, Coming
<1>3. J => StrandedByDrop
  <2> SUFFICES ASSUME J, body = "awaiting", awaiter[number] \in {"left", "none"},
                      resolver[number] \in {"left", "none"}
               PROVE  /\ resolver[number] = "left" /\ result[number] = "empty"
                      /\ entered[number] = 0 /\ state[number] = "suspended"
    BY DEF StrandedByDrop
  <2>1. /\ number \in Await
        /\ awaiter[number] = "left" /\ entered[number] = 0
    BY CoroutineAssumption DEF IInv, TypeOK, Await, OneAtATime
  <2>2. Handshake(number) /\ Exchanged(number) /\ EnteredOnce(number) /\ HandedOver(number)
    BY <2>1 DEF IInv, Consistent
  <2>3. resolver[number] = "left" /\ result[number] = "empty"
    BY <2>1, <2>2 DEF EnteredOnce, HandedOver
  <2>4. state[number] = "suspended"
    BY <2>1, <2>2, <2>3 DEF Exchanged, HandedOver, IInv, TypeOK
  <2> QED
    BY <2>1, <2>3, <2>4
<1> HIDE DEF J
<1> QED
  BY <1>1, <1>2, <1>3, PTL

\* The threads at an await take at most eight steps, and what a coroutine does
\* between two awaits is not done twice.
THEOREM AwaitsTerminate == Spec => [][OneStepNearer]_vars
<1>1. IInv /\ [Next]_vars => [OneStepNearer]_vars
  <2> SUFFICES ASSUME IInv, Next PROVE OneStepNearer \/ UNCHANGED vars
    OBVIOUS
  <2> USE CoroutineAssumption DEF IInv, TypeOK, Await, AwaiterGoto, ResolverGoto,
          Nearer, Unmoved, AwaiterRank, ResolverRank, BodyRank
  <2>1. CASE Begin \/ Throw \/ Return \/ UnhandledException
    BY <2>1 DEF Begin, Throw, Uncaught, Return, UnhandledException, Unwound, OneStepNearer
  <2>2. CASE CoAwait
    <3>1. number + 1 \in Await /\ BodyRank(body') <= BodyRank(body)
      BY <2>2 DEF CoAwait
    <3>2. Nearer(number + 1) /\ \A m \in Await \ {number + 1} : Unmoved(m)
      BY <2>2, <3>1 DEF CoAwait
    <3> QED
      BY <3>1, <3>2 DEF OneStepNearer
  <2>3. ASSUME NEW n \in Await, Suspend(n) PROVE OneStepNearer
    <3>1. Nearer(n) /\ \A m \in Await \ {n} : Unmoved(m)
      BY <2>3 DEF Suspend
    <3>2. BodyRank(body') <= BodyRank(body)
      BY <2>3 DEF Suspend
    <3> QED
      BY <3>1, <3>2 DEF OneStepNearer
  <2>4. ASSUME NEW n \in Await, Suspended(n) PROVE OneStepNearer
    <3>1. Nearer(n) /\ \A m \in Await \ {n} : Unmoved(m)
      BY <2>4 DEF Suspended
    <3>2. BodyRank(body') <= BodyRank(body)
      BY <2>4 DEF Suspended
    <3> QED
      BY <3>1, <3>2 DEF OneStepNearer
  <2>5. ASSUME NEW n \in Await, Resolve(n) \/ Drop(n) PROVE OneStepNearer
    <3>1. Nearer(n) /\ \A m \in Await \ {n} : Unmoved(m)
      BY <2>5 DEF Resolve, Drop
    <3>2. BodyRank(body') <= BodyRank(body)
      BY <2>5 DEF Resolve, Drop
    <3> QED
      BY <3>1, <3>2 DEF OneStepNearer
  <2>6. ASSUME NEW n \in Await, Resolved(n) PROVE OneStepNearer
    <3>1. Nearer(n) /\ \A m \in Await \ {n} : Unmoved(m)
      BY <2>6 DEF Resolved
    <3>2. BodyRank(body') <= BodyRank(body)
      BY <2>6 DEF Resolved
    <3> QED
      BY <3>1, <3>2 DEF OneStepNearer
  <2>7. ASSUME NEW n \in Await, Resume(n) PROVE OneStepNearer
    <3>1. Nearer(n) /\ \A m \in Await \ {n} : Unmoved(m)
      BY <2>7 DEF Resume, Uncaught
    <3>2. entered[n] = 0 /\ awaiter[n] # "none"
      BY <2>7 DEF Resume, Uncaught, Consistent, EnteredOnce, Handshake
    <3>3. body = "awaiting"
      BY <3>2 DEF OneAtATime
    <3>4. BodyRank(body') <= BodyRank(body)
      BY <2>7, <3>3 DEF Resume, Uncaught
    <3> QED
      BY <3>1, <3>4 DEF OneStepNearer
  <2> QED
    BY <2>1, <2>2, <2>3, <2>4, <2>5, <2>6, <2>7 DEF Next, Finished
<1> QED
  BY <1>1, IInvariant, PTL DEF Spec
=============================================================================
