----------------------------- MODULE WhenAllProofs -----------------------------
(***************************************************************************)
(* The safety of when_all, and behind it that of when_any, which works on  *)
(* the same activations, for every finite set of children and whether or   *)
(* not the callback resolves siblings synchronously.                       *)
(***************************************************************************)
EXTENDS WhenAll, FiniteSetTheorems, TLAPS

\* The children counted by left_: registered, and not (or never to be) completed.
Outstanding ==
  {c \in Child : \/ pc[c] \in {"attached", "started", "assign", "complete"}
                 \/ settled[c] \in Failure \cup {"dropped"}}

MainCount == IF pc[Main] \in {"traverse", "complete"} THEN 1 ELSE 0

\* left_ counts the outstanding children and, until it accepts, Main.
CountExact == left = Cardinality(Outstanding) + MainCount

InOnce(a) == pc[a] \in {"callback", "leave"}

\* Where an activation can be, given what its child was resolved with.
Shape ==
  /\ \A c \in Child :
       /\ settled[c] = "pending" => pc[c] \in {"boxed", "attached", "started"}
       /\ settled[c] = "dropped" => pc[c] = "done"
       /\ settled[c] \in Failure => pc[c] \in {"once", "callback", "leave", "done"}
       /\ settled[c] = "value" =>
            pc[c] \in {"assign", "complete", "once", "callback", "leave", "done"}
       /\ settled[c] = "value" /\ pc[c] # "assign" => box[c] = "value"
  /\ pc[Main] \in {"traverse", "complete", "once", "callback", "leave", "done"}
  /\ pc[Main] # "traverse" => \A c \in Child : pc[c] \notin {"boxed", "attached"}

\* Whoever goes to invoke the callback with the values has seen left_ reach zero.
Closed ==
  \A a \in Actor : pc[a] \in {"once", "callback"} /\ Completes(a) => left = 0

\* One activation is inside call_once while the flag is running, and the callback
\* was invoked if it is past the invocation.
OneInside ==
  /\ flag = "idle" => calls = 0 /\ verdict = NoVerdict /\ \A a \in Actor : ~InOnce(a)
  /\ flag = "running" =>
       \E a \in Actor :
         /\ \/ pc[a] = "callback" /\ calls = 0 /\ verdict = NoVerdict
            \/ pc[a] = "leave" /\ calls = 1 /\ verdict # NoVerdict
         /\ \A b \in Actor \ {a} : ~InOnce(b)
  /\ flag = "done" => calls = 1 /\ verdict # NoVerdict /\ \A a \in Actor : ~InOnce(a)

Reported == \A c \in Child : pc[c] = "done" /\ settled[c] \in Failure => flag = "done"

IInv == /\ TypeOK
        /\ Shape
        /\ CountExact
        /\ Closed
        /\ OneInside
        /\ Reported
        /\ VerdictJustified
-------------------------------------------------------------------------------
\* Outstanding is finite, so that its cardinality is a natural number.
LEMMA OutstandingFinite ==
  /\ IsFiniteSet(Outstanding)
  /\ Cardinality(Outstanding) \in Nat
<1>1. Outstanding \in SUBSET Child
  BY DEF Outstanding
<1>2. IsFiniteSet(Outstanding)
  BY <1>1, ConnectionAssumption, FS_Subset
<1> QED
  BY <1>2, FS_CardinalityType

\* Once left_ is zero, every child arrived with a value that is in its box.
LEMMA ZeroMeansAll ==
  ASSUME TypeOK, Shape, CountExact, left = 0
  PROVE  /\ pc[Main] \notin {"traverse", "complete"}
         /\ \A c \in Child : settled[c] = "value" /\ pc[c] # "assign"
                             /\ pc[c] # "complete" /\ box[c] = "value"
<1>1. MainCount = 0 /\ Cardinality(Outstanding) = 0
  BY OutstandingFinite DEF CountExact, MainCount
<1>2. Outstanding = {}
  BY <1>1, OutstandingFinite, FS_EmptySet
<1>3. pc[Main] \notin {"traverse", "complete"}
  BY <1>1 DEF MainCount
<1>4. ASSUME NEW c \in Child
      PROVE  settled[c] = "value" /\ pc[c] # "assign" /\ pc[c] # "complete" /\ box[c] = "value"
  <2>1. pc[c] \notin {"boxed", "attached"}
    BY <1>3 DEF Shape
  <2>2. c \notin Outstanding
    BY <1>2
  <2> QED
    BY <2>1, <2>2 DEF Outstanding, Shape, TypeOK, ConnectionTypeOK, Kind
<1> QED
  BY <1>3, <1>4

\* The invariant holds initially.
LEMMA InitIInv == Init => IInv
<1> SUFFICES ASSUME Init PROVE IInv
  OBVIOUS
<1> USE DEF Init, ConnectionInit, OnceInit
<1>1. TypeOK
  BY DEF TypeOK, ConnectionTypeOK, Actor, Label, FlagState, Kind, NoVerdict
<1>2. Shape
  BY ConnectionAssumption DEF Shape, Actor, Failure
<1>3. CountExact
  <2>1. Outstanding = {}
    BY ConnectionAssumption DEF Outstanding, Actor, Failure
  <2> QED
    BY <2>1, FS_EmptySet DEF CountExact, MainCount, Actor
<1>4. Closed
  BY DEF Closed
<1>5. OneInside
  BY DEF OneInside, InOnce
<1>6. Reported
  BY DEF Reported, Failure
<1>7. VerdictJustified
  BY DEF VerdictJustified, NoVerdict, Failure
<1> QED
  BY <1>1, <1>2, <1>3, <1>4, <1>5, <1>6, <1>7 DEF IInv
-------------------------------------------------------------------------------
(* The steps of Main *)

\* Counting a child before it is started preserves the invariant.
LEMMA CreateCallbackIInv ==
  ASSUME IInv, NEW c \in Child, CreateCallback(c)
  PROVE  IInv'
<1> USE DEF CreateCallback
<1>1. TypeOK'
  BY DEF IInv, TypeOK, ConnectionTypeOK, Label, Actor
<1>2. Shape'
  BY ConnectionAssumption DEF IInv, Shape, TypeOK, ConnectionTypeOK, Actor
<1>3. CountExact'
  <2>1. Outstanding' = Outstanding \cup {c} /\ c \notin Outstanding
    BY DEF IInv, Shape, Outstanding, TypeOK, ConnectionTypeOK, Actor, Failure
  <2>2. MainCount' = 1 /\ MainCount = 1
    BY ConnectionAssumption DEF MainCount, IInv, TypeOK, ConnectionTypeOK, Actor
  <2> QED
    BY <2>1, <2>2, OutstandingFinite, FS_AddElement DEF IInv, CountExact
<1>4. Closed'
  <2>1. left > 0
    BY OutstandingFinite DEF IInv, CountExact, MainCount
  <2> QED
    BY <2>1 DEF IInv, Closed, Completes, TypeOK, ConnectionTypeOK, Actor
<1>5. OneInside'
  BY DEF IInv, OneInside, InOnce, TypeOK, ConnectionTypeOK, Actor
<1>6. Reported' /\ VerdictJustified'
  BY DEF IInv, Reported, VerdictJustified, TypeOK, ConnectionTypeOK, Actor
<1> QED
  BY <1>1, <1>2, <1>3, <1>4, <1>5, <1>6 DEF IInv

\* Starting a counted child preserves the invariant.
LEMMA StartIInv ==
  ASSUME IInv, NEW c \in Child, Start(c)
  PROVE  IInv'
<1> USE DEF Start, Launch
<1>1. TypeOK'
  BY DEF IInv, TypeOK, ConnectionTypeOK, Label, Actor
<1>2. Shape'
  BY ConnectionAssumption DEF IInv, Shape, TypeOK, ConnectionTypeOK, Actor
<1>3. CountExact'
  <2>1. Outstanding' = Outstanding
    BY DEF IInv, Outstanding, TypeOK, ConnectionTypeOK, Actor
  <2>2. MainCount' = MainCount
    BY ConnectionAssumption DEF MainCount, IInv, TypeOK, ConnectionTypeOK, Actor
  <2> QED
    BY <2>1, <2>2 DEF IInv, CountExact
<1>4. Closed'
  BY DEF IInv, Closed, Completes, TypeOK, ConnectionTypeOK, Actor
<1>5. OneInside'
  BY DEF IInv, OneInside, InOnce, TypeOK, ConnectionTypeOK, Actor
<1>6. Reported' /\ VerdictJustified'
  BY DEF IInv, Reported, VerdictJustified, TypeOK, ConnectionTypeOK, Actor
<1> QED
  BY <1>1, <1>2, <1>3, <1>4, <1>5, <1>6 DEF IInv

\* The end of the traversal preserves the invariant.
LEMMA AcceptIInv ==
  ASSUME IInv, Accept
  PROVE  IInv'
<1> USE DEF Accept, Goto
<1>1. TypeOK'
  BY DEF IInv, TypeOK, ConnectionTypeOK, Label, Actor
<1>2. Shape'
  BY ConnectionAssumption DEF IInv, Shape, TypeOK, ConnectionTypeOK, Actor
<1>3. CountExact'
  <2>1. Outstanding' = Outstanding
    BY ConnectionAssumption DEF IInv, Outstanding, TypeOK, ConnectionTypeOK, Actor
  <2>2. MainCount' = MainCount
    BY DEF MainCount, IInv, TypeOK, ConnectionTypeOK, Actor
  <2> QED
    BY <2>1, <2>2 DEF IInv, CountExact
<1>4. Closed'
  BY DEF IInv, Closed, Completes, TypeOK, ConnectionTypeOK, Actor
<1>5. OneInside'
  BY DEF IInv, OneInside, InOnce, TypeOK, ConnectionTypeOK, Actor
<1>6. Reported' /\ VerdictJustified'
  BY ConnectionAssumption DEF IInv, Reported, VerdictJustified, TypeOK, ConnectionTypeOK, Actor
<1> QED
  BY <1>1, <1>2, <1>3, <1>4, <1>5, <1>6 DEF IInv
-------------------------------------------------------------------------------
(* The arrival of a child *)

\* A child that settles one way or another is still outstanding, and says
\* nothing yet about the verdict.
LEMMA ArriveIInv ==
  ASSUME IInv, NEW c \in Child, Arrive(c)
  PROVE  IInv'
<1> DEFINE Settles(k, to) ==
      /\ settled' = [settled EXCEPT ![c] = k]
      /\ pc' = [pc EXCEPT ![c] = to]
      /\ k = "value" => to = "assign"
      /\ k \in Failure => to = "once"
      /\ k = "dropped" => to = "done"
<1>0. /\ pc[c] = "started" /\ settled[c] = "pending"
      /\ UNCHANGED <<left, box, flag, calls, verdict>>
      /\ under' \in [Child -> Actor \cup {Nobody}]
      /\ \E k \in Kind \cup {"dropped"}, to \in {"assign", "once", "done"} : Settles(k, to)
  <2> USE DEF allVars, IInv, Shape, TypeOK, ConnectionTypeOK, Kind, Failure
  <2>1. CASE Resolve(c, "value", "assign") /\ UNCHANGED allVars
    BY <2>1 DEF Resolve, Callers
  <2>2. CASE (\E k \in Failure : Resolve(c, k, "once")) /\ UNCHANGED allVars
    <3>1. PICK k \in Failure : Resolve(c, k, "once")
      BY <2>2
    <3>2. pc[c] = "started" /\ settled[c] = "pending"
      BY <3>1 DEF Resolve
    <3>3. under' \in [Child -> Actor \cup {Nobody}]
      BY <3>1 DEF Resolve, Callers
    <3>4. Settles(k, "once")
      BY <3>1 DEF Resolve
    <3> QED
      BY <2>2, <3>1, <3>2, <3>3, <3>4 DEF Resolve
  <2>3. CASE Drop(c) /\ UNCHANGED allVars
    BY <2>3 DEF Drop
  <2> QED
    BY <2>1, <2>2, <2>3 DEF Arrive
<1>1. PICK k \in Kind \cup {"dropped"}, to \in {"assign", "once", "done"} : Settles(k, to)
  BY <1>0
<1>3. TypeOK'
  BY <1>0, <1>1 DEF IInv, TypeOK, ConnectionTypeOK, Label, Actor
<1>4. Shape'
  BY <1>0, <1>1, ConnectionAssumption
     DEF IInv, Shape, TypeOK, ConnectionTypeOK, Actor, Kind, Failure
<1>5. CountExact'
  <2>1. Outstanding' = Outstanding
    BY <1>0, <1>1 DEF IInv, Outstanding, TypeOK, ConnectionTypeOK, Actor, Kind, Failure
  <2>2. MainCount' = MainCount
    BY <1>0, ConnectionAssumption DEF MainCount, IInv, TypeOK, ConnectionTypeOK, Actor
  <2> QED
    BY <2>1, <2>2, <1>0 DEF IInv, CountExact
<1>6. Closed'
  BY <1>0, <1>1 DEF IInv, Closed, Completes, TypeOK, ConnectionTypeOK, Actor, Kind, Failure
<1>7. OneInside'
  BY <1>0 DEF IInv, OneInside, InOnce, TypeOK, ConnectionTypeOK, Actor
<1>8. Reported'
  BY <1>0, <1>1 DEF IInv, Reported, TypeOK, ConnectionTypeOK, Actor, Failure
<1>9. VerdictJustified'
  BY <1>0, <1>1 DEF IInv, VerdictJustified, TypeOK, ConnectionTypeOK, Failure
<1> QED
  BY <1>3, <1>4, <1>5, <1>6, <1>7, <1>8, <1>9 DEF IInv

\* Filling the box of a child preserves the invariant.
LEMMA AssignIInv ==
  ASSUME IInv, NEW c \in Child, Assign(c)
  PROVE  IInv'
<1> USE DEF Assign, Goto
<1>1. TypeOK'
  BY DEF IInv, TypeOK, ConnectionTypeOK, Label, Actor
<1>2. Shape'
  BY ConnectionAssumption DEF IInv, Shape, TypeOK, ConnectionTypeOK, Actor, Failure
<1>3. CountExact'
  <2>1. Outstanding' = Outstanding
    BY DEF IInv, Outstanding, TypeOK, ConnectionTypeOK, Actor
  <2>2. MainCount' = MainCount
    BY ConnectionAssumption DEF MainCount, IInv, TypeOK, ConnectionTypeOK, Actor
  <2> QED
    BY <2>1, <2>2 DEF IInv, CountExact
<1>4. Closed'
  BY DEF IInv, Closed, Completes, TypeOK, ConnectionTypeOK, Actor
<1>5. OneInside'
  BY DEF IInv, OneInside, InOnce, TypeOK, ConnectionTypeOK, Actor
<1>6. Reported' /\ VerdictJustified'
  BY DEF IInv, Reported, VerdictJustified, TypeOK, ConnectionTypeOK, Actor
<1> QED
  BY <1>1, <1>2, <1>3, <1>4, <1>5, <1>6 DEF IInv
-------------------------------------------------------------------------------
(* The completion, and what happens inside call_once *)

\* complete_one takes the activation's own count off left_, which was positive.
LEMMA CompleteOneIInv ==
  ASSUME IInv, NEW a \in Actor, CompleteOne(a)
  PROVE  IInv'
<1> USE DEF CompleteOne, Goto
<1>1. /\ Cardinality(Outstanding') + MainCount' = Cardinality(Outstanding) + MainCount - 1
      /\ Cardinality(Outstanding) + MainCount > 0
  <2>1. CASE a = Main
    <3>1. Outstanding' = Outstanding
      BY <2>1, ConnectionAssumption DEF IInv, Outstanding, TypeOK, ConnectionTypeOK, Actor
    <3>2. MainCount = 1 /\ MainCount' = 0
      BY <2>1 DEF IInv, MainCount, TypeOK, ConnectionTypeOK, Actor
    <3> QED
      BY <3>1, <3>2, OutstandingFinite
  <2>2. CASE a \in Child
    <3>1. settled[a] = "value"
      BY <2>2 DEF IInv, Shape, TypeOK, ConnectionTypeOK, Kind, Failure
    <3>2. a \in Outstanding /\ Outstanding' = Outstanding \ {a}
      BY <2>2, <3>1 DEF IInv, Outstanding, TypeOK, ConnectionTypeOK, Actor, Failure
    <3>3. MainCount' = MainCount
      BY <2>2, ConnectionAssumption DEF MainCount, IInv, TypeOK, ConnectionTypeOK, Actor
    <3>4. Cardinality(Outstanding \ {a}) = Cardinality(Outstanding) - 1
      BY <3>2, OutstandingFinite, FS_RemoveElement
    <3>5. Cardinality(Outstanding) # 0
      BY <3>2, OutstandingFinite, FS_EmptySet
    <3>6. MainCount \in {0, 1}
      BY DEF MainCount
    <3> QED
      BY <3>2, <3>3, <3>4, <3>5, <3>6, OutstandingFinite
  <2> QED
    BY <2>1, <2>2 DEF Actor
<1>2. TypeOK'
  <2>1. left - 1 \in Nat
    BY <1>1 DEF IInv, CountExact, TypeOK
  <2> QED
    BY <2>1 DEF IInv, TypeOK, ConnectionTypeOK, Label
<1>3. Shape'
  BY ConnectionAssumption DEF IInv, Shape, TypeOK, ConnectionTypeOK, Actor, Failure
<1>4. CountExact'
  <2>1. MainCount \in {0, 1}
    BY DEF MainCount
  <2> QED
    BY <1>1, <2>1, OutstandingFinite DEF IInv, CountExact
<1>5. Closed'
  BY <1>1 DEF IInv, CountExact, Closed, Completes, TypeOK, ConnectionTypeOK
<1>6. OneInside'
  BY DEF IInv, OneInside, InOnce, TypeOK, ConnectionTypeOK
<1>7. Reported' /\ VerdictJustified'
  <2>1. \A c \in Child : settled[c] \in Failure => c # a
    BY DEF IInv, Shape, Failure
  <2> QED
    BY <2>1 DEF IInv, Reported, VerdictJustified, TypeOK, ConnectionTypeOK, Actor
<1> QED
  BY <1>2, <1>3, <1>4, <1>5, <1>6, <1>7 DEF IInv

\* Entering, passing and leaving call_once preserve the invariant.
LEMMA CallOnceIInv ==
  ASSUME IInv, NEW a \in Actor, CallOnce(a)
  PROVE  IInv'
<1>0. /\ UNCHANGED <<left, box, settled, under, calls, verdict>>
      /\ \/ /\ pc[a] = "once" /\ pc' = [pc EXCEPT ![a] = "callback"]
            /\ flag = "idle" /\ flag' = "running"
         \/ /\ pc[a] = "once" /\ pc' = [pc EXCEPT ![a] = "done"]
            /\ flag = "done" /\ flag' = "done"
         \/ /\ pc[a] = "leave" /\ pc' = [pc EXCEPT ![a] = "done"]
            /\ flag = "running" /\ flag' = "done"
  BY DEF CallOnce, EnterOnce, PassOnce, LeaveOnce, Goto, OnceEnter, OncePassive, OnceExit,
         allVars
<1>1. TypeOK'
  BY <1>0 DEF IInv, TypeOK, ConnectionTypeOK, Label, FlagState
<1>2. Shape'
  BY <1>0, ConnectionAssumption DEF IInv, Shape, TypeOK, ConnectionTypeOK, Actor, Failure
<1>3. CountExact'
  <2>1. Outstanding' = Outstanding
    BY <1>0, ConnectionAssumption DEF IInv, Outstanding, TypeOK, ConnectionTypeOK, Actor
  <2>2. MainCount' = MainCount
    BY <1>0, ConnectionAssumption DEF MainCount, IInv, TypeOK, ConnectionTypeOK, Actor
  <2> QED
    BY <1>0, <2>1, <2>2 DEF IInv, CountExact
<1>4. Closed'
  BY <1>0 DEF IInv, Closed, Completes, TypeOK, ConnectionTypeOK
<1>5. OneInside'
  <2>1. CASE pc[a] = "once" /\ flag = "idle"
    BY <1>0, <2>1 DEF IInv, OneInside, InOnce, TypeOK, ConnectionTypeOK
  <2>2. CASE pc[a] = "once" /\ flag = "done"
    BY <1>0, <2>2 DEF IInv, OneInside, InOnce, TypeOK, ConnectionTypeOK
  <2>3. CASE pc[a] = "leave" /\ flag = "running"
    <3>1. calls = 1 /\ verdict # NoVerdict /\ \A b \in Actor \ {a} : ~InOnce(b)
      BY <2>3 DEF IInv, OneInside, InOnce
    <3> QED
      BY <1>0, <2>3, <3>1 DEF IInv, OneInside, InOnce, TypeOK, ConnectionTypeOK
  <2> QED
    BY <1>0, <2>1, <2>2, <2>3
<1>6. Reported' /\ VerdictJustified'
  BY <1>0 DEF IInv, Reported, VerdictJustified, TypeOK, ConnectionTypeOK, Actor
<1> QED
  BY <1>1, <1>2, <1>3, <1>4, <1>5, <1>6 DEF IInv

\* Invoking the callback: with the values when all of them are there, with the
\* child's own failure otherwise.
LEMMA InvokeIInv ==
  ASSUME IInv, NEW a \in Actor, Invoke(a)
  PROVE  IInv'
<1>1. /\ pc[a] = "callback" /\ pc' = [pc EXCEPT ![a] = "leave"]
      /\ calls' = calls + 1
      /\ UNCHANGED <<left, box, settled, under, flag>>
  BY DEF Invoke, Deliver, Goto, allVars
<1>2. flag = "running" /\ calls = 0 /\ \A b \in Actor \ {a} : ~InOnce(b)
  BY <1>1 DEF IInv, OneInside, InOnce, TypeOK, ConnectionTypeOK, FlagState
<1>3. \/ /\ verdict' = [kind |-> "values", of |-> Child]
         /\ \A c \in Child : settled[c] = "value"
      \/ \E c \in Child : settled[c] \in Failure /\ verdict' = [kind |-> settled[c], of |-> {c}]
  <2>1. CASE Completes(a)
    <3>1. left = 0
      BY <1>1, <2>1 DEF IInv, Closed
    <3>2. \A c \in Child : settled[c] = "value" /\ box[c] = "value"
      BY <3>1, ZeroMeansAll DEF IInv
    <3>3. verdict' = Stored
      BY <2>1 DEF Invoke, Deliver
    <3> QED
      BY <3>2, <3>3 DEF Stored
  <2>2. CASE ~Completes(a)
    <3>1. a \in Child /\ settled[a] # "value"
      BY <2>2 DEF Completes
    <3>2. settled[a] \in Failure
      BY <1>1, <3>1 DEF IInv, Shape, TypeOK, ConnectionTypeOK, Kind, Failure
    <3> QED
      BY <2>2, <3>1, <3>2 DEF Invoke, Deliver, Single
  <2> QED
    BY <2>1, <2>2
<1>4. /\ verdict' # NoVerdict
      /\ verdict' \in [kind : {"none", "values"} \cup Kind, of : SUBSET Child]
  BY <1>3 DEF NoVerdict, Kind, Failure
<1>5. TypeOK'
  BY <1>1, <1>4 DEF IInv, TypeOK, ConnectionTypeOK, Label
<1>6. Shape'
  BY <1>1, ConnectionAssumption DEF IInv, Shape, TypeOK, ConnectionTypeOK, Actor, Failure
<1>7. CountExact'
  <2>1. Outstanding' = Outstanding
    BY <1>1, ConnectionAssumption DEF IInv, Outstanding, TypeOK, ConnectionTypeOK, Actor
  <2>2. MainCount' = MainCount
    BY <1>1, ConnectionAssumption DEF MainCount, IInv, TypeOK, ConnectionTypeOK, Actor
  <2> QED
    BY <1>1, <2>1, <2>2 DEF IInv, CountExact
<1>8. Closed'
  BY <1>1 DEF IInv, Closed, Completes, TypeOK, ConnectionTypeOK
<1>9. OneInside'
  BY <1>1, <1>2, <1>4 DEF IInv, OneInside, InOnce, TypeOK, ConnectionTypeOK
<1>10. Reported'
  BY <1>1 DEF IInv, Reported, TypeOK, ConnectionTypeOK, Actor
<1>11. VerdictJustified'
  BY <1>1, <1>3 DEF VerdictJustified, Failure
<1> QED
  BY <1>5, <1>6, <1>7, <1>8, <1>9, <1>10, <1>11 DEF IInv
-------------------------------------------------------------------------------
\* The invariant is inductive.
LEMMA NextIInv == IInv /\ [Next]_vars => IInv'
<1> SUFFICES ASSUME IInv, [Next]_vars PROVE IInv'
  OBVIOUS
<1>1. CASE UNCHANGED vars
  BY <1>1 DEF vars, IInv, TypeOK, ConnectionTypeOK, Shape, CountExact, Outstanding, MainCount,
              Closed, Completes, OneInside, InOnce, Reported, VerdictJustified
<1>2. CASE Accept
  BY <1>2, AcceptIInv
<1>3. ASSUME NEW c \in Child, CreateCallback(c) \/ Start(c) \/ Arrive(c) \/ Assign(c)
      PROVE  IInv'
  BY <1>3, CreateCallbackIInv, StartIInv, ArriveIInv, AssignIInv
<1>4. ASSUME NEW a \in Actor, Step(a)
      PROVE  IInv'
  BY <1>4, CompleteOneIInv, CallOnceIInv, InvokeIInv DEF Step
<1> QED
  BY <1>1, <1>2, <1>3, <1>4 DEF Next, Finished

\* It is an invariant of when_all.
LEMMA IInvariant == Spec => []IInv
<1> QED
  BY InitIInv, NextIInv, PTL DEF Spec

\* The state of when_all keeps its type; in particular left_ never wraps below
\* zero.
THEOREM TypeCorrect == Spec => []TypeOK
<1>1. IInv => TypeOK
  BY DEF IInv
<1> QED
  BY <1>1, IInvariant, PTL

\* The callback of when_all is invoked at most once.
THEOREM AtMostOneInvocation == Spec => []InvokedOnce
<1>1. IInv => InvokedOnce
  BY DEF IInv, OneInside, InvokedOnce, TypeOK, ConnectionTypeOK, FlagState
<1> QED
  BY <1>1, IInvariant, PTL

\* It is invoked with the values of all children, or with the failure of one that
\* failed, and with nothing else.
THEOREM VerdictIsJustified == Spec => []VerdictJustified
<1>1. IInv => VerdictJustified
  BY DEF IInv
<1> QED
  BY <1>1, IInvariant, PTL

\* The assertions on left_ in complete_one and invoke never fail.
THEOREM AssertionsHold == Spec => []CountAsserted
<1>1. ASSUME IInv PROVE CountAsserted
  <2>1. ASSUME NEW a \in Actor, pc[a] = "complete" PROVE left > 0
    <3>1. a = Main \/ a \in Outstanding
      BY <2>1 DEF Actor, Outstanding
    <3>2. MainCount = 1 \/ Cardinality(Outstanding) # 0
      BY <2>1, <3>1, OutstandingFinite, FS_EmptySet DEF MainCount
    <3> QED
      BY <3>2, <1>1, OutstandingFinite DEF IInv, CountExact, MainCount
  <2> QED
    BY <1>1, <2>1 DEF IInv, Closed, CountAsserted
<1> QED
  BY <1>1, IInvariant, PTL

\* While finalize_data moves the boxes out, nobody else touches them.
THEOREM NoRaceOnBoxes == Spec => []BoxesUnshared
<1>1. ASSUME IInv PROVE BoxesUnshared
  <2>1. ASSUME NEW a \in Actor, pc[a] = "callback", Completes(a)
        PROVE  /\ pc[Main] # "traverse"
               /\ \A c \in Child : pc[c] \notin {"started", "assign"}
    <3>1. left = 0
      BY <1>1, <2>1 DEF IInv, Closed
    <3>2. \A c \in Child : settled[c] = "value" /\ pc[c] # "assign"
      BY <1>1, <3>1, ZeroMeansAll DEF IInv
    <3>3. pc[Main] # "traverse"
      BY <1>1, <3>1, ZeroMeansAll DEF IInv
    <3> QED
      BY <1>1, <3>2, <3>3 DEF IInv, Shape
  <2> QED
    BY <2>1 DEF BoxesUnshared
<1> QED
  BY <1>1, IInvariant, PTL

\* A failing child's call returns only after the callback was invoked.
THEOREM FailureIsReported == Spec => []FailureReported
<1>1. IInv => FailureReported
  BY DEF IInv, Reported, OneInside, FailureReported
<1> QED
  BY <1>1, IInvariant, PTL

\* Unless the callback resolves children, a call runs inside of another one only while Main
\* starts the children.
NestedInMain ==
  ~Reentrant =>
    \A c \in Child : under[c] # Nobody /\ pc[c] # "done" =>
                       under[c] = Main /\ pc[Main] = "traverse"

\* Every step of when_all leaves it so.
LEMMA StaysNestedInMain == IInv /\ NestedInMain /\ [Next]_vars => NestedInMain'
<1> SUFFICES ASSUME IInv, NestedInMain, [Next]_vars, ~Reentrant PROVE NestedInMain'
  BY DEF NestedInMain
<1> USE ConnectionAssumption DEF IInv, TypeOK, ConnectionTypeOK, Actor, NestedInMain
<1>1. CASE UNCHANGED vars
  BY <1>1 DEF vars
<1>2. CASE Accept
  BY <1>2 DEF Accept, Goto, Returned
<1>3. ASSUME NEW c \in Child, CreateCallback(c) \/ Start(c) PROVE NestedInMain'
  BY <1>3 DEF CreateCallback, Start, Launch
<1>4. ASSUME NEW c \in Child, Arrive(c) PROVE NestedInMain'
  BY <1>4 DEF Arrive, Resolve, Callers, Drop
<1>5. ASSUME NEW c \in Child, Assign(c) PROVE NestedInMain'
  BY <1>5 DEF Assign, Goto
<1>6. ASSUME NEW a \in Actor, CompleteOne(a) \/ CallOnce(a) \/ Invoke(a) PROVE NestedInMain'
  BY <1>6 DEF CompleteOne, CallOnce, EnterOnce, PassOnce, LeaveOnce, Invoke, Deliver, Goto,
              Returned, allVars
<1> QED
  BY <1>1, <1>2, <1>3, <1>4, <1>5, <1>6 DEF Next, Finished, Step

\* The state in which a call waits in call_once for its own caller, which the liveness
\* properties except, needs a callback that resolves a child itself.
THEOREM OnlyCallbacksEntangle == Spec => [](Entangled => Reentrant)
<1>1. Init => NestedInMain
  BY DEF Init, ConnectionInit, NestedInMain
<1>2. NestedInMain => (Entangled => Reentrant)
  BY DEF NestedInMain, Entangled
<1> QED
  BY <1>1, <1>2, StaysNestedInMain, IInvariant, PTL DEF Spec
-------------------------------------------------------------------------------
\* What Invoke hands to the callback is a verdict the abstract connection allows,
\* and the first one.
LEMMA InvokeDecides ==
  ASSUME IInv, NEW a \in Actor, Invoke(a)
  PROVE  Abs!Decide
<1>1. pc[a] = "callback" /\ settled' = settled
  BY DEF Invoke, Deliver, Goto
<1>2. verdict = NoVerdict
  BY <1>1 DEF IInv, OneInside, InOnce, TypeOK, ConnectionTypeOK, FlagState
<1>3. CASE Completes(a)
  <2>1. left = 0
    BY <1>1, <1>3 DEF IInv, Closed
  <2>2. \A c \in Child : settled[c] = "value" /\ box[c] = "value"
    BY <2>1, ZeroMeansAll DEF IInv
  <2>3. verdict' = Abs!Everything
    BY <1>3, <2>2 DEF Invoke, Deliver, Stored, Abs!Everything
  <2> QED
    BY <1>1, <1>2, <2>2, <2>3 DEF Abs!Decide, Abs!Allowed, Abs!NoVerdict, NoVerdict
<1>4. CASE ~Completes(a)
  <2>1. a \in Child /\ settled[a] \in Failure
    BY <1>1, <1>4 DEF Completes, IInv, Shape, TypeOK, ConnectionTypeOK, Kind, Failure
  <2>2. verdict' = Abs!Single(a)
    BY <1>4 DEF Invoke, Deliver, Single, Abs!Single
  <2> QED
    BY <1>1, <1>2, <2>1, <2>2
       DEF Abs!Decide, Abs!Allowed, Abs!NoVerdict, NoVerdict, Abs!Failure, Failure
<1> QED
  BY <1>3, <1>4

\* A child that arrives settles, in the abstract connection too.
LEMMA ArriveSettles ==
  ASSUME IInv, NEW c \in Child, Arrive(c)
  PROVE  Abs!Settle(c)
<1> USE DEF Abs!Settle, Abs!Kind, Abs!Failure, Failure, Kind
<1>1. pc[c] = "started" /\ UNCHANGED verdict
  BY DEF Arrive, Resolve, Drop
<1>2. settled[c] = "pending"
  BY <1>1 DEF IInv, Shape, TypeOK, ConnectionTypeOK
<1>3. \E k \in Kind \cup {"dropped"} : settled' = [settled EXCEPT ![c] = k]
  BY DEF Arrive, Resolve, Drop
<1> QED
  BY <1>1, <1>2, <1>3

\* when_all implements the abstract connection: every step of the shared state is
\* a settlement, the one decision, or invisible.
THEOREM Implementation == Spec => ImplementsAll
<1>1. Init => Abs!Init
  BY DEF Init, ConnectionInit, Abs!Init, Abs!NoVerdict, NoVerdict
<1>2. IInv /\ [Next]_vars => [Abs!Next]_(Abs!vars)
  <2> SUFFICES ASSUME IInv, [Next]_vars PROVE [Abs!Next]_(Abs!vars)
    OBVIOUS
  <2> USE DEF Abs!vars
  <2>1. CASE UNCHANGED vars
    BY <2>1 DEF vars
  <2>2. CASE Accept
    BY <2>2 DEF Accept
  <2>3. ASSUME NEW c \in Child, CreateCallback(c) \/ Start(c) \/ Assign(c)
        PROVE  UNCHANGED Abs!vars
    BY <2>3 DEF CreateCallback, Start, Assign
  <2>4. ASSUME NEW c \in Child, Arrive(c)
        PROVE  Abs!Next
    BY <2>4, ArriveSettles DEF Abs!Next
  <2>5. ASSUME NEW a \in Actor, Step(a)
        PROVE  [Abs!Next]_(Abs!vars)
    <3>1. CASE CompleteOne(a)
      BY <3>1 DEF CompleteOne
    <3>2. CASE CallOnce(a)
      BY <3>2 DEF CallOnce, EnterOnce, PassOnce, LeaveOnce
    <3>3. CASE Invoke(a)
      BY <3>3, InvokeDecides DEF Abs!Next
    <3> QED
      BY <2>5, <3>1, <3>2, <3>3 DEF Step
  <2> QED
    BY <2>1, <2>2, <2>3, <2>4, <2>5 DEF Next, Finished
<1> QED
  BY <1>1, <1>2, IInvariant, PTL DEF Spec, ImplementsAll, Abs!Safety
-------------------------------------------------------------------------------
(* That the calls come to an end, as far as it can be said without fairness *)

\* What an activation has before it: a traversal or a stop of its own, no call that it
\* made, and not somebody else who is inside call_once.
CanGoOn(a) ==
  /\ Returned(a)
  /\ \/ pc[a] \in {"traverse", "assign", "complete", "callback", "leave"}
     \/ pc[a] = "once" /\ flag # "running"

\* Everything that was begun is over; a child is resolved by somebody else.
AtRest == \A a \in Actor : pc[a] \in {"started", "done"}

\* There is no deadlock but the one that Entangled describes.
SomebodyGoesOn == AtRest \/ Entangled \/ \E a \in Actor : CanGoOn(a)

Rank(label) ==
  CASE label = "boxed" -> 8 [] label = "attached" -> 7 [] label = "started" -> 6
    [] label \in {"traverse", "assign"} -> 5 [] label = "complete" -> 4
    [] label = "once" -> 3 [] label = "callback" -> 2 [] label = "leave" -> 1
    [] label = "done" -> 0

\* Every step brings one activation nearer to its end, and moves no other one.
OneStepNearer ==
  \E a \in Actor : /\ Rank(pc'[a]) < Rank(pc[a])
                   /\ \A b \in Actor \ {a} : pc'[b] = pc[b]

\* Where nothing goes on any more, there is a verdict if one is allowed at all.
VerdictInTheEnd == (AtRest \/ Entangled) /\ Abs!Allowed # {} => verdict # NoVerdict

\* A call runs inside of the traversal, or of somebody who is inside the callback.
NestedInCaller ==
  \A c \in Child : under[c] # Nobody =>
    /\ under[c] # c /\ pc[c] \notin {"boxed", "attached", "started"}
    /\ pc[c] # "done" => \/ under[c] = Main /\ pc[Main] = "traverse"
                         \/ pc[under[c]] = "leave"

\* Whoever brought left_ to zero goes to call_once, and does not leave before the callback
\* was invoked.
Completed ==
  left = 0 => flag = "done" \/ \E a \in Actor : pc[a] \in {"once", "callback", "leave"}

\* Both hold initially.
LEMMA InitNested == Init => NestedInCaller /\ Completed
<1> QED
  BY DEF Init, ConnectionInit, NestedInCaller, Completed

\* Every step of when_all leaves the calls nested like this: a caller does not go on before
\* the call has returned.
LEMMA StaysNested == IInv /\ NestedInCaller /\ [Next]_vars => NestedInCaller'
<1> SUFFICES ASSUME IInv, NestedInCaller, [Next]_vars PROVE NestedInCaller'
  OBVIOUS
<1> USE ConnectionAssumption DEF IInv, TypeOK, ConnectionTypeOK, Actor, NestedInCaller
<1>1. CASE UNCHANGED vars
  BY <1>1 DEF vars
<1>2. CASE Accept
  BY <1>2 DEF Accept, Goto, Returned
<1>3. ASSUME NEW c \in Child, CreateCallback(c) \/ Start(c) PROVE NestedInCaller'
  BY <1>3 DEF CreateCallback, Start, Launch
<1>4. ASSUME NEW c \in Child, Arrive(c) PROVE NestedInCaller'
  BY <1>4 DEF Arrive, Resolve, Callers, Drop
<1>5. ASSUME NEW c \in Child, Assign(c) PROVE NestedInCaller'
  BY <1>5 DEF Assign, Goto
<1>6. ASSUME NEW a \in Actor, CompleteOne(a) \/ CallOnce(a) \/ Invoke(a)
      PROVE  NestedInCaller'
  BY <1>6 DEF CompleteOne, CallOnce, EnterOnce, PassOnce, LeaveOnce, Invoke, Deliver, Goto,
              Returned, allVars
<1> QED
  BY <1>1, <1>2, <1>3, <1>4, <1>5, <1>6 DEF Next, Finished, Step

\* No step loses the completion.
LEMMA StaysCompleted == IInv /\ Completed /\ [Next]_vars => Completed'
<1> SUFFICES ASSUME IInv, Completed, [Next]_vars PROVE Completed'
  OBVIOUS
<1> USE ConnectionAssumption DEF IInv, TypeOK, ConnectionTypeOK, Actor, Completed
<1>1. CASE UNCHANGED vars
  BY <1>1 DEF vars
<1>2. CASE Accept
  BY <1>2 DEF Accept, Goto
<1>3. ASSUME NEW c \in Child, CreateCallback(c) PROVE Completed'
  BY <1>3 DEF CreateCallback
<1>4. ASSUME NEW c \in Child, Start(c) \/ Arrive(c) \/ Assign(c) PROVE Completed'
  BY <1>4 DEF Start, Launch, Arrive, Resolve, Drop, allVars, Assign, Goto
<1>5. ASSUME NEW a \in Actor, CompleteOne(a) PROVE Completed'
  BY <1>5 DEF CompleteOne, Goto
<1>6. ASSUME NEW a \in Actor, CallOnce(a) PROVE Completed'
  BY <1>6 DEF CallOnce, EnterOnce, PassOnce, LeaveOnce, OnceExit, OncePassive, OnceEnter,
              Goto, allVars
<1>7. ASSUME NEW a \in Actor, Invoke(a) PROVE Completed'
  BY <1>7 DEF Invoke, Deliver, Goto, allVars
<1> QED
  BY <1>1, <1>2, <1>3, <1>4, <1>5, <1>6, <1>7 DEF Next, Finished, Step

\* They are invariants of when_all.
LEMMA NestedInvariant == Spec => [](IInv /\ NestedInCaller /\ Completed)
<1> QED
  BY InitIInv, NextIInv, InitNested, StaysNested, StaysCompleted, PTL DEF Spec

\* An activation that is not inside call_once, nor in the traversal, has made no call.
LEMMA MadeNoCall ==
  ASSUME NestedInCaller, NEW a \in Actor, pc[a] \notin {"traverse", "leave"}
  PROVE  Returned(a)
<1> QED
  BY ConnectionAssumption DEF NestedInCaller, Returned, Actor

\* Somebody who is inside call_once, or a call that he made, can go on, unless one of these
\* calls waits for him.
LEMMA InsideGoesOn ==
  ASSUME ConnectionTypeOK, OneInside, NestedInCaller, flag = "running",
         \A c \in Child : pc[c] # "traverse"
  PROVE  Entangled \/ \E a \in Actor : CanGoOn(a)
<1> USE ConnectionAssumption DEF ConnectionTypeOK, Actor, Label
<1>1. PICK w \in Actor : InOnce(w) /\ \A b \in Actor \ {w} : ~InOnce(b)
  BY DEF OneInside, InOnce
<1>2. CASE Returned(w)
  BY <1>1, <1>2 DEF CanGoOn, InOnce
<1>3. CASE ~Returned(w)
  <2>1. PICK c \in Child : under[c] = w /\ pc[c] # "done"
    BY <1>3 DEF Returned
  <2>2. pc[w] = "leave" /\ c # w
    BY <1>1, <2>1, MadeNoCall, <1>3 DEF NestedInCaller, InOnce
  <2>3. pc[c] \in {"assign", "complete", "once"}
    BY <1>1, <2>1, <2>2 DEF NestedInCaller, InOnce
  <2>4. CASE pc[c] = "once"
    BY <2>1, <2>2, <2>4 DEF Entangled
  <2>5. CASE pc[c] \in {"assign", "complete"}
    BY <2>5, MadeNoCall DEF CanGoOn
  <2> QED
    BY <2>3, <2>4, <2>5
<1> QED
  BY <1>2, <1>3

\* If nobody is inside call_once, then whoever has begun something can go on, or the call
\* that he waits for.
LEMMA OutsideGoesOn ==
  ASSUME ConnectionTypeOK, OneInside, NestedInCaller, flag # "running",
         \A c \in Child : pc[c] # "traverse",
         NEW a \in Actor, pc[a] \notin {"boxed", "attached", "started", "done"}
  PROVE  \E b \in Actor : CanGoOn(b)
<1> USE ConnectionAssumption DEF ConnectionTypeOK, Actor, Label, FlagState
<1>1. \A b \in Actor : ~InOnce(b)
  BY DEF OneInside
<1>2. CASE Returned(a)
  BY <1>1, <1>2 DEF CanGoOn, InOnce
<1>3. CASE ~Returned(a)
  <2>1. PICK c \in Child : under[c] = a /\ pc[c] # "done"
    BY <1>3 DEF Returned
  <2>2. pc[c] \notin {"boxed", "attached", "started", "done", "callback", "leave"}
    BY <1>1, <2>1 DEF NestedInCaller, InOnce
  <2> QED
    BY <2>2, MadeNoCall DEF CanGoOn
<1> QED
  BY <1>2, <1>3

\* As long as something is under way in when_all, somebody can go on, except where the
\* callback resolved a child whose call waits for that callback.
THEOREM NobodyIsStuck == Spec => []SomebodyGoesOn
<1>1. IInv /\ NestedInCaller => SomebodyGoesOn
  <2> SUFFICES ASSUME IInv, NestedInCaller, ~AtRest
               PROVE  Entangled \/ \E a \in Actor : CanGoOn(a)
    BY DEF SomebodyGoesOn
  <2>1. /\ ConnectionTypeOK /\ OneInside
        /\ \A c \in Child : pc[c] # "traverse"
    BY DEF IInv, TypeOK, Shape, ConnectionTypeOK, Kind
  <2>2. PICK a \in Actor : pc[a] \notin {"started", "done"}
    BY DEF AtRest
  <2>3. CASE flag = "running"
    BY <2>1, <2>3, InsideGoesOn
  <2>4. CASE flag # "running" /\ pc[a] \in {"boxed", "attached"}
    <3>1. Main \in Actor /\ pc[Main] = "traverse"
      BY <2>2, <2>4 DEF IInv, Shape, Actor
    <3> QED
      BY <2>1, <2>4, <3>1, OutsideGoesOn
  <2>5. CASE flag # "running" /\ pc[a] \notin {"boxed", "attached"}
    BY <2>1, <2>2, <2>5, OutsideGoesOn
  <2> QED
    BY <2>3, <2>4, <2>5
<1> QED
  BY <1>1, NestedInvariant, PTL

\* when_all ends after at most eight steps of every activation, unless it waits for a
\* child to be resolved: no step can be taken twice.
THEOREM CallsTerminate == Spec => [][OneStepNearer]_vars
<1>1. IInv /\ [Next]_vars => [OneStepNearer]_vars
  <2> SUFFICES ASSUME IInv, Next PROVE OneStepNearer \/ UNCHANGED vars
    OBVIOUS
  <2> USE ConnectionAssumption DEF IInv, TypeOK, ConnectionTypeOK, Actor, OneStepNearer, Rank
  <2>1. CASE Accept
    BY <2>1 DEF Accept, Goto
  <2>2. ASSUME NEW c \in Child, CreateCallback(c) \/ Start(c) \/ Assign(c)
        PROVE  OneStepNearer
    BY <2>2 DEF CreateCallback, Start, Launch, Assign, Goto
  <2>3. ASSUME NEW c \in Child, Arrive(c) PROVE OneStepNearer
    BY <2>3 DEF Arrive, Resolve, Drop
  <2>4. ASSUME NEW a \in Actor, CompleteOne(a) PROVE OneStepNearer
    BY <2>4 DEF CompleteOne, Goto
  <2>5. ASSUME NEW a \in Actor, CallOnce(a) \/ Invoke(a) PROVE OneStepNearer
    BY <2>5 DEF CallOnce, EnterOnce, PassOnce, LeaveOnce, Invoke, Deliver, Goto
  <2> QED
    BY <2>1, <2>2, <2>3, <2>4, <2>5 DEF Next, Step, Finished
<1> QED
  BY <1>1, IInvariant, PTL DEF Spec

\* When nothing goes on any more, and a child has failed or all have arrived with values,
\* the callback of when_all was invoked: nobody relies on somebody else who does not do it.
THEOREM EndsWithVerdict == Spec => []VerdictInTheEnd
<1>1. IInv /\ Completed => VerdictInTheEnd
  <2> SUFFICES ASSUME IInv, Completed, AtRest \/ Entangled, Abs!Allowed # {}
               PROVE  verdict # NoVerdict
    BY DEF VerdictInTheEnd
  <2> USE ConnectionAssumption DEF IInv, TypeOK, ConnectionTypeOK, Actor
  <2>1. CASE Entangled
    BY <2>1 DEF FlagState, Entangled, OneInside, InOnce
  <2>2. CASE AtRest /\ \E c \in Child : settled[c] \in Failure
    BY <2>2 DEF AtRest, Shape, Reported, OneInside
  <2>3. CASE AtRest /\ \A c \in Child : settled[c] = "value"
    <3>1. \A a \in Actor : pc[a] = "done"
      BY <2>3 DEF AtRest, Shape
    <3>2. Outstanding = {} /\ MainCount = 0
      BY <2>3, <3>1 DEF Outstanding, MainCount, Failure
    <3>3. left = 0
      BY <3>2, FS_EmptySet DEF CountExact
    <3> QED
      BY <3>1, <3>3 DEF Completed, OneInside
  <2>4. \/ \E c \in Child : settled[c] \in Failure
        \/ \A c \in Child : settled[c] = "value"
    BY DEF Abs!Allowed, Abs!Failure, Failure
  <2> QED
    BY <2>1, <2>2, <2>3, <2>4
<1> QED
  BY <1>1, NestedInvariant, PTL

\* What the abstract connection never takes back: a verdict that was drawn, and what a
\* child has settled with; and a verdict is one that is allowed when it is drawn.
Final ==
  /\ [][verdict = NoVerdict /\ verdict' \in Abs!Allowed]_verdict
  /\ [][\A c \in Child : settled[c] # "pending" => settled'[c] = settled[c]]_settled

\* It keeps to that by itself.
LEMMA AbsIsFinal == ConnectionTypeOK /\ [Abs!Next]_(Abs!vars) =>
  /\ [verdict = NoVerdict /\ verdict' \in Abs!Allowed]_verdict
  /\ [\A c \in Child : settled[c] # "pending" => settled'[c] = settled[c]]_settled
<1> QED
  BY DEF ConnectionTypeOK, Abs!Next, Abs!vars, Abs!Decide, Abs!Settle, Abs!NoVerdict,
         NoVerdict

\* Hence when_all does, because it implements it.
THEOREM VerdictIsFinal == Spec => Final
<1> QED
  BY TypeCorrect, Implementation, AbsIsFinal, PTL DEF TypeOK, ImplementsAll, Abs!Safety, Final
-------------------------------------------------------------------------------
(* when_any, on the variables of the connection that it shares with when_all *)

Any == INSTANCE WhenAny

AnyAbs == INSTANCE Resolution WITH Mode <- "any"

\* Where an activation can be, given what its child was resolved with: everybody who
\* arrives goes to call_once, and Main does not.
AnyShape ==
  /\ \A c \in Child :
       /\ settled[c] = "pending" => pc[c] \in {"boxed", "started"}
       /\ settled[c] = "dropped" => pc[c] = "done"
       /\ settled[c] \in Kind => pc[c] \in {"once", "callback", "leave", "done"}
  /\ pc[Main] \in {"traverse", "done"}
  /\ pc[Main] = "done" => \A c \in Child : pc[c] # "boxed"

\* Whoever arrived and has left, left behind an invocation.
AnyReported == \A c \in Child : pc[c] = "done" /\ settled[c] \in Kind => flag = "done"

\* The verdict is what one child has arrived with.
AnyJustified ==
  verdict # NoVerdict =>
    \E c \in Child : settled[c] \in Kind /\ verdict = [kind |-> settled[c], of |-> {c}]

AnyInv == ConnectionTypeOK /\ AnyShape /\ OneInside /\ AnyReported /\ AnyJustified

\* The invariant holds initially.
LEMMA AnyInitInv == Any!Init => AnyInv
<1> QED
  BY ConnectionAssumption
     DEF Any!Init, Any!ConnectionInit, Any!OnceInit, Any!Actor, Any!NoVerdict, AnyInv,
         ConnectionTypeOK, Actor, Label, FlagState, Failure, Kind, NoVerdict, AnyShape,
         OneInside, InOnce, AnyReported, AnyJustified

\* The effect of an arrival: the child is settled, and either on its way to call_once
\* or, if its promise was dropped, gone.
LEMMA AnyArrival ==
  ASSUME NEW c \in Child, Any!Arrive(c), ConnectionTypeOK
  PROVE  /\ pc[c] = "started"
         /\ under' \in [Child -> Actor \cup {Nobody}]
         /\ UNCHANGED <<flag, calls, verdict>>
         /\ \E k \in Kind \cup {"dropped"}, to \in {"once", "done"} :
              /\ k \in Kind => to = "once"
              /\ k = "dropped" => to = "done"
              /\ settled' = [settled EXCEPT ![c] = k]
              /\ pc' = [pc EXCEPT ![c] = to]
<1> USE DEF ConnectionTypeOK, Any!Kind, Any!Failure, Kind, Failure
<1>1. CASE Any!Drop(c)
  BY <1>1 DEF Any!Drop
<1>2. CASE \E k \in Any!Kind : Any!Resolve(c, k, "once")
  <2>1. PICK k \in Any!Kind : Any!Resolve(c, k, "once")
    BY <1>2
  <2>2. under' \in [Child -> Actor \cup {Nobody}]
    BY <2>1 DEF Any!Resolve, Any!Callers, Any!Actor, Actor
  <2> QED
    BY <2>1, <2>2 DEF Any!Resolve
<1> QED
  BY <1>1, <1>2 DEF Any!Arrive

\* Every step preserves the invariant.
LEMMA AnyNextInv == AnyInv /\ [Any!Next]_(Any!vars) => AnyInv'
<1> SUFFICES ASSUME AnyInv, [Any!Next]_(Any!vars) PROVE AnyInv'
  OBVIOUS
<1> USE ConnectionAssumption
    DEF AnyInv, ConnectionTypeOK, Actor, Label, FlagState, AnyShape, OneInside, InOnce,
        AnyReported, AnyJustified
<1>1. CASE Any!TraversalEnds
  BY <1>1 DEF Any!TraversalEnds, Any!Goto
<1>2. ASSUME NEW c \in Child, Any!Start(c) PROVE AnyInv'
  BY <1>2 DEF Any!Start, Any!Launch, Kind, Failure
<1>3. ASSUME NEW c \in Child, Any!Arrive(c) PROVE AnyInv'
  <2>1. PICK k \in Kind \cup {"dropped"}, to \in {"once", "done"} :
          /\ k \in Kind => to = "once"
          /\ k = "dropped" => to = "done"
          /\ settled' = [settled EXCEPT ![c] = k]
          /\ pc' = [pc EXCEPT ![c] = to]
    BY <1>3, AnyArrival
  <2>2. /\ pc[c] = "started" /\ settled[c] = "pending"
        /\ UNCHANGED <<flag, calls, verdict>>
    BY <1>3, AnyArrival DEF Kind, Failure
  <2>3. ConnectionTypeOK' /\ AnyShape'
    BY <1>3, <2>1, AnyArrival DEF Kind, Failure
  <2>4. OneInside'
    <3>1. \A a \in Actor : InOnce(a)' <=> InOnce(a)
      BY <2>1, <2>2
    <3>2. \A a \in Actor : InOnce(a) => pc'[a] = pc[a]
      BY <2>1, <2>2
    <3> QED
      BY <2>2, <3>1, <3>2
  <2>5. AnyReported'
    BY <2>1, <2>2 DEF Kind, Failure
  <2>6. AnyJustified'
    BY <1>3, <2>1, <2>2, AnyArrival DEF Kind, Failure
  <2> QED
    BY <2>3, <2>4, <2>5, <2>6
<1>4. ASSUME NEW c \in Child, Any!EnterOnce(c) PROVE AnyInv'
  BY <1>4 DEF Any!EnterOnce, Any!Goto, Any!OnceEnter, Kind, Failure
<1>5. ASSUME NEW c \in Child, Any!PassOnce(c) PROVE AnyInv'
  BY <1>5 DEF Any!PassOnce, Any!Goto, Any!OncePassive, Kind, Failure
<1>6. ASSUME NEW c \in Child, Any!LeaveOnce(c) PROVE AnyInv'
  BY <1>6 DEF Any!LeaveOnce, Any!Goto, Any!OnceExit, Kind, Failure
<1>7. ASSUME NEW c \in Child, Any!Invoke(c) PROVE AnyInv'
  <2>1. /\ pc[c] = "callback" /\ pc' = [pc EXCEPT ![c] = "leave"]
        /\ calls' = calls + 1
        /\ verdict' = [kind |-> settled[c], of |-> {c}]
        /\ UNCHANGED <<settled, under, flag>>
    BY <1>7 DEF Any!Invoke, Any!Deliver, Any!Goto, Any!Single
  <2>2. settled[c] \in Kind
    BY <2>1
  <2>3. flag = "running" /\ calls = 0 /\ \A b \in Actor \ {c} : ~InOnce(b)
    BY <2>1
  <2>4. verdict' # NoVerdict
    BY <2>1, <2>2 DEF NoVerdict, Kind, Failure
  <2>5. ConnectionTypeOK'
    BY <2>1, <2>2, <2>3
  <2>6. AnyShape' /\ AnyReported' /\ AnyJustified'
    BY <2>1, <2>2 DEF Kind, Failure
  <2>7. OneInside'
    BY <2>1, <2>3, <2>4
  <2> QED
    BY <2>5, <2>6, <2>7
<1>8. CASE UNCHANGED Any!vars
  BY <1>8 DEF Any!vars
<1> QED
  BY <1>1, <1>2, <1>3, <1>4, <1>5, <1>6, <1>7, <1>8 DEF Any!Next, Any!CallOnce, Any!Finished

\* It is an invariant of when_any.
LEMMA AnyInvariant == Any!Spec => []AnyInv
<1> QED
  BY AnyInitInv, AnyNextInv, PTL DEF Any!Spec

\* The callback of when_any is invoked once at most, and with what a child arrived with.
THEOREM OneWinner == Any!Spec => [](calls <= 1 /\ AnyJustified)
<1>1. AnyInv => calls <= 1 /\ AnyJustified
  BY DEF AnyInv, OneInside, ConnectionTypeOK, FlagState
<1> QED
  BY <1>1, AnyInvariant, PTL

\* The call of a child that arrives, winner or not, returns only after the callback was
\* invoked.
THEOREM ArrivalIsReported ==
  Any!Spec => [](\A c \in Child : pc[c] = "done" /\ settled[c] \in Kind => verdict # NoVerdict)
<1>1. AnyInv => \A c \in Child : pc[c] = "done" /\ settled[c] \in Kind => verdict # NoVerdict
  BY DEF AnyInv, AnyReported, OneInside
<1> QED
  BY <1>1, AnyInvariant, PTL

\* Every step of when_any leaves its calls nested in Main, too.
LEMMA AnyStaysNestedInMain == AnyInv /\ NestedInMain /\ [Any!Next]_(Any!vars) => NestedInMain'
<1> SUFFICES ASSUME AnyInv, NestedInMain, [Any!Next]_(Any!vars), ~Reentrant
             PROVE  NestedInMain'
  BY DEF NestedInMain
<1> USE ConnectionAssumption DEF AnyInv, ConnectionTypeOK, Actor, NestedInMain
<1>1. CASE UNCHANGED Any!vars
  BY <1>1 DEF Any!vars
<1>2. CASE Any!TraversalEnds
  BY <1>2 DEF Any!TraversalEnds, Any!Goto, Any!Returned
<1>3. ASSUME NEW c \in Child, Any!Start(c) PROVE NestedInMain'
  BY <1>3 DEF Any!Start, Any!Launch
<1>4. ASSUME NEW c \in Child, Any!Arrive(c) PROVE NestedInMain'
  BY <1>4 DEF Any!Arrive, Any!Resolve, Any!Callers, Any!Drop
<1>5. ASSUME NEW c \in Child, Any!CallOnce(c) \/ Any!Invoke(c) PROVE NestedInMain'
  BY <1>5 DEF Any!CallOnce, Any!EnterOnce, Any!PassOnce, Any!LeaveOnce, Any!Invoke,
              Any!Deliver, Any!Goto
<1> QED
  BY <1>1, <1>2, <1>3, <1>4, <1>5 DEF Any!Next, Any!Finished

\* In when_any as well, only a callback that resolves a child itself makes a call wait for
\* its own caller.
THEOREM AnyOnlyCallbacksEntangle == Any!Spec => [](Any!Entangled => Reentrant)
<1>1. Any!Init => NestedInMain
  BY DEF Any!Init, Any!ConnectionInit, NestedInMain
<1>2. NestedInMain => (Any!Entangled => Reentrant)
  BY DEF NestedInMain, Any!Entangled
<1> QED
  BY <1>1, <1>2, AnyStaysNestedInMain, AnyInvariant, PTL DEF Any!Spec

\* when_any implements the abstract connection: the winner decides, an arrival settles,
\* and nothing else is visible.
THEOREM AnyImplementation == Any!Spec => AnyAbs!Safety
<1>1. Any!Init => AnyAbs!Init
  BY DEF Any!Init, Any!ConnectionInit, Any!NoVerdict, AnyAbs!Init, AnyAbs!NoVerdict
<1>2. AnyInv /\ [Any!Next]_(Any!vars) => [AnyAbs!Next]_(AnyAbs!vars)
  <2> SUFFICES ASSUME AnyInv, [Any!Next]_(Any!vars) PROVE [AnyAbs!Next]_(AnyAbs!vars)
    OBVIOUS
  <2> USE DEF AnyAbs!vars
  <2>1. CASE UNCHANGED Any!vars
    BY <2>1 DEF Any!vars
  <2>2. CASE Any!TraversalEnds
    BY <2>2 DEF Any!TraversalEnds
  <2>3. ASSUME NEW c \in Child, Any!Start(c) \/ Any!CallOnce(c)
        PROVE  UNCHANGED AnyAbs!vars
    BY <2>3 DEF Any!Start, Any!CallOnce, Any!EnterOnce, Any!PassOnce, Any!LeaveOnce
  <2>4. ASSUME NEW c \in Child, Any!Arrive(c)
        PROVE  AnyAbs!Next
    <3>1. settled[c] = "pending"
      BY <2>4, AnyArrival DEF AnyInv, AnyShape, ConnectionTypeOK, Kind, Failure
    <3>2. AnyAbs!Settle(c)
      BY <2>4, <3>1, AnyArrival
         DEF AnyInv, AnyAbs!Settle, AnyAbs!Kind, AnyAbs!Failure, Kind, Failure
    <3> QED
      BY <3>2 DEF AnyAbs!Next
  <2>5. ASSUME NEW c \in Child, Any!Invoke(c)
        PROVE  AnyAbs!Next
    <3>1. /\ pc[c] = "callback" /\ settled' = settled
          /\ verdict' = AnyAbs!Single(c)
      BY <2>5 DEF Any!Invoke, Any!Deliver, Any!Goto, Any!Single, AnyAbs!Single
    <3>2. verdict = NoVerdict
      BY <3>1 DEF AnyInv, OneInside, InOnce, ConnectionTypeOK, FlagState, Actor
    <3>3. settled[c] \in Kind
      BY <3>1 DEF AnyInv, AnyShape, ConnectionTypeOK
    <3>4. AnyAbs!Decide
      BY <3>1, <3>2, <3>3
         DEF AnyAbs!Decide, AnyAbs!Allowed, AnyAbs!NoVerdict, NoVerdict, AnyAbs!Kind,
             AnyAbs!Failure, Kind, Failure
    <3> QED
      BY <3>4 DEF AnyAbs!Next
  <2> QED
    BY <2>1, <2>2, <2>3, <2>4, <2>5 DEF Any!Next, Any!Finished
<1> QED
  BY <1>1, <1>2, AnyInvariant, PTL DEF Any!Spec, AnyAbs!Safety
-------------------------------------------------------------------------------
(* That the calls into when_any come to an end *)

\* Where nothing goes on any more, there is a verdict if some child has arrived.
AnyVerdictInTheEnd == (AtRest \/ Entangled) /\ AnyAbs!Allowed # {} => verdict # NoVerdict

\* Every step of when_any leaves its calls nested in their callers.
LEMMA AnyStaysNested == AnyInv /\ NestedInCaller /\ [Any!Next]_(Any!vars) => NestedInCaller'
<1> SUFFICES ASSUME AnyInv, NestedInCaller, [Any!Next]_(Any!vars) PROVE NestedInCaller'
  OBVIOUS
<1> USE ConnectionAssumption DEF AnyInv, ConnectionTypeOK, Actor, NestedInCaller
<1>1. CASE UNCHANGED Any!vars
  BY <1>1 DEF Any!vars
<1>2. CASE Any!TraversalEnds
  BY <1>2 DEF Any!TraversalEnds, Any!Goto, Any!Returned
<1>3. ASSUME NEW c \in Child, Any!Start(c) PROVE NestedInCaller'
  BY <1>3 DEF Any!Start, Any!Launch
<1>4. ASSUME NEW c \in Child, Any!Arrive(c) PROVE NestedInCaller'
  BY <1>4 DEF Any!Arrive, Any!Resolve, Any!Callers, Any!Actor, Any!Drop
<1>5. ASSUME NEW c \in Child, Any!CallOnce(c) \/ Any!Invoke(c) PROVE NestedInCaller'
  BY <1>5 DEF Any!CallOnce, Any!EnterOnce, Any!PassOnce, Any!LeaveOnce, Any!Invoke,
              Any!Deliver, Any!Goto, Any!Returned
<1> QED
  BY <1>1, <1>2, <1>3, <1>4, <1>5 DEF Any!Next, Any!Finished

\* That is an invariant of when_any.
LEMMA AnyNestedInvariant == Any!Spec => [](AnyInv /\ NestedInCaller)
<1>1. Any!Init => NestedInCaller
  BY DEF Any!Init, Any!ConnectionInit, NestedInCaller
<1> QED
  BY <1>1, AnyInitInv, AnyNextInv, AnyStaysNested, PTL DEF Any!Spec

\* As long as something is under way in when_any, somebody can go on, with the same
\* exception.
THEOREM AnyNobodyIsStuck == Any!Spec => []SomebodyGoesOn
<1>1. AnyInv /\ NestedInCaller => SomebodyGoesOn
  <2> SUFFICES ASSUME AnyInv, NestedInCaller, ~AtRest
               PROVE  Entangled \/ \E a \in Actor : CanGoOn(a)
    BY DEF SomebodyGoesOn
  <2>1. /\ ConnectionTypeOK /\ OneInside
        /\ \A c \in Child : pc[c] \notin {"traverse", "attached"}
        /\ \A a \in Actor : pc[a] \in Label
    BY DEF AnyInv, AnyShape, ConnectionTypeOK, Kind
  <2>2. PICK a \in Actor : pc[a] \notin {"started", "done"}
    BY DEF AtRest
  <2>3. CASE flag = "running"
    BY <2>1, <2>3, InsideGoesOn
  <2>4. CASE flag # "running" /\ pc[a] # "boxed"
    <3>1. pc[a] # "attached"
      BY <2>1, <2>2 DEF AnyInv, AnyShape, Actor
    <3> QED
      BY <2>1, <2>2, <2>4, <3>1, OutsideGoesOn
  <2>5. CASE flag # "running" /\ pc[a] = "boxed" /\ pc[Main] = "traverse"
    <3>1. Main \in Actor
      BY DEF Actor
    <3> QED
      BY <2>1, <2>5, <3>1, OutsideGoesOn
  <2>6. pc[a] = "boxed" => pc[Main] = "traverse"
    BY DEF AnyInv, AnyShape, Actor
  <2> QED
    BY <2>3, <2>4, <2>5, <2>6
<1> QED
  BY <1>1, AnyNestedInvariant, PTL

\* when_any ends after at most eight steps of every activation as well.
THEOREM AnyCallsTerminate == Any!Spec => [][OneStepNearer]_(Any!vars)
<1>1. AnyInv /\ [Any!Next]_(Any!vars) => [OneStepNearer]_(Any!vars)
  <2> SUFFICES ASSUME AnyInv, Any!Next PROVE OneStepNearer \/ UNCHANGED Any!vars
    OBVIOUS
  <2> USE ConnectionAssumption DEF AnyInv, ConnectionTypeOK, Actor, OneStepNearer, Rank
  <2>1. CASE Any!TraversalEnds
    BY <2>1 DEF Any!TraversalEnds, Any!Goto
  <2>2. ASSUME NEW c \in Child, Any!Start(c) PROVE OneStepNearer
    BY <2>2 DEF Any!Start, Any!Launch
  <2>3. ASSUME NEW c \in Child, Any!Arrive(c) PROVE OneStepNearer
    BY <2>3, AnyArrival DEF Kind, Failure
  <2>4. ASSUME NEW c \in Child, Any!CallOnce(c) \/ Any!Invoke(c) PROVE OneStepNearer
    BY <2>4 DEF Any!CallOnce, Any!EnterOnce, Any!PassOnce, Any!LeaveOnce, Any!Invoke,
                Any!Deliver, Any!Goto
  <2> QED
    BY <2>1, <2>2, <2>3, <2>4 DEF Any!Next, Any!Finished
<1> QED
  BY <1>1, AnyInvariant, PTL DEF Any!Spec

\* When nothing goes on any more, and a child has arrived, the callback was invoked.
THEOREM AnyEndsWithVerdict == Any!Spec => []AnyVerdictInTheEnd
<1>1. AnyInv => AnyVerdictInTheEnd
  <2> SUFFICES ASSUME AnyInv, AtRest \/ Entangled, AnyAbs!Allowed # {}
               PROVE  verdict # NoVerdict
    BY DEF AnyVerdictInTheEnd
  <2> USE ConnectionAssumption DEF AnyInv, ConnectionTypeOK, Actor
  <2>1. CASE Entangled
    BY <2>1 DEF FlagState, Entangled, OneInside, InOnce
  <2>2. CASE AtRest
    <3>1. PICK c \in Child : settled[c] \in Kind
      BY DEF AnyAbs!Allowed, AnyAbs!Kind, AnyAbs!Failure, Kind, Failure
    <3> QED
      BY <2>2, <3>1 DEF AtRest, AnyShape, AnyReported, OneInside
  <2> QED
    BY <2>1, <2>2
<1> QED
  BY <1>1, AnyInvariant, PTL

\* The same as Final, in mode "any".
AnyFinal ==
  /\ [][verdict = NoVerdict /\ verdict' \in AnyAbs!Allowed]_verdict
  /\ [][\A c \in Child : settled[c] # "pending" => settled'[c] = settled[c]]_settled

\* The abstract connection keeps to it in this mode, too.
LEMMA AnyAbsIsFinal == ConnectionTypeOK /\ [AnyAbs!Next]_(AnyAbs!vars) =>
  /\ [verdict = NoVerdict /\ verdict' \in AnyAbs!Allowed]_verdict
  /\ [\A c \in Child : settled[c] # "pending" => settled'[c] = settled[c]]_settled
<1> QED
  BY DEF ConnectionTypeOK, AnyAbs!Next, AnyAbs!vars, AnyAbs!Decide, AnyAbs!Settle,
         AnyAbs!NoVerdict, NoVerdict

\* The first child that arrives wins: what when_any was resolved with is never revised by
\* a later one.
THEOREM WinnerIsFinal == Any!Spec => AnyFinal
<1>1. AnyInv => ConnectionTypeOK
  BY DEF AnyInv
<1> QED
  BY <1>1, AnyInvariant, AnyImplementation, AnyAbsIsFinal, PTL DEF AnyAbs!Safety, AnyFinal
===============================================================================
