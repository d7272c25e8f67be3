----------------------------- MODULE PromiseProofs -----------------------------
(***************************************************************************)
(* The safety of promises and splits, for any number of waiters and calls  *)
(* that run inside of each other, and whatever callbacks do.               *)
(***************************************************************************)
EXTENDS Promise, SequenceTheorems, TLAPS

\* What a waiter may be told.
Outcome == Signal \cup {"undefined", "dropped", "broken"}

\* The type of the variables, with the domains of the functions.
Typed ==
  /\ TypeOK
  /\ cause \in [Waiter -> {<<>>} \cup {<<s>> : s \in Signal}]
  /\ got \in [Waiter -> {<<>>} \cup {<<o>> : o \in Outcome}]

\* Nobody was told anything whose promise still has its callback, everybody else was
\* told what the promise was resolved with, or was dropped with an excuse.
ToldTrue ==
  \A w \in Waiter :
    /\ data[w] = "callback" <=> got[w] = <<>>
    /\ data[w] # "callback" =>
         \/ got[w] = <<Dropped(w)>> /\ w \in excused
         \/ \E s \in Signal : cause[w] = <<s>> /\ got[w] = <<Told(w, s, TRUE)>>

\* A promise that is in no split yet was not used by a call.
Apart ==
  \A w \in Waiter :
    /\ place[w] \in Foreign \cup {"unstarted"} => data[w] = "callback" /\ cause[w] = <<>>
    /\ place[w] = "program" => /\ data[w] # "calling"
                               /\ data[w] = "callback" => cause[w] = <<>>
    /\ place[w] = "destroyed" => data[w] = "null"

\* A running call: who is in it and has a callback still is to be visited; the
\* arguments are whole as long as there is somebody to visit.
Running(f) ==
  /\ ToSet(f.todo) \subseteq ToSet(f.all)
  /\ f.serving \subseteq ToSet(f.all)
  /\ \A w \in ToSet(f.all) :
       /\ place[w] = "split"
       /\ data[w] = "callback" => w \in ToSet(f.todo) /\ cause[w] = <<f.signal>>
       /\ data[w] = "calling" <=> w \in f.serving
  /\ ~f.whole => f.todo = <<>>

EachRunning == \A i \in 1 .. Len(calls) : Running(calls[i])

\* No promise is in two calls, nor in a call and in promise_, but for a call of
\* promise_ where it is, inside of which there is no other.
Disjoint ==
  /\ \A i, j \in 1 .. Len(calls) : i # j => ToSet(calls[i].all) \cap ToSet(calls[j].all) = {}
  /\ \A i \in 1 .. Len(calls) :
       IF calls[i].inPlace THEN i = 1 /\ ToSet(calls[i].all) \subseteq ToSet(promise)
                           ELSE ToSet(calls[i].all) \cap ToSet(promise) = {}

\* What is in promise_ was not called, but by a call of promise_ where it is; what was
\* added to it inside of that call is excused.
Joined ==
  \A w \in ToSet(promise) :
    /\ place[w] = "split"
    /\ \/ /\ data[w] # "calling"
          /\ data[w] = "callback" => /\ cause[w] = <<>>
                                     /\ InPlace => w \in excused
       \/ InPlace /\ w \in ToSet(Top.all)

IInv == Typed /\ ToldTrue /\ Apart /\ EachRunning /\ Disjoint /\ Joined

Frame == [todo : Seq(Waiter), all : Seq(Waiter), signal : Signal,
          whole : BOOLEAN, serving : SUBSET Waiter, inPlace : BOOLEAN]
-------------------------------------------------------------------------------
(* Stacks, and the sets of their elements *)

\* Something is put in front of a sequence.
LEMMA Pushed ==
  ASSUME NEW S, NEW x \in S, NEW h \in Seq(S)
  PROVE  /\ <<x>> \o h \in Seq(S)
         /\ Len(<<x>> \o h) = Len(h) + 1
         /\ (<<x>> \o h)[1] = x
         /\ \A k \in 2 .. Len(h) + 1 : (<<x>> \o h)[k] = h[k - 1]
<1>1. <<x>> \in Seq(S) /\ Len(<<x>>) = 1 /\ <<x>>[1] = x
  OBVIOUS
<1> QED
  BY <1>1, ConcatProperties

\* The front is taken off.
LEMMA Popped ==
  ASSUME NEW S, NEW h \in Seq(S), h # <<>>
  PROVE  /\ Len(h) \in Nat \ {0} /\ Head(h) = h[1] /\ h[1] \in S
         /\ Tail(h) \in Seq(S) /\ Len(Tail(h)) = Len(h) - 1
         /\ \A k \in 1 .. Len(h) - 1 : Tail(h)[k] = h[k + 1]
<1>1. Len(h) \in Nat \ {0} /\ h[1] \in S
  BY EmptySeq, LenProperties, ElementOfSeq
<1> QED
  BY <1>1, HeadTailProperties

\* The front is exchanged.
LEMMA Exchanged ==
  ASSUME NEW S, NEW x \in S, NEW h \in Seq(S), h # <<>>
  PROVE  /\ <<x>> \o Tail(h) \in Seq(S)
         /\ Len(<<x>> \o Tail(h)) = Len(h) /\ Len(h) \in Nat \ {0}
         /\ (<<x>> \o Tail(h))[1] = x
         /\ \A k \in 2 .. Len(h) : (<<x>> \o Tail(h))[k] = h[k]
<1> DEFINE t == Tail(h)
           n == <<x>> \o t
<1>1. /\ Len(h) \in Nat \ {0} /\ t \in Seq(S) /\ Len(t) = Len(h) - 1
      /\ \A k \in 1 .. Len(h) - 1 : t[k] = h[k + 1]
  BY Popped
<1> HIDE DEF t
<1>2. /\ n \in Seq(S) /\ Len(n) = Len(t) + 1 /\ n[1] = x
      /\ \A k \in 2 .. Len(t) + 1 : n[k] = t[k - 1]
  BY <1>1, Pushed
<1> HIDE DEF n
<1>3. \A k \in 2 .. Len(h) : n[k] = h[k]
  <2> SUFFICES ASSUME NEW k \in 2 .. Len(h) PROVE n[k] = h[k]
    OBVIOUS
  <2>1. k - 1 \in 1 .. Len(h) - 1 /\ k \in 2 .. Len(t) + 1
    BY <1>1
  <2>2. n[k] = t[k - 1] /\ t[k - 1] = h[(k - 1) + 1]
    BY <1>1, <1>2, <2>1
  <2> QED
    BY <2>2
<1> QED
  BY <1>1, <1>2, <1>3 DEF n, t

\* A sequence has the element in front and those behind it.
LEMMA Elements ==
  ASSUME NEW S, NEW h \in Seq(S)
  PROVE  /\ ToSet(h) \subseteq S
         /\ h = <<>> => ToSet(h) = {}
         /\ h # <<>> => Head(h) \in S /\ ToSet(h) = {Head(h)} \cup ToSet(Tail(h))
<1>1. ToSet(h) = {h[i] : i \in 1 .. Len(h)}
  BY LenProperties DEF ToSet
<1>2. ToSet(h) \subseteq S
  BY <1>1, ElementOfSeq, LenProperties
<1>3. h = <<>> => ToSet(h) = {}
  BY DEF ToSet
<1>4. ASSUME h # <<>>
      PROVE  Head(h) \in S /\ ToSet(h) = {Head(h)} \cup ToSet(Tail(h))
  <2> DEFINE t == Tail(h)
  <2>1. /\ Len(h) \in Nat \ {0} /\ Head(h) = h[1] /\ h[1] \in S
        /\ t \in Seq(S) /\ Len(t) = Len(h) - 1
        /\ \A k \in 1 .. Len(h) - 1 : t[k] = h[k + 1]
    BY <1>4, Popped
  <2> HIDE DEF t
  <2>2. ToSet(t) = {t[i] : i \in 1 .. Len(h) - 1}
    BY <2>1, LenProperties DEF ToSet
  <2>3. ASSUME NEW x \in ToSet(h) PROVE x = h[1] \/ x \in ToSet(t)
    <3>1. PICK i \in 1 .. Len(h) : x = h[i]
      BY <1>1
    <3>2. CASE i # 1
      <4>1. i - 1 \in 1 .. Len(h) - 1 /\ t[i - 1] = h[(i - 1) + 1]
        BY <2>1, <3>2
      <4>2. t[i - 1] = x
        BY <2>1, <3>1, <4>1
      <4> QED
        BY <2>2, <4>1, <4>2
    <3> QED
      BY <3>1, <3>2
  <2>4. ASSUME NEW x \in ToSet(t) PROVE x \in ToSet(h)
    <3>1. PICK i \in 1 .. Len(h) - 1 : x = t[i]
      BY <2>2
    <3>2. i + 1 \in 1 .. Len(h) /\ x = h[i + 1]
      BY <2>1, <3>1
    <3> QED
      BY <1>1, <3>2
  <2>5. h[1] \in ToSet(h)
    BY <1>1, <2>1
  <2> QED
    BY <2>1, <2>3, <2>4, <2>5 DEF t
<1> QED
  BY <1>2, <1>3, <1>4

\* What is put in front of a sequence is one element more, and doubles none that is new.
LEMMA PushedElements ==
  ASSUME NEW S, NEW x \in S, NEW h \in Seq(S)
  PROVE  /\ ToSet(<<x>> \o h) = {x} \cup ToSet(h)
         /\ x \notin ToSet(h) /\ IsInjective(h) => IsInjective(<<x>> \o h)
<1> DEFINE n == <<x>> \o h
<1>1. /\ n \in Seq(S) /\ Len(n) = Len(h) + 1 /\ n[1] = x /\ Len(h) \in Nat
      /\ \A k \in 2 .. Len(h) + 1 : n[k] = h[k - 1]
  BY Pushed, LenProperties
<1> HIDE DEF n
<1>2. /\ ToSet(h) = {h[i] : i \in 1 .. Len(h)}
      /\ ToSet(n) = {n[i] : i \in 1 .. Len(h) + 1}
      /\ DOMAIN h = 1 .. Len(h) /\ DOMAIN n = 1 .. Len(h) + 1
  BY <1>1, LenProperties DEF ToSet
<1>3. ASSUME NEW y \in ToSet(n) PROVE y = x \/ y \in ToSet(h)
  <2>1. PICK i \in 1 .. Len(h) + 1 : y = n[i]
    BY <1>2
  <2>2. CASE i # 1
    <3>1. i - 1 \in 1 .. Len(h) /\ y = h[i - 1]
      BY <1>1, <2>1, <2>2
    <3> QED
      BY <1>2, <3>1
  <2> QED
    BY <1>1, <2>1, <2>2
<1>4. ASSUME NEW y \in ToSet(h) PROVE y \in ToSet(n)
  <2>1. PICK i \in 1 .. Len(h) : y = h[i]
    BY <1>2
  <2>2. i + 1 \in 2 .. Len(h) + 1 /\ n[i + 1] = h[(i + 1) - 1]
    BY <1>1
  <2>3. n[i + 1] = y
    BY <2>1, <2>2
  <2> QED
    BY <1>1, <1>2, <2>2, <2>3
<1>5. x \in ToSet(n)
  BY <1>1, <1>2
<1>6. ASSUME x \notin ToSet(h), IsInjective(h),
             NEW i \in 1 .. Len(h) + 1, NEW j \in 1 .. Len(h) + 1, n[i] = n[j]
      PROVE  i = j
  <2>1. \A k \in 1 .. Len(h) + 1 : k = 1 \/ (k - 1 \in 1 .. Len(h) /\ n[k] = h[k - 1])
    BY <1>1
  <2>2. \A k \in 1 .. Len(h) : h[k] # x
    BY <1>2, <1>6
  <2>3. CASE i = 1 \/ j = 1
    BY <1>1, <1>6, <2>1, <2>2, <2>3
  <2>4. CASE i # 1 /\ j # 1
    <3>1. h[i - 1] = h[j - 1] /\ i - 1 \in 1 .. Len(h) /\ j - 1 \in 1 .. Len(h)
      BY <1>6, <2>1, <2>4
    <3>2. i - 1 = j - 1
      BY <1>2, <1>6, <3>1 DEF IsInjective
    <3> QED
      BY <3>2
  <2> QED
    BY <2>3, <2>4
<1> QED
  BY <1>2, <1>3, <1>4, <1>5, <1>6 DEF n, IsInjective
-------------------------------------------------------------------------------
(* Single waiters *)

Causes == {<<>>} \cup {<<s>> : s \in Signal}
Gots   == {<<>>} \cup {<<o>> : o \in Outcome}

\* A cause is none, or one signal.
LEMMA CauseShape ==
  ASSUME NEW c \in Causes
  PROVE  Len(c) <= 1 /\ ToSet(c) \subseteq Signal
<1>1. CASE c = <<>>
  <2>1. Len(c) = 0 /\ ToSet(c) = {}
    BY <1>1 DEF ToSet
  <2> QED
    BY <2>1
<1>2. ASSUME NEW s \in Signal, c = <<s>>
      PROVE  Len(c) <= 1 /\ ToSet(c) \subseteq Signal
  <2>1. Len(c) = 1 /\ DOMAIN c = {1} /\ c[1] = s
    BY <1>2
  <2> QED
    BY <2>1 DEF ToSet
<1> QED
  BY <1>1, <1>2 DEF Causes

\* The invariant of types, in parts.
LEMMA TypeParts ==
  /\ Typed => /\ place \in [Waiter -> Place] /\ data \in [Waiter -> Data]
              /\ promise \in Seq(Waiter) /\ IsInjective(promise)
              /\ calls \in Seq(Frame) /\ Len(calls) <= MaxCalls
              /\ cause \in [Waiter -> Causes] /\ got \in [Waiter -> Gots]
              /\ excused \subseteq Waiter
  /\ ( /\ place' \in [Waiter -> Place] /\ data' \in [Waiter -> Data]
       /\ promise' \in Seq(Waiter) /\ IsInjective(promise')
       /\ calls' \in Seq(Frame) /\ Len(calls') <= MaxCalls
       /\ cause' \in [Waiter -> Causes] /\ got' \in [Waiter -> Gots]
       /\ excused' \subseteq Waiter ) => Typed'
<1>1. \A c \in Causes : Len(c) <= 1 /\ ToSet(c) \subseteq Signal
  BY CauseShape
<1> QED
  BY <1>1 DEF Typed, TypeOK, Frame, Causes, Gots, IsInjective

\* What a waiter is told is an outcome, and not that its promise was dropped.
LEMMA ToldOutcome ==
  ASSUME NEW w \in Waiter, NEW s \in Signal
  PROVE  Told(w, s, TRUE) \in Outcome \ {Dropped(w)} /\ Dropped(w) \in Outcome
  BY DEF Told, FutureOutcome, Outcome, Signal, Dropped

(* Frames *)

\* A call on the stack is one, of waiters.
LEMMA EachIsRunning ==
  ASSUME IInv, NEW i \in 1 .. Len(calls)
  PROVE  calls[i] \in Frame /\ Running(calls[i]) /\ ToSet(calls[i].all) \subseteq Waiter
<1>1. calls[i] \in Frame /\ Running(calls[i])
  BY ElementOfSeq, TypeParts DEF IInv, EachRunning
<1> QED
  BY <1>1, Elements DEF Frame

\* Only the innermost call is one of promise_ where it is.
LEMMA InPlaceIsTop ==
  ASSUME IInv
  PROVE  /\ InPlace <=> calls # <<>> /\ Top.inPlace
         /\ DOMAIN calls = 1 .. Len(calls) /\ Len(calls) \in Nat
         /\ calls # <<>> => 1 \in 1 .. Len(calls)
<1>1. DOMAIN calls = 1 .. Len(calls) /\ Len(calls) \in Nat
  BY LenProperties, TypeParts DEF IInv
<1>2. calls # <<>> => 1 \in 1 .. Len(calls)
  BY <1>1, EmptySeq, TypeParts DEF IInv
<1>3. calls = <<>> => 1 .. Len(calls) = {}
  BY <1>1, EmptySeq
<1> QED
  BY <1>1, <1>2, <1>3 DEF InPlace, Top, IInv, Disjoint

\* Calls do not notice what happens to promises that are not in them.
LEMMA Undisturbed ==
  ASSUME IInv, UNCHANGED calls, NEW ws \in SUBSET Waiter,
         \A i \in 1 .. Len(calls) : ToSet(calls[i].all) \cap ws = {},
         \A v \in Waiter \ ws :
           place'[v] = place[v] /\ data'[v] = data[v] /\ cause'[v] = cause[v]
  PROVE  EachRunning'
<1> SUFFICES ASSUME NEW i \in 1 .. Len(calls) PROVE Running(calls[i])'
  BY DEF EachRunning
<1>1. Running(calls[i]) /\ \A v \in ToSet(calls[i].all) : v \in Waiter \ ws
  BY EachIsRunning
<1> QED
  BY <1>1 DEF Running

\* Something happens to a waiter whose promise is in no split.
LEMMA Outside ==
  ASSUME IInv, NEW w \in Waiter, place[w] # "split",
         \A v \in Waiter : v # w =>
           place'[v] = place[v] /\ data'[v] = data[v] /\ cause'[v] = cause[v],
         UNCHANGED <<calls, promise>>, excused \subseteq excused'
  PROVE  EachRunning' /\ Disjoint' /\ Joined'
<1>1. EachRunning'
  <2>1. \A i \in 1 .. Len(calls) : ToSet(calls[i].all) \cap {w} = {}
    BY EachIsRunning DEF Running
  <2> QED
    BY <2>1, Undisturbed
<1>2. Disjoint'
  BY DEF IInv, Disjoint
<1>3. Joined'
  <2>1. \A v \in ToSet(promise) : v \in Waiter /\ v # w
    BY Elements, TypeParts DEF IInv, Joined
  <2> QED
    BY <2>1 DEF IInv, Joined, InPlace, Top
<1> QED
  BY <1>1, <1>2, <1>3

\* A waiter that is started may give its promise away, and nobody is told anything.
LEMMA BeginPreserves ==
  ASSUME IInv, NEW w \in Waiter, NEW p \in Foreign \cup {"program"}, Begin(w, p)
  PROVE  IInv'
<1>1. /\ place[w] = "unstarted" /\ place' = [place EXCEPT ![w] = p]
      /\ UNCHANGED <<data, promise, calls, got, cause, excused>>
  BY DEF Begin
<1>2. Typed'
  BY <1>1, TypeParts DEF IInv, Place
<1>3. ToldTrue'
  BY <1>1 DEF IInv, ToldTrue
<1>4. Apart'
  BY <1>1, TypeParts DEF IInv, Apart, Foreign, Mapper
<1>5. EachRunning' /\ Disjoint' /\ Joined'
  BY <1>1, TypeParts, Outside DEF IInv
<1> QED
  BY <1>2, <1>3, <1>4, <1>5 DEF IInv

\* A promise outside of all splits is resolved, and kept or destroyed.
LEMMA ResolvedOutside ==
  ASSUME IInv, NEW w \in Waiter, place[w] \in Foreign \cup {"program"}, Valid(w),
         NEW s \in Signal, Resolve(w, s), cause' = [cause EXCEPT ![w] = <<s>>],
         NEW p \in {"program", "destroyed"}, place' = [place EXCEPT ![w] = p],
         UNCHANGED <<promise, calls, excused>>
  PROVE  IInv'
<1> DEFINE o == Told(w, s, TRUE)
<1>1. /\ data' = [data EXCEPT ![w] = "null"]
      /\ got' = [got EXCEPT ![w] = Append(@, o)]
  BY DEF Resolve, Tell
<1>2. data[w] = "callback" /\ got[w] = <<>>
  BY TypeParts DEF IInv, Apart, Valid, ToldTrue, Data, Foreign, Mapper
<1>3. o \in Outcome
  BY ToldOutcome
<1>4. got' = [got EXCEPT ![w] = <<o>>] /\ got[w] = <<>>
  BY <1>1, <1>2, TypeParts DEF IInv
<1>5. place[w] # "split" /\ p \in Place
  BY DEF IInv, Place, Foreign, Mapper
<1> HIDE DEF o
<1>6. Typed'
  <2>1. <<s>> \in Causes /\ <<o>> \in Gots
    BY <1>3 DEF Causes, Gots
  <2> QED
    BY <1>1, <1>4, <1>5, <2>1, TypeParts DEF IInv, Data
<1>7. ToldTrue'
  <2> SUFFICES ASSUME NEW v \in Waiter
               PROVE  /\ data'[v] = "callback" <=> got'[v] = <<>>
                      /\ data'[v] # "callback" =>
                           \/ got'[v] = <<Dropped(v)>> /\ v \in excused
                           \/ \E t \in Signal : /\ cause'[v] = <<t>>
                                                /\ got'[v] = <<Told(v, t, TRUE)>>
    BY DEF ToldTrue
  <2>1. CASE v = w
    <3>1. data'[w] = "null" /\ got'[w] = <<o>> /\ cause'[w] = <<s>> /\ <<o>> # <<>>
      BY <1>1, <1>4, TypeParts DEF IInv
    <3> QED
      BY <2>1, <3>1 DEF o
  <2>2. CASE v # w
    <3>1. data'[v] = data[v] /\ got'[v] = got[v] /\ cause'[v] = cause[v]
      BY <1>1, <1>4, <2>2, TypeParts DEF IInv
    <3> QED
      BY <3>1 DEF IInv, ToldTrue
  <2> QED
    BY <2>1, <2>2
<1>8. Apart'
  <2> SUFFICES ASSUME NEW v \in Waiter
               PROVE  /\ place'[v] \in Foreign \cup {"unstarted"} =>
                           data'[v] = "callback" /\ cause'[v] = <<>>
                      /\ place'[v] = "program" => /\ data'[v] # "calling"
                                                  /\ data'[v] = "callback" => cause'[v] = <<>>
                      /\ place'[v] = "destroyed" => data'[v] = "null"
    BY DEF Apart
  <2>1. CASE v = w
    BY <1>1, <2>1, TypeParts DEF IInv, Foreign, Mapper
  <2>2. CASE v # w
    BY <1>1, <2>2, TypeParts DEF IInv, Apart
  <2> QED
    BY <2>1, <2>2
<1>9. EachRunning' /\ Disjoint' /\ Joined'
  BY <1>1, <1>5, TypeParts, Outside DEF IInv
<1> QED
  BY <1>6, <1>7, <1>8, <1>9 DEF IInv

\* Promises are destroyed that nobody is calling; who still waits is excused.
LEMMA Dropping ==
  ASSUME IInv, NEW ws \in SUBSET Waiter, DropAll(ws), UNCHANGED cause,
         \A w \in ws : data[w] # "calling",
         \A w \in ws : data[w] = "callback" => w \in excused',
         excused \subseteq excused', excused' \subseteq Waiter,
         promise' \in Seq(Waiter), IsInjective(promise'),
         calls' \in Seq(Frame), Len(calls') <= MaxCalls
  PROVE  /\ Typed' /\ ToldTrue' /\ Apart'
         /\ \A w \in Waiter \ ws : place'[w] = place[w] /\ data'[w] = data[w]
         /\ \A w \in ws : place'[w] = "destroyed" /\ data'[w] = "null"
<1>1. /\ place' = [w \in Waiter |-> IF w \in ws THEN "destroyed" ELSE place[w]]
      /\ data' = [w \in Waiter |-> IF w \in ws THEN "null" ELSE data[w]]
      /\ got' = [w \in Waiter |-> IF w \in ws /\ Valid(w) THEN Append(got[w], Dropped(w))
                                                         ELSE got[w]]
  BY DEF DropAll
<1>2. \A w \in ws : Valid(w) => data[w] = "callback" /\ got[w] = <<>>
  BY TypeParts DEF IInv, Valid, Data, ToldTrue
<1>3. \A w \in Waiter :
        got'[w] = IF w \in ws /\ data[w] = "callback" THEN <<Dropped(w)>> ELSE got[w]
  <2> SUFFICES ASSUME NEW w \in Waiter
               PROVE  got'[w] = IF w \in ws /\ data[w] = "callback" THEN <<Dropped(w)>>
                                                                  ELSE got[w]
    OBVIOUS
  <2>1. CASE w \in ws /\ data[w] = "callback"
    <3>1. got[w] = <<>> /\ got'[w] = Append(got[w], Dropped(w))
      BY <1>1, <1>2, <2>1 DEF Valid
    <3> QED
      BY <2>1, <3>1
  <2>2. CASE ~(w \in ws /\ data[w] = "callback")
    BY <1>1, <1>2, <2>2
  <2> QED
    BY <2>1, <2>2
<1>4. Typed'
  <2>1. got' \in [Waiter -> Gots]
    <3>1. \A w \in Waiter : got'[w] \in Gots
      <4>1. \A w \in Waiter : <<Dropped(w)>> \in Gots
        BY ToldOutcome DEF Gots, Signal
      <4> QED
        BY <1>3, <4>1, TypeParts DEF IInv
    <3> QED
      BY <1>1, <3>1
  <2> QED
    BY <1>1, <2>1, TypeParts DEF IInv, Data, Place
<1>5. ToldTrue'
  <2> SUFFICES ASSUME NEW w \in Waiter
               PROVE  /\ data'[w] = "callback" <=> got'[w] = <<>>
                      /\ data'[w] # "callback" =>
                           \/ got'[w] = <<Dropped(w)>> /\ w \in excused'
                           \/ \E s \in Signal : /\ cause[w] = <<s>>
                                                /\ got'[w] = <<Told(w, s, TRUE)>>
    BY DEF ToldTrue
  <2>1. CASE w \in ws /\ data[w] = "callback"
    <3>1. data'[w] = "null" /\ got'[w] = <<Dropped(w)>> /\ <<Dropped(w)>> # <<>>
      BY <1>1, <1>3, <2>1
    <3> QED
      BY <2>1, <3>1
  <2>2. CASE ~(w \in ws /\ data[w] = "callback")
    <3>1. got'[w] = got[w] /\ (data'[w] = "callback" <=> data[w] = "callback")
      BY <1>1, <1>3, <2>2
    <3> QED
      BY <3>1 DEF IInv, ToldTrue
  <2> QED
    BY <2>1, <2>2
<1>6. Apart'
  <2> SUFFICES ASSUME NEW w \in Waiter
               PROVE  /\ place'[w] \in Foreign \cup {"unstarted"} =>
                           data'[w] = "callback" /\ cause[w] = <<>>
                      /\ place'[w] = "program" => /\ data'[w] # "calling"
                                                  /\ data'[w] = "callback" => cause[w] = <<>>
                      /\ place'[w] = "destroyed" => data'[w] = "null"
    BY DEF Apart
  <2>1. CASE w \in ws
    BY <1>1, <2>1 DEF Foreign, Mapper
  <2>2. CASE w \notin ws
    BY <1>1, <2>2 DEF IInv, Apart
  <2> QED
    BY <2>1, <2>2
<1> QED
  BY <1>1, <1>4, <1>5, <1>6

\* A promise that the program drops was in no split and in no call.
LEMMA AbandonPreserves ==
  ASSUME IInv, NEW w \in Waiter, Abandon(w)
  PROVE  IInv'
<1>1. /\ place[w] \in Foreign \cup {"program"} /\ DropAll({w})
      /\ excused' = excused \cup {w} /\ UNCHANGED <<promise, calls, cause>>
  BY DEF Abandon
<1>2. data[w] # "calling" /\ place[w] # "split"
  BY <1>1 DEF IInv, Apart, Foreign, Mapper
<1>3. /\ Typed' /\ ToldTrue' /\ Apart'
      /\ \A v \in Waiter \ {w} : place'[v] = place[v] /\ data'[v] = data[v]
  BY <1>1, <1>2, TypeParts, Dropping DEF IInv
<1>4. EachRunning' /\ Disjoint' /\ Joined'
  BY <1>1, <1>2, <1>3, Outside
<1> QED
  BY <1>3, <1>4 DEF IInv
-------------------------------------------------------------------------------
(* Splits *)

\* A promise that joins was in no call; within a call of promise_ it is excused.
LEMMA JoinPreserves ==
  ASSUME IInv, NEW w \in Waiter, Join(w)
  PROVE  IInv'
<1>1. /\ place[w] = "program" /\ place' = [place EXCEPT ![w] = "split"]
      /\ promise' = <<w>> \o promise
      /\ excused' = IF InPlace THEN excused \cup {w} ELSE excused
      /\ UNCHANGED <<data, calls, got, cause>>
  BY DEF Join
<1>2. w \notin ToSet(promise)
  BY <1>1 DEF IInv, Joined
<1>3. /\ promise' \in Seq(Waiter) /\ IsInjective(promise')
      /\ ToSet(promise') = {w} \cup ToSet(promise)
  BY <1>1, <1>2, TypeParts, Pushed, PushedElements DEF IInv
<1>4. Typed'
  BY <1>1, <1>3, TypeParts DEF IInv, Place
<1>5. ToldTrue'
  BY <1>1 DEF IInv, ToldTrue
<1>6. Apart'
  BY <1>1, TypeParts DEF IInv, Apart, Foreign, Mapper
<1>7. \A i \in 1 .. Len(calls) : ToSet(calls[i].all) \cap {w} = {}
  BY <1>1, EachIsRunning DEF Running
<1>8. EachRunning'
  BY <1>1, <1>7, TypeParts, Undisturbed DEF IInv
<1>9. Disjoint'
  BY <1>1, <1>3, <1>7 DEF IInv, Disjoint
<1>10. Joined'
  <2> SUFFICES ASSUME NEW v \in ToSet(promise')
               PROVE  /\ place'[v] = "split"
                      /\ \/ /\ data[v] # "calling"
                            /\ data[v] = "callback" => /\ cause[v] = <<>>
                                                       /\ InPlace => v \in excused'
                         \/ InPlace /\ v \in ToSet(Top.all)
    BY <1>1 DEF Joined, InPlace, Top
  <2>1. CASE v = w
    BY <1>1, <2>1, TypeParts DEF IInv, Apart
  <2>2. CASE v # w
    <3>1. v \in ToSet(promise) /\ v \in Waiter
      BY <1>3, <2>2, Elements, TypeParts DEF IInv
    <3> QED
      BY <1>1, <2>2, <3>1, TypeParts DEF IInv, Joined
  <2> QED
    BY <2>1, <2>2
<1> QED
  BY <1>4, <1>5, <1>6, <1>8, <1>9, <1>10 DEF IInv

\* With promise_ those die who are in it, unless a call is in it.
LEMMA DestroyOwnerPreserves ==
  ASSUME IInv, DestroyOwner
  PROVE  IInv'
<1> DEFINE ws == ToSet(promise)
<1>1. /\ ~InPlace /\ DropAll(ws) /\ excused' = excused \cup ws /\ promise' = <<>>
      /\ UNCHANGED <<calls, cause>>
  BY DEF DestroyOwner
<1>2. ws \subseteq Waiter /\ \A w \in ws : data[w] # "calling"
  BY <1>1, Elements, TypeParts DEF IInv, Joined
<1>3. promise' \in Seq(Waiter) /\ IsInjective(promise') /\ ToSet(promise') = {}
  BY <1>1 DEF IsInjective, ToSet
<1> HIDE DEF ws
<1>4. /\ Typed' /\ ToldTrue' /\ Apart'
      /\ \A w \in Waiter \ ws : place'[w] = place[w] /\ data'[w] = data[w]
  BY <1>1, <1>2, <1>3, TypeParts, Dropping DEF IInv
<1>5. \A i \in 1 .. Len(calls) : ~calls[i].inPlace /\ ToSet(calls[i].all) \cap ws = {}
  BY <1>1, InPlaceIsTop DEF IInv, Disjoint, InPlace, ws
<1>6. EachRunning'
  BY <1>1, <1>2, <1>4, <1>5, Undisturbed
<1>7. Disjoint' /\ Joined'
  BY <1>1, <1>3, <1>5 DEF IInv, Disjoint, Joined
<1> QED
  BY <1>4, <1>6, <1>7 DEF IInv

\* A call starts: everybody in promise_ is to be visited, and nobody was before.
LEMMA CallPreserves ==
  ASSUME IInv, NEW s \in Signal, NEW b \in BOOLEAN, Call(s, b)
  PROVE  IInv'
<1> DEFINE f == [todo |-> promise, all |-> promise, signal |-> s, whole |-> TRUE,
                 serving |-> {}, inPlace |-> b]
           ws == ToSet(promise)
<1>1. /\ ~InPlace /\ Len(calls) < MaxCalls
      /\ calls' = <<f>> \o calls
      /\ promise' = IF b THEN promise ELSE <<>>
      /\ cause' = [w \in Waiter |-> IF w \in ws /\ cause[w] = <<>> THEN <<s>> ELSE cause[w]]
      /\ UNCHANGED <<place, data, got, excused>>
  BY DEF Call
<1>2. /\ f \in Frame /\ f.todo = promise /\ f.all = promise /\ f.signal = s
      /\ f.whole /\ f.serving = {} /\ f.inPlace = b
  BY TypeParts DEF IInv, Frame
<1>3. ws \subseteq Waiter
  BY Elements, TypeParts DEF IInv
<1>4. \A w \in ws : /\ place[w] = "split" /\ data[w] # "calling"
                    /\ data[w] = "callback" => cause[w] = <<>>
  BY <1>1 DEF IInv, Joined
<1>5. \A i \in 1 .. Len(calls) : ~calls[i].inPlace /\ ToSet(calls[i].all) \cap ws = {}
  BY <1>1, InPlaceIsTop DEF IInv, Disjoint, InPlace
<1> HIDE DEF f
<1>6. /\ calls' \in Seq(Frame) /\ Len(calls') = Len(calls) + 1 /\ calls'[1] = f
      /\ \A k \in 2 .. Len(calls) + 1 : calls'[k] = calls[k - 1]
      /\ Len(calls) \in Nat
  BY <1>1, <1>2, Pushed, TypeParts, LenProperties DEF IInv
<1>7. \A i \in 1 .. Len(calls') :
        i = 1 \/ (i - 1 \in 1 .. Len(calls) /\ calls'[i] = calls[i - 1])
  BY <1>6
<1>8. /\ promise' \in Seq(Waiter) /\ IsInjective(promise')
      /\ ToSet(promise') = IF b THEN ws ELSE {}
  <2>1. IsInjective(<<>>) /\ ToSet(<<>>) = {} /\ <<>> \in Seq(Waiter)
    BY DEF IsInjective, ToSet
  <2> QED
    BY <1>1, <2>1, TypeParts DEF IInv
<1>9. Typed'
  <2>1. cause' \in [Waiter -> Causes]
    BY <1>1, TypeParts DEF IInv, Causes
  <2>2. Len(calls') <= MaxCalls
    BY <1>1, <1>6, PromiseAssumption
  <2> QED
    BY <1>1, <1>6, <1>8, <2>1, <2>2, TypeParts DEF IInv
<1>10. ToldTrue'
  <2>1. \A w \in Waiter, t \in Signal : cause[w] = <<t>> => cause'[w] = <<t>>
    <3>1. \A t \in Signal : <<t>> # <<>>
      OBVIOUS
    <3> QED
      BY <1>1, <3>1
  <2> QED
    BY <1>1, <2>1 DEF IInv, ToldTrue
<1>11. Apart'
  <2>1. \A w \in Waiter : place[w] # "split" => cause'[w] = cause[w]
    BY <1>1, <1>4
  <2> QED
    BY <1>1, <2>1 DEF IInv, Apart, Foreign, Mapper
<1>12. EachRunning'
  <2> SUFFICES ASSUME NEW i \in 1 .. Len(calls') PROVE Running(calls[i])'
    BY DEF EachRunning
  <2>1. CASE i = 1
    BY <1>1, <1>2, <1>3, <1>4, <1>6, <2>1 DEF Running
  <2>2. CASE i # 1
    <3>1. PICK j \in 1 .. Len(calls) : calls'[i] = calls[j]
      BY <1>7, <2>2
    <3>2. /\ Running(calls[j])
          /\ \A w \in ToSet(calls[j].all) : w \in Waiter /\ cause'[w] = cause[w]
      BY <1>1, <1>5, EachIsRunning
    <3> QED
      BY <1>1, <3>1, <3>2 DEF Running
  <2> QED
    BY <2>1, <2>2
<1>13. Disjoint'
  <2>1. ASSUME NEW i \in 1 .. Len(calls'), NEW j \in 1 .. Len(calls'), i # j
        PROVE  ToSet(calls'[i].all) \cap ToSet(calls'[j].all) = {}
    <3>1. CASE i = 1 \/ j = 1
      BY <1>2, <1>5, <1>6, <1>7, <2>1, <3>1
    <3>2. CASE i # 1 /\ j # 1
      <4>1. /\ i - 1 \in 1 .. Len(calls) /\ calls'[i] = calls[i - 1]
            /\ j - 1 \in 1 .. Len(calls) /\ calls'[j] = calls[j - 1] /\ i - 1 # j - 1
        BY <1>7, <2>1, <3>2
      <4> QED
        BY <4>1 DEF IInv, Disjoint
    <3> QED
      BY <3>1, <3>2
  <2>2. ASSUME NEW i \in 1 .. Len(calls')
        PROVE  IF calls'[i].inPlace THEN i = 1 /\ ToSet(calls'[i].all) \subseteq ToSet(promise')
                                    ELSE ToSet(calls'[i].all) \cap ToSet(promise') = {}
    <3>1. CASE i = 1
      BY <1>2, <1>6, <1>8, <3>1
    <3>2. CASE i # 1
      <4>1. PICK j \in 1 .. Len(calls) : calls'[i] = calls[j]
        BY <1>7, <3>2
      <4> QED
        BY <1>5, <1>8, <4>1
    <3> QED
      BY <3>1, <3>2
  <2> QED
    BY <2>1, <2>2 DEF Disjoint
<1>14. Joined'
  <2> SUFFICES ASSUME NEW w \in ToSet(promise')
               PROVE  place'[w] = "split" /\ InPlace' /\ w \in ToSet(Top'.all)
    BY DEF Joined
  <2>1. w \in ws /\ b
    BY <1>8
  <2>2. Top' = f /\ 1 \in DOMAIN calls'
    BY <1>6, LenProperties DEF Top
  <2>3. InPlace'
    BY <1>2, <1>6, <2>1, <2>2 DEF InPlace
  <2> QED
    BY <1>1, <1>2, <1>4, <2>1, <2>2, <2>3
<1> QED
  BY <1>9, <1>10, <1>11, <1>12, <1>13, <1>14 DEF IInv

\* The innermost call goes on, and does nothing to promises that are not in it.
LEMMA TopGoesOn ==
  ASSUME IInv, calls # <<>>, NEW g \in Frame, SetTop(g),
         UNCHANGED <<place, promise, cause, excused>>,
         g.all = Top.all, g.inPlace = Top.inPlace, g.signal = Top.signal,
         ToSet(g.todo) \subseteq ToSet(Top.all), g.serving \subseteq ToSet(Top.all),
         ~g.whole => g.todo = <<>>,
         \A v \in ToSet(Top.all) : /\ data'[v] = "callback" =>
                                        data[v] = "callback" /\ v \in ToSet(g.todo)
                                   /\ data'[v] = "calling" <=> v \in g.serving,
         \A v \in Waiter \ ToSet(Top.all) : data'[v] = data[v]
  PROVE  /\ EachRunning' /\ Disjoint' /\ Joined'
         /\ calls' \in Seq(Frame) /\ Len(calls') <= MaxCalls
<1>1. /\ calls' \in Seq(Frame) /\ Len(calls') = Len(calls) /\ Len(calls) \in Nat \ {0}
      /\ calls'[1] = g /\ \A k \in 2 .. Len(calls) : calls'[k] = calls[k]
      /\ Len(calls) <= MaxCalls
  BY Exchanged, TypeParts DEF IInv, SetTop
<1>2. 1 \in 1 .. Len(calls) /\ \A i \in 1 .. Len(calls) : i = 1 \/ i \in 2 .. Len(calls)
  BY <1>1
<1>3. /\ Top = calls[1] /\ Top \in Frame /\ Running(Top) /\ ToSet(Top.all) \subseteq Waiter
  BY <1>2, EachIsRunning DEF Top
<1>4. \A i \in 1 .. Len(calls) : /\ ToSet(calls'[i].all) = ToSet(calls[i].all)
                                 /\ calls'[i].inPlace = calls[i].inPlace
  BY <1>1, <1>2, <1>3
<1>5. EachRunning'
  <2> SUFFICES ASSUME NEW i \in 1 .. Len(calls) PROVE Running(calls[i])'
    BY <1>1 DEF EachRunning
  <2>1. CASE i = 1
    <3>1. /\ calls'[i] = g
          /\ \A v \in ToSet(Top.all) :
               /\ place[v] = "split"
               /\ data[v] = "callback" => cause[v] = <<Top.signal>>
      BY <1>1, <1>3, <2>1 DEF Running
    <3> QED
      BY <3>1 DEF Running
  <2>2. CASE i # 1
    <3>1. /\ calls'[i] = calls[i] /\ Running(calls[i])
          /\ \A v \in ToSet(calls[i].all) : v \in Waiter \ ToSet(Top.all)
      BY <1>1, <1>2, <1>3, <2>2, EachIsRunning DEF IInv, Disjoint
    <3> QED
      BY <3>1 DEF Running
  <2> QED
    BY <2>1, <2>2
<1>6. Disjoint'
  BY <1>1, <1>4 DEF IInv, Disjoint
<1>7. Joined'
  <2>1. DOMAIN calls' = 1 .. Len(calls) /\ DOMAIN calls = 1 .. Len(calls)
    BY <1>1, LenProperties, TypeParts DEF IInv
  <2>2. (InPlace' <=> InPlace) /\ Top' = g
    BY <1>1, <1>4, <2>1 DEF InPlace, Top
  <2> SUFFICES ASSUME NEW v \in ToSet(promise)
               PROVE  /\ place[v] = "split"
                      /\ \/ /\ data'[v] # "calling"
                            /\ data'[v] = "callback" => /\ cause[v] = <<>>
                                                        /\ InPlace => v \in excused
                         \/ InPlace /\ v \in ToSet(Top.all)
    BY <2>2 DEF Joined
  <2>3. CASE v \in ToSet(Top.all)
    <3>1. Top.inPlace
      BY <1>2, <1>3, <2>3 DEF IInv, Disjoint
    <3> QED
      BY <2>3, <3>1, InPlaceIsTop DEF IInv, Joined
  <2>4. CASE v \notin ToSet(Top.all)
    <3>1. data'[v] = data[v]
      BY <2>4, Elements, TypeParts DEF IInv
    <3> QED
      BY <2>4, <3>1 DEF IInv, Joined
  <2> QED
    BY <2>3, <2>4
<1> QED
  BY <1>1, <1>5, <1>6, <1>7

\* The next promise of the call is called or passed by.
LEMMA ServePreserves ==
  ASSUME IInv, Serve
  PROVE  IInv'
<1> DEFINE w == Head(Top.todo)
           rest == Tail(Top.todo)
<1>1. /\ calls # <<>> /\ Top.serving = {} /\ Top.todo # <<>>
      /\ UNCHANGED <<place, promise, cause, excused>>
  BY DEF Serve, Serving
<1>2. Top \in Frame /\ Running(Top) /\ ToSet(Top.all) \subseteq Waiter
  BY <1>1, EachIsRunning, InPlaceIsTop DEF Top
<1>3. /\ Top.todo \in Seq(Waiter) /\ Top.all \in Seq(Waiter) /\ Top.whole = TRUE
      /\ Top.signal \in Signal
  BY <1>1, <1>2 DEF Frame, Running
<1>4. /\ rest \in Seq(Waiter) /\ w \in Waiter /\ ToSet(Top.todo) = {w} \cup ToSet(rest)
      /\ Len(rest) = Len(Top.todo) - 1 /\ Len(Top.todo) \in Nat \ {0}
  BY <1>1, <1>3, Elements, Popped
<1>5. w \in ToSet(Top.all) /\ data[w] # "calling"
  BY <1>1, <1>2, <1>4 DEF Running
<1> HIDE DEF w, rest
<1>6. CASE Valid(w)
  <2> DEFINE b == Len(Top.todo) > 1
             g == [Top EXCEPT !.todo = rest, !.serving = {w}, !.whole = b]
             o == Told(w, Top.signal, TRUE)
  <2>1. /\ got' = [got EXCEPT ![w] = Append(@, Told(w, Top.signal, Top.whole))]
        /\ data' = [data EXCEPT ![w] = "calling"]
        /\ SetTop(g)
    BY <1>6 DEF Serve, CallNext, Tell, w, rest
  <2>2. data[w] = "callback" /\ got[w] = <<>> /\ cause[w] = <<Top.signal>>
    BY <1>2, <1>4, <1>5, <1>6, TypeParts DEF IInv, Valid, Data, ToldTrue, Running
  <2>3. got' = [got EXCEPT ![w] = <<o>>] /\ o \in Outcome
    <3>1. Told(w, Top.signal, Top.whole) = o
      BY <1>3
    <3> HIDE DEF o
    <3>2. Append(got[w], o) = <<o>>
      BY <2>2
    <3> QED
      BY <1>3, <1>4, <2>1, <3>1, <3>2, ToldOutcome, TypeParts DEF IInv, o
  <2>4. b \in BOOLEAN /\ (~b => rest = <<>>)
    <3>1. Len(Top.todo) <= 1 => rest = <<>>
      BY <1>4, EmptySeq
    <3>2. Len(Top.todo) > 1 \/ Len(Top.todo) <= 1
      BY <1>4
    <3> QED
      BY <3>1, <3>2
  <2> HIDE DEF b, o
  <2>5. /\ g \in Frame /\ g.todo = rest /\ g.all = Top.all /\ g.signal = Top.signal
        /\ g.serving = {w} /\ g.inPlace = Top.inPlace /\ g.whole = b
    BY <1>2, <1>4, <2>4 DEF Frame
  <2> HIDE DEF g
  <2>6. \A v \in Waiter : data'[v] = IF v = w THEN "calling" ELSE data[v]
    BY <2>1, TypeParts DEF IInv
  <2>7. /\ EachRunning' /\ Disjoint' /\ Joined'
        /\ calls' \in Seq(Frame) /\ Len(calls') <= MaxCalls
    <3>1. \A v \in ToSet(Top.all) :
            /\ data'[v] = "callback" => data[v] = "callback" /\ v \in ToSet(g.todo)
            /\ data'[v] = "calling" <=> v \in g.serving
      BY <1>1, <1>2, <1>4, <2>5, <2>6 DEF Running
    <3>2. \A v \in Waiter \ ToSet(Top.all) : data'[v] = data[v]
      BY <1>5, <2>6
    <3>3. ToSet(g.todo) \subseteq ToSet(Top.all) /\ g.serving \subseteq ToSet(Top.all)
      BY <1>2, <1>4, <1>5, <2>5 DEF Running
    <3> QED
      BY <1>1, <2>1, <2>4, <2>5, <3>1, <3>2, <3>3, TopGoesOn
  <2>8. Typed'
    <3>1. <<o>> \in Gots
      BY <2>3 DEF Gots
    <3> QED
      BY <1>1, <1>4, <2>1, <2>3, <2>7, <3>1, TypeParts DEF IInv, Data
  <2>9. ToldTrue'
    <3> SUFFICES ASSUME NEW v \in Waiter
                 PROVE  /\ data'[v] = "callback" <=> got'[v] = <<>>
                        /\ data'[v] # "callback" =>
                             \/ got'[v] = <<Dropped(v)>> /\ v \in excused
                             \/ \E t \in Signal : /\ cause[v] = <<t>>
                                                  /\ got'[v] = <<Told(v, t, TRUE)>>
      BY <1>1 DEF ToldTrue
    <3>1. CASE v = w
      <4>1. data'[w] = "calling" /\ got'[w] = <<o>> /\ <<o>> # <<>>
        BY <1>4, <2>3, <2>6, TypeParts DEF IInv
      <4> QED
        BY <1>3, <2>2, <3>1, <4>1 DEF o
    <3>2. CASE v # w
      <4>1. data'[v] = data[v] /\ got'[v] = got[v]
        BY <2>3, <2>6, <3>2, TypeParts DEF IInv
      <4> QED
        BY <4>1 DEF IInv, ToldTrue
    <3> QED
      BY <3>1, <3>2
  <2>10. Apart'
    <3>1. place[w] = "split"
      BY <1>2, <1>5 DEF Running
    <3> QED
      BY <1>1, <2>6, <3>1 DEF IInv, Apart, Foreign, Mapper
  <2> QED
    BY <2>7, <2>8, <2>9, <2>10 DEF IInv
<1>7. CASE ~Valid(w)
  <2> DEFINE g == [Top EXCEPT !.todo = rest]
  <2>1. SetTop(g) /\ UNCHANGED <<got, data>> /\ data[w] = "null"
    BY <1>7 DEF Serve, PassNext, Valid, w, rest
  <2>2. /\ g \in Frame /\ g.todo = rest /\ g.all = Top.all /\ g.signal = Top.signal
        /\ g.serving = {} /\ g.inPlace = Top.inPlace /\ g.whole = TRUE
    BY <1>1, <1>2, <1>3, <1>4 DEF Frame
  <2> HIDE DEF g
  <2>3. \A v \in ToSet(Top.all) :
          /\ data'[v] = "callback" => data[v] = "callback" /\ v \in ToSet(g.todo)
          /\ data'[v] = "calling" <=> v \in g.serving
    BY <1>1, <1>2, <1>4, <2>1, <2>2 DEF Running
  <2>4. ToSet(g.todo) \subseteq ToSet(Top.all) /\ g.serving \subseteq ToSet(Top.all)
    BY <1>2, <1>4, <2>2 DEF Running
  <2>5. /\ EachRunning' /\ Disjoint' /\ Joined'
        /\ calls' \in Seq(Frame) /\ Len(calls') <= MaxCalls
    BY <1>1, <2>1, <2>2, <2>3, <2>4, TopGoesOn
  <2>6. Typed' /\ ToldTrue' /\ Apart'
    BY <1>1, <2>1, <2>5, TypeParts DEF IInv, ToldTrue, Apart, Foreign, Mapper
  <2> QED
    BY <2>5, <2>6 DEF IInv
<1> QED
  BY <1>6, <1>7

\* The callback returns.
LEMMA ReturnPreserves ==
  ASSUME IInv, Return
  PROVE  IInv'
<1> DEFINE ws == Top.serving
           g == [Top EXCEPT !.serving = {}]
<1>1. /\ calls # <<>> /\ SetTop(g)
      /\ data' = [w \in Waiter |-> IF w \in ws THEN "null" ELSE data[w]]
      /\ UNCHANGED <<place, promise, got, cause, excused>>
  BY DEF Return
<1>2. Top \in Frame /\ Running(Top) /\ ToSet(Top.all) \subseteq Waiter
  BY <1>1, EachIsRunning, InPlaceIsTop DEF Top
<1>3. ws \subseteq ToSet(Top.all) /\ \A w \in ws : data[w] = "calling" /\ place[w] = "split"
  BY <1>2 DEF Running
<1>4. /\ g \in Frame /\ g.todo = Top.todo /\ g.all = Top.all /\ g.signal = Top.signal
      /\ g.serving = {} /\ g.inPlace = Top.inPlace /\ g.whole = Top.whole
  BY <1>2 DEF Frame
<1> HIDE DEF g
<1>5. \A v \in ToSet(Top.all) :
        /\ data'[v] = "callback" => data[v] = "callback" /\ v \in ToSet(g.todo)
        /\ data'[v] = "calling" <=> v \in g.serving
  BY <1>1, <1>2, <1>4 DEF Running
<1>6. /\ EachRunning' /\ Disjoint' /\ Joined'
      /\ calls' \in Seq(Frame) /\ Len(calls') <= MaxCalls
  <2>1. ToSet(g.todo) \subseteq ToSet(Top.all) /\ (~g.whole => g.todo = <<>>)
    BY <1>2, <1>4 DEF Running
  <2>2. \A v \in Waiter \ ToSet(Top.all) : data'[v] = data[v]
    BY <1>1, <1>3
  <2> QED
    BY <1>1, <1>4, <1>5, <2>1, <2>2, TopGoesOn
<1>7. Typed'
  BY <1>1, <1>6, TypeParts DEF IInv, Data
<1>8. ToldTrue'
  <2>1. \A w \in Waiter : data'[w] = "callback" <=> data[w] = "callback"
    BY <1>1, <1>3
  <2> QED
    BY <1>1, <2>1 DEF IInv, ToldTrue
<1>9. Apart'
  BY <1>1, <1>3 DEF IInv, Apart, Foreign, Mapper
<1> QED
  BY <1>6, <1>7, <1>8, <1>9 DEF IInv

\* The call returns: nobody is left in it who was not served.
LEMMA EndCallPreserves ==
  ASSUME IInv, EndCall
  PROVE  IInv'
<1> DEFINE ws == IF Top.inPlace THEN ToSet(promise) ELSE ToSet(Top.all)
<1>1. /\ calls # <<>> /\ Top.serving = {} /\ Top.todo = <<>>
      /\ DropAll(ToSet(IF Top.inPlace THEN promise ELSE Top.all))
      /\ promise' = IF Top.inPlace THEN <<>> ELSE promise
      /\ calls' = Tail(calls) /\ UNCHANGED <<cause, excused>>
  BY DEF EndCall
<1>2. DropAll(ws)
  <2>1. ToSet(IF Top.inPlace THEN promise ELSE Top.all) = ws
    OBVIOUS
  <2> QED
    BY <1>1, <2>1
<1>3. /\ Top = calls[1] /\ 1 \in 1 .. Len(calls)
      /\ Top \in Frame /\ Running(Top) /\ ToSet(Top.all) \subseteq Waiter
  BY <1>1, EachIsRunning, InPlaceIsTop DEF Top
<1>4. ws \subseteq Waiter /\ ToSet(<<>>) = {}
  BY <1>3, Elements, TypeParts DEF IInv, ToSet
<1>5. /\ \A w \in ToSet(Top.all) : data[w] \notin {"callback", "calling"}
      /\ Top.inPlace => \A w \in ToSet(promise) :
           data[w] # "calling" /\ (data[w] = "callback" => w \in excused)
  <2>1. \A w \in ToSet(Top.all) : data[w] \notin {"callback", "calling"}
    BY <1>1, <1>3, <1>4 DEF Running
  <2> QED
    BY <1>1, <2>1, InPlaceIsTop DEF IInv, Joined
<1>6. \A w \in ws : data[w] # "calling" /\ (data[w] = "callback" => w \in excused)
  BY <1>5
<1>7. /\ promise' \in Seq(Waiter) /\ IsInjective(promise')
      /\ ToSet(promise') = IF Top.inPlace THEN {} ELSE ToSet(promise)
  <2>1. IsInjective(<<>>) /\ <<>> \in Seq(Waiter)
    BY DEF IsInjective
  <2> QED
    BY <1>1, <1>4, <2>1, TypeParts DEF IInv
<1>8. /\ calls' \in Seq(Frame) /\ Len(calls') = Len(calls) - 1 /\ Len(calls) \in Nat \ {0}
      /\ \A k \in 1 .. Len(calls') : k + 1 \in 1 .. Len(calls) /\ calls'[k] = calls[k + 1]
  BY <1>1, Popped, TypeParts DEF IInv
<1>9. Len(calls') <= MaxCalls
  BY <1>8, TypeParts, PromiseAssumption DEF IInv
<1>10. \A k \in 1 .. Len(calls') : /\ ~calls'[k].inPlace
                                   /\ ToSet(calls'[k].all) \cap ToSet(promise) = {}
                                   /\ ToSet(calls'[k].all) \cap ToSet(Top.all) = {}
  <2> SUFFICES ASSUME NEW k \in 1 .. Len(calls')
               PROVE  /\ ~calls'[k].inPlace
                      /\ ToSet(calls'[k].all) \cap ToSet(promise) = {}
                      /\ ToSet(calls'[k].all) \cap ToSet(Top.all) = {}
    OBVIOUS
  <2>1. k + 1 \in 1 .. Len(calls) /\ k + 1 # 1 /\ calls'[k] = calls[k + 1]
    BY <1>8
  <2> QED
    BY <1>3, <2>1 DEF IInv, Disjoint
<1> HIDE DEF ws
<1>11. /\ Typed' /\ ToldTrue' /\ Apart'
       /\ \A w \in Waiter \ ws : place'[w] = place[w] /\ data'[w] = data[w]
  BY <1>1, <1>2, <1>4, <1>6, <1>7, <1>8, <1>9, TypeParts, Dropping DEF IInv
<1>12. EachRunning'
  <2> SUFFICES ASSUME NEW k \in 1 .. Len(calls') PROVE Running(calls[k])'
    BY DEF EachRunning
  <2>1. k + 1 \in 1 .. Len(calls) /\ calls'[k] = calls[k + 1]
    BY <1>8
  <2>2. /\ Running(calls[k + 1])
        /\ \A w \in ToSet(calls[k + 1].all) : w \in Waiter \ ws
    BY <1>10, <2>1, EachIsRunning DEF ws
  <2> QED
    BY <1>1, <1>11, <2>1, <2>2 DEF Running
<1>13. Disjoint'
  <2>1. ASSUME NEW i \in 1 .. Len(calls'), NEW j \in 1 .. Len(calls'), i # j
        PROVE  ToSet(calls'[i].all) \cap ToSet(calls'[j].all) = {}
    <3>1. /\ i + 1 \in 1 .. Len(calls) /\ calls'[i] = calls[i + 1]
          /\ j + 1 \in 1 .. Len(calls) /\ calls'[j] = calls[j + 1] /\ i + 1 # j + 1
      BY <1>8, <2>1
    <3> QED
      BY <3>1 DEF IInv, Disjoint
  <2> QED
    BY <1>7, <1>10, <2>1 DEF Disjoint
<1>14. Joined'
  <2>1. CASE Top.inPlace
    BY <1>7, <2>1 DEF Joined
  <2>2. CASE ~Top.inPlace
    <3> SUFFICES ASSUME NEW w \in ToSet(promise)
                 PROVE  /\ place'[w] = "split" /\ data'[w] # "calling"
                        /\ data'[w] = "callback" => cause[w] = <<>>
                        /\ ~InPlace'
      BY <1>1, <1>7, <2>2 DEF Joined
    <3>1. w \in Waiter \ ws
      BY <1>3, <2>2, Elements, TypeParts DEF IInv, Disjoint, ws
    <3>2. ~InPlace
      BY <2>2, InPlaceIsTop DEF IInv
    <3>3. ~InPlace'
      BY <1>8, <1>10, LenProperties DEF InPlace
    <3> QED
      BY <1>11, <3>1, <3>2, <3>3 DEF IInv, Joined
  <2> QED
    BY <2>1, <2>2
<1> QED
  BY <1>11, <1>12, <1>13, <1>14 DEF IInv

\* What is made of an error code is what the code means.
LEMMA CodesMean ==
  ASSUME NEW code \in Code, NEW f \in Foreign
  PROVE  /\ (IF f = "promisify" THEN DefaultResolver(code) ELSE PromiseResolver(f, code))
             = Meant(f, code)
         /\ Meant(f, code) \in Signal
<1> USE DEF DefaultResolver, PromiseResolver, IsIgnored, IsCancellation, Meant, Signal
<1>1. CASE code = "none"
  BY <1>1
<1>2. CASE code \in {"aborted", "failed"}
  BY <1>2 DEF Foreign, Mapper
<1>3. CASE code \in {"ignored", "aborted_ignored"} /\ f = "map_ignore"
  <2>1. Meant(f, code) = "value"
    BY <1>3
  <2>2. PromiseResolver(f, code) = "value"
    BY <1>3
  <2> QED
    BY <1>3, <2>1, <2>2
<1>4. CASE code \in {"ignored", "aborted_ignored"} /\ f # "map_ignore"
  BY <1>4 DEF Foreign, Mapper
<1> QED
  BY <1>1, <1>2, <1>3, <1>4 DEF Code

\* The invariant holds initially.
LEMMA InitIInv == Init => IInv
<1> SUFFICES ASSUME Init PROVE IInv
  OBVIOUS
<1>1. /\ place = [w \in Waiter |-> "unstarted"] /\ data = [w \in Waiter |-> "callback"]
      /\ promise = <<>> /\ calls = <<>> /\ excused = {}
      /\ got = [w \in Waiter |-> <<>>] /\ cause = [w \in Waiter |-> <<>>]
  BY DEF Init
<1>2. Len(<<>>) = 0 /\ ToSet(<<>>) = {} /\ IsInjective(<<>>)
  BY DEF ToSet, IsInjective
<1>3. Typed
  BY <1>1, <1>2, PromiseAssumption DEF Typed, TypeOK, Place, Data
<1>4. ToldTrue /\ Apart
  BY <1>1 DEF ToldTrue, Apart
<1>5. EachRunning /\ Disjoint /\ Joined
  BY <1>1, <1>2 DEF EachRunning, Disjoint, Joined
<1> QED
  BY <1>3, <1>4, <1>5 DEF IInv

\* Every step of the program, of foreign operations and of a split preserves it.
LEMMA NextIInv == IInv /\ [Next]_vars => IInv'
<1> SUFFICES ASSUME IInv, [Next]_vars PROVE IInv'
  OBVIOUS
<1>1. ASSUME NEW w \in Waiter, Start(w) PROVE IInv'
  BY <1>1, BeginPreserves DEF Start
<1>2. ASSUME NEW w \in Waiter, Promisify(w) PROVE IInv'
  BY <1>2, BeginPreserves DEF Promisify, Foreign
<1>3. ASSUME NEW w \in Waiter, NEW m \in Mapper, Initiate(w, m) PROVE IInv'
  BY <1>3, BeginPreserves DEF Initiate, Foreign
<1>4. ASSUME NEW w \in Waiter, NEW s \in Signal, ResolveDirectly(w, s) PROVE IInv'
  <2>1. place' = [place EXCEPT ![w] = "program"]
    BY <1>4, TypeParts DEF ResolveDirectly, IInv
  <2> QED
    BY <1>4, <2>1, ResolvedOutside DEF ResolveDirectly
<1>5. ASSUME NEW w \in Waiter, NEW c \in Code, Complete(w, c) PROVE IInv'
  <2> DEFINE s == Meant(place[w], c)
  <2>1. /\ place[w] \in Foreign
        /\ Resolve(w, IF place[w] = "promisify" THEN DefaultResolver(c)
                                                ELSE PromiseResolver(place[w], c))
        /\ cause' = [cause EXCEPT ![w] = <<s>>] /\ place' = [place EXCEPT ![w] = "destroyed"]
        /\ UNCHANGED <<promise, calls, excused>>
    BY <1>5 DEF Complete
  <2>2. Resolve(w, s) /\ s \in Signal
    BY <2>1, CodesMean
  <2>3. Valid(w)
    BY <2>1 DEF IInv, Apart, Valid
  <2> HIDE DEF s
  <2> QED
    BY <2>1, <2>2, <2>3, ResolvedOutside
<1>6. ASSUME NEW w \in Waiter, Abandon(w) PROVE IInv'
  BY <1>6, AbandonPreserves
<1>7. ASSUME NEW w \in Waiter, Join(w) PROVE IInv'
  BY <1>7, JoinPreserves
<1>8. ASSUME NEW s \in Signal, NEW b \in BOOLEAN, Call(s, b) PROVE IInv'
  BY <1>8, CallPreserves
<1>9. CASE Serve
  BY <1>9, ServePreserves
<1>10. CASE Return
  BY <1>10, ReturnPreserves
<1>11. CASE EndCall
  BY <1>11, EndCallPreserves
<1>12. CASE DestroyOwner
  BY <1>12, DestroyOwnerPreserves
<1>13. CASE UNCHANGED vars
  <2>1. UNCHANGED <<place, data, promise, calls, got, cause, excused>>
    BY <1>13 DEF vars
  <2>2. Typed' /\ ToldTrue' /\ Apart'
    BY <2>1, TypeParts DEF IInv, ToldTrue, Apart, Foreign, Mapper
  <2>3. EachRunning' /\ Disjoint' /\ Joined'
    BY <2>1 DEF IInv, EachRunning, Running, Disjoint, Joined, InPlace, Top
  <2> QED
    BY <2>2, <2>3 DEF IInv
<1> QED
  BY <1>1, <1>2, <1>3, <1>4, <1>5, <1>6, <1>7, <1>8, <1>9, <1>10, <1>11, <1>12, <1>13
     DEF Next, Finished

\* It is an invariant of the specification.
LEMMA IInvariant == Spec => []IInv
<1> QED
  BY InitIInv, NextIInv, PTL DEF Spec
-------------------------------------------------------------------------------
\* The state of promises and splits keeps its type; no promise is twice in promise_.
THEOREM TypeCorrect == Spec => []TypeOK
<1>1. IInv => TypeOK
  BY DEF IInv, Typed
<1> QED
  BY <1>1, IInvariant, PTL

\* A waiter is told once, and what it is told is what its promise was resolved with, or
\* that the promise was dropped.
THEOREM ToldWhatWasResolved == Spec => []OutcomeJustified
<1>1. IInv => OutcomeJustified
  <2> SUFFICES ASSUME IInv, NEW w \in Waiter
               PROVE  /\ Len(got[w]) <= 1
                      /\ got[w] # <<>> /\ got[w][1] # Dropped(w) =>
                           \/ got[w] = cause[w]
                           \/ /\ got[w] = <<"undefined">> /\ w \in Future
                              /\ cause[w] = <<"canceled">>
    BY DEF OutcomeJustified
  <2>1. CASE got[w] = <<>>
    <3>1. Len(got[w]) = 0
      BY <2>1
    <3> QED
      BY <2>1, <3>1
  <2>2. CASE got[w] = <<Dropped(w)>>
    <3>1. Len(got[w]) = 1 /\ got[w][1] = Dropped(w)
      BY <2>2
    <3> QED
      BY <3>1
  <2>3. ASSUME NEW s \in Signal, cause[w] = <<s>>, got[w] = <<Told(w, s, TRUE)>>
        PROVE  /\ Len(got[w]) <= 1
               /\ \/ got[w] = cause[w]
                  \/ got[w] = <<"undefined">> /\ w \in Future /\ cause[w] = <<"canceled">>
    <3>1. Len(got[w]) = 1
      BY <2>3
    <3> QED
      BY <2>3, <3>1 DEF Told, FutureOutcome
  <2> QED
    BY <2>1, <2>2, <2>3 DEF IInv, ToldTrue
<1> QED
  BY <1>1, IInvariant, PTL

\* Nobody's promise is dropped whom somebody promised anything.
THEOREM NobodyIsForgotten == Spec => []NobodyForgotten
<1>1. IInv => NobodyForgotten
  <2> SUFFICES ASSUME IInv, NEW w \in Waiter, got[w] # <<>>, got[w][1] = Dropped(w)
               PROVE  w \in excused
    BY DEF NobodyForgotten
  <2>1. \A s \in Signal : got[w] # <<Told(w, s, TRUE)>>
    <3> SUFFICES ASSUME NEW s \in Signal, got[w] = <<Told(w, s, TRUE)>> PROVE FALSE
      OBVIOUS
    <3>1. <<Told(w, s, TRUE)>>[1] = Told(w, s, TRUE)
      OBVIOUS
    <3>2. Told(w, s, TRUE) = Dropped(w)
      BY <3>1
    <3> QED
      BY <3>2, ToldOutcome
  <2> QED
    BY <2>1 DEF IInv, ToldTrue
<1> QED
  BY <1>1, IInvariant, PTL
-------------------------------------------------------------------------------
(* What a step tells a waiter *)

\* The end of a promise is told to who has not been told anything yet.
LEMMA ToldOfTheEnd ==
  ASSUME IInv, NEW ws, DropAll(ws), \A w \in ws \cap Waiter : data[w] # "calling",
         NEW w \in Waiter
  PROVE  \/ got'[w] = got[w] /\ (place[w] = "destroyed" => place'[w] = "destroyed")
         \/ got[w] = <<>> /\ place'[w] = "destroyed"
<1>1. /\ place'[w] = IF w \in ws THEN "destroyed" ELSE place[w]
      /\ w \notin ws \/ ~Valid(w) => got'[w] = got[w]
  BY DEF DropAll
<1>2. w \in ws /\ Valid(w) => got[w] = <<>>
  BY TypeParts DEF IInv, Valid, Data, ToldTrue
<1> QED
  BY <1>1, <1>2

\* Whoever is told something has not been told anything before; it is the end of its
\* promise, or what somebody resolved it with.
LEMMA Telling ==
  ASSUME IInv, Next, NEW w \in Waiter
  PROVE  \/ got'[w] = got[w] /\ (place[w] = "destroyed" => place'[w] = "destroyed")
         \/ got[w] = <<>> /\ place'[w] = "destroyed"
         \/ got[w] = <<>> /\ \E s \in Signal : got'[w] = <<Told(w, s, TRUE)>>
<1>0. /\ place \in [Waiter -> Place] /\ data \in [Waiter -> Data] /\ got \in [Waiter -> Gots]
      /\ promise \in Seq(Waiter) /\ ToSet(promise) \subseteq Waiter
  BY TypeParts, Elements DEF IInv
<1>1. ASSUME NEW v \in Waiter, NEW p, Begin(v, p)
      PROVE  got'[w] = got[w] /\ (place[w] = "destroyed" => place'[w] = "destroyed")
  BY <1>0, <1>1 DEF Begin
<1>2. ASSUME NEW v \in Waiter, NEW s \in Signal, ResolveDirectly(v, s)
      PROVE  \/ got'[w] = got[w] /\ place'[w] = place[w]
             \/ got[w] = <<>> /\ got'[w] = <<Told(w, s, TRUE)>>
  <2>1. /\ got' = [got EXCEPT ![v] = Append(@, Told(v, s, TRUE))] /\ place' = place
        /\ place[v] = "program" /\ Valid(v)
    BY <1>2 DEF ResolveDirectly, Resolve, Tell
  <2>2. got[v] = <<>>
    BY <1>0, <2>1 DEF IInv, Apart, ToldTrue, Valid, Data
  <2>3. CASE w = v
    <3> DEFINE o == Told(v, s, TRUE)
    <3>1. got'[w] = Append(<<>>, o)
      BY <1>0, <2>1, <2>2, <2>3
    <3> HIDE DEF o
    <3>2. got'[w] = <<o>>
      BY <3>1
    <3> QED
      BY <2>2, <2>3, <3>2 DEF o
  <2>4. CASE w # v
    BY <1>0, <2>1, <2>4
  <2> QED
    BY <2>3, <2>4
<1>3. ASSUME NEW v \in Waiter, NEW c \in Code, Complete(v, c)
      PROVE  \/ got'[w] = got[w] /\ place'[w] = place[w]
             \/ got[w] = <<>> /\ place'[w] = "destroyed"
  <2>1. /\ \E o : got' = [got EXCEPT ![v] = o]
        /\ place' = [place EXCEPT ![v] = "destroyed"] /\ place[v] \in Foreign
    BY <1>3 DEF Complete, Resolve, Tell
  <2>2. got[v] = <<>>
    BY <2>1 DEF IInv, Apart, ToldTrue
  <2> QED
    BY <1>0, <2>1, <2>2
<1>4. ASSUME NEW v \in Waiter, Abandon(v)
      PROVE  \/ got'[w] = got[w] /\ (place[w] = "destroyed" => place'[w] = "destroyed")
             \/ got[w] = <<>> /\ place'[w] = "destroyed"
  <2>1. DropAll({v}) /\ data[v] # "calling"
    BY <1>4 DEF Abandon, IInv, Apart
  <2> QED
    BY <2>1, ToldOfTheEnd
<1>5. ASSUME NEW v \in Waiter, Join(v)
      PROVE  got'[w] = got[w] /\ (place[w] = "destroyed" => place'[w] = "destroyed")
  BY <1>0, <1>5 DEF Join
<1>6. CASE Serve
  <2> DEFINE v == Head(Top.todo)
  <2>1. /\ calls # <<>> /\ Top.serving = {} /\ Top.todo # <<>> /\ place' = place
    BY <1>6 DEF Serve, Serving
  <2>2. Top \in Frame /\ Running(Top) /\ ToSet(Top.all) \subseteq Waiter
    BY <2>1, EachIsRunning, InPlaceIsTop DEF Top
  <2>3. Top.todo \in Seq(Waiter) /\ Top.whole = TRUE /\ Top.signal \in Signal
    BY <2>1, <2>2 DEF Frame, Running
  <2>4. v \in Waiter /\ v \in ToSet(Top.all)
    BY <2>1, <2>2, <2>3, Elements DEF Running
  <2> HIDE DEF v
  <2>5. CASE ~Valid(v)
    BY <1>6, <2>1, <2>5 DEF Serve, PassNext, v
  <2>6. CASE Valid(v)
    <3>1. got' = [got EXCEPT ![v] = Append(@, Told(v, Top.signal, TRUE))]
      BY <1>6, <2>3, <2>6 DEF Serve, CallNext, Tell, v
    <3>2. got[v] = <<>>
      BY <1>0, <2>1, <2>2, <2>4, <2>6 DEF IInv, Valid, Data, ToldTrue, Running
    <3>3. CASE w = v
      <4> DEFINE o == Told(v, Top.signal, TRUE)
      <4>1. got'[w] = Append(<<>>, o)
        BY <1>0, <3>1, <3>2, <3>3
      <4> HIDE DEF o
      <4>2. got'[w] = <<o>>
        BY <4>1
      <4> QED
        BY <2>3, <3>2, <3>3, <4>2 DEF o
    <3>4. CASE w # v
      BY <1>0, <2>1, <3>1, <3>4
    <3> QED
      BY <3>3, <3>4
  <2> QED
    BY <2>5, <2>6
<1>7. CASE EndCall
  <2> DEFINE ws == ToSet(IF Top.inPlace THEN promise ELSE Top.all)
  <2>1. calls # <<>> /\ Top.serving = {} /\ DropAll(ws)
    BY <1>7 DEF EndCall
  <2>2. Running(Top)
    BY <2>1, EachIsRunning, InPlaceIsTop DEF Top
  <2>3. \A v \in ToSet(Top.all) : data[v] # "calling"
    BY <2>1, <2>2 DEF Running
  <2>4. Top.inPlace => \A v \in ToSet(promise) : data[v] # "calling"
    BY <2>1, <2>3, InPlaceIsTop DEF IInv, Joined
  <2>5. \A v \in ws : data[v] # "calling"
    BY <2>3, <2>4
  <2> HIDE DEF ws
  <2> QED
    BY <2>1, <2>5, ToldOfTheEnd
<1>8. CASE DestroyOwner
  <2>1. DropAll(ToSet(promise)) /\ ~InPlace
    BY <1>8 DEF DestroyOwner
  <2>2. \A v \in ToSet(promise) : data[v] # "calling"
    BY <2>1 DEF IInv, Joined
  <2> QED
    BY <2>1, <2>2, ToldOfTheEnd
<1>9. CASE Return \/ Finished \/ \E s \in Signal, b \in BOOLEAN : Call(s, b)
  BY <1>9 DEF Return, Finished, vars, Call
<1> QED
  BY <1>1, <1>2, <1>3, <1>4, <1>5, <1>6, <1>7, <1>8, <1>9
     DEF Next, Start, Promisify, Initiate

\* Who was told of the end of its promise is in no split any more.
DroppedIsGone == \A w \in Waiter : got[w] = <<Dropped(w)>> => place[w] = "destroyed"

\* That is invariant.
LEMMA DroppedInvariant == Spec => [](IInv /\ DroppedIsGone)
<1>1. Init => DroppedIsGone
  <2>1. \A w \in Waiter : <<>> # <<Dropped(w)>>
    OBVIOUS
  <2> QED
    BY <2>1 DEF Init, DroppedIsGone
<1>2. IInv /\ DroppedIsGone /\ [Next]_vars => DroppedIsGone'
  <2> SUFFICES ASSUME IInv, DroppedIsGone, Next,
                      NEW w \in Waiter, got'[w] = <<Dropped(w)>>
               PROVE  place'[w] = "destroyed"
    BY DEF DroppedIsGone, vars
  <2>1. \A s \in Signal : <<Told(w, s, TRUE)>> # <<Dropped(w)>>
    <3> SUFFICES ASSUME NEW s \in Signal, <<Told(w, s, TRUE)>> = <<Dropped(w)>> PROVE FALSE
      OBVIOUS
    <3>1. <<Told(w, s, TRUE)>>[1] = Told(w, s, TRUE) /\ <<Dropped(w)>>[1] = Dropped(w)
      OBVIOUS
    <3>2. Told(w, s, TRUE) = Dropped(w)
      BY <3>1
    <3> QED
      BY <3>2, ToldOutcome
  <2> QED
    BY <2>1, Telling DEF DroppedIsGone
<1> QED
  BY <1>1, <1>2, InitIInv, NextIInv, PTL DEF Spec

Heard(w) == got[w] # <<>> /\ got[w][1] # Dropped(w)

\* Whoever is in a call is still to be visited by it and waits, or has heard of something
\* else than the end of its promise; when the call returns everybody in it has.
InGoodHands ==
  \A i \in 1 .. Len(calls) : \A w \in ToSet(calls[i].all) :
    Heard(w) \/ (got[w] = <<>> /\ w \in ToSet(calls[i].todo))

HeardInTheEnd == [][EndCall => \A w \in ToSet(Top.all) : Heard(w)]_vars

\* What a waiter was told is not taken back, nor followed by anything else.
ToldForGood == [][\A w \in Waiter : got[w] # <<>> => got'[w] = got[w]]_vars

\* A split serves everybody who waits in it, through callbacks that wait, resolve and
\* destroy: all that Served says, but that the calls return.
THEOREM EverybodyIsServed == Spec => []InGoodHands /\ HeardInTheEnd
<1>1. IInv /\ DroppedIsGone => InGoodHands
  <2> SUFFICES ASSUME IInv, DroppedIsGone,
                      NEW i \in 1 .. Len(calls), NEW w \in ToSet(calls[i].all)
               PROVE  Heard(w) \/ (got[w] = <<>> /\ w \in ToSet(calls[i].todo))
    BY DEF InGoodHands
  <2>1. /\ w \in Waiter /\ place[w] = "split"
        /\ data[w] = "callback" => w \in ToSet(calls[i].todo)
    BY EachIsRunning DEF Running
  <2>2. ASSUME NEW s \in Signal, got[w] = <<Told(w, s, TRUE)>>
        PROVE  Heard(w)
    <3>1. <<Told(w, s, TRUE)>>[1] = Told(w, s, TRUE) /\ <<Told(w, s, TRUE)>> # <<>>
      OBVIOUS
    <3> QED
      BY <2>1, <2>2, <3>1, ToldOutcome DEF Heard
  <2> QED
    BY <2>1, <2>2 DEF IInv, ToldTrue, DroppedIsGone
<1>2. IInv /\ InGoodHands /\ EndCall => \A w \in ToSet(Top.all) : Heard(w)
  <2> SUFFICES ASSUME IInv, InGoodHands, EndCall PROVE \A w \in ToSet(Top.all) : Heard(w)
    OBVIOUS
  <2>1. calls # <<>> /\ Top.todo = <<>> /\ 1 \in 1 .. Len(calls) /\ Top = calls[1]
    BY InPlaceIsTop DEF EndCall, Top
  <2>2. ToSet(<<>>) = {}
    BY DEF ToSet
  <2> QED
    BY <2>1, <2>2 DEF InGoodHands
<1> QED
  BY <1>1, <1>2, DroppedInvariant, PTL DEF HeardInTheEnd

\* A promise is used once, through whatever it is resolved.
THEOREM ToldOnce == Spec => ToldForGood
<1>1. IInv /\ [Next]_vars => [\A w \in Waiter : got[w] # <<>> => got'[w] = got[w]]_vars
  BY Telling
<1> QED
  BY <1>1, IInvariant, PTL DEF Spec, ToldForGood
=============================================================================
