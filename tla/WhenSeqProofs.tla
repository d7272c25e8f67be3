----------------------------- MODULE WhenSeqProofs -----------------------------
(***************************************************************************)
(* The safety of the asynchronous traversal and of when_seq on it, for     *)
(* every pack, whoever resumes the traversal and wherever.                 *)
(***************************************************************************)
EXTENDS WhenSeq, SequenceTheorems, FunctionTheorems, WellFoundedInduction, TLAPS

\* The traversal is where an activation walks, or where a callable will resume it.
Carries(a) == \/ pc[a] = "walking" /\ ~detached[a]
              \/ a \in Leaf /\ callable[a] = "held"

\* A hierarchy is a path from the pack to a place that has n elements before it.
Placed(h, n) ==
  /\ h # <<>>
  /\ h[Len(h)].in = Top
  /\ \A k \in 1 .. Len(h) : h[k].at \in 1 .. Len(Sub[h[k].in]) + 1
  /\ \A k \in 2 .. Len(h) :
       h[k].at <= Len(Sub[h[k].in]) /\ Sub[h[k].in][h[k].at] = h[k - 1].in
  /\ n = Before[h[1].in][h[1].at]

OneCarrier == \A a, b \in Activation : Carries(a) /\ Carries(b) => a = b

CarrierPlaced ==
  \A a \in Activation : Carries(a) => Placed(hierarchy[a], Len(visited))

\* The elements visited so far are the first ones written.
Walked == /\ Len(visited) <= Len(Written)
          /\ \A i \in 1 .. Len(visited) : visited[i] = Written[i]

\* An activation in the visitor is detached; a callable that was not called has none.
Detachment ==
  /\ \A a \in Activation : pc[a] = "visitor" => detached[a]
  /\ \A e \in Leaf : pc[e] = "idle" <=> callable[e] # "called"
  /\ \A e \in Leaf : e \notin ToSet(visited) => callable[e] = "none"

Ended == /\ completed \in {0, 1}
         /\ completed = 1 => /\ Len(visited) = Len(Written)
                             /\ \A a \in Activation : ~Carries(a)

\* What a child settled with and what is in its box, by what became of its callable.
ChildrenTrue ==
  \A c \in Child :
    /\ c \notin ToSet(visited) => settled[c] = "pending" /\ box[c] = "empty"
    /\ c \in ToSet(visited) /\ callable[c] = "none" =>
         /\ settled[c] \in ReadyKinds
         /\ box[c] = IF settled[c] = "value" THEN "value" ELSE "garbage"
    /\ callable[c] = "held" => settled[c] = "pending" /\ box[c] = "empty"
    /\ callable[c] = "called" => settled[c] = "value" /\ box[c] = "value"
    /\ callable[c] = "dropped" => settled[c] \in Failure \cup {"dropped"} /\ box[c] = "empty"

\* The traversal waits for, or ended at, the child it visited last.
Latest == \A c \in Child : callable[c] \in {"held", "dropped"} => c = Last(visited)

Over == /\ \A c \in Child : callable[c] = "dropped" => completed = 0
        /\ \A c \in Child, a \in Activation : callable[c] = "dropped" => ~Carries(a)

\* The callback gets all values behind the end, or the failure that ended the traversal.
Delivered ==
  /\ calls \in {0, 1}
  /\ calls = 0 <=> verdict = NoVerdict
  /\ calls = completed \/ completed = 0
  /\ \A c \in aborting : callable[c] = "dropped" /\ settled[c] \in Failure /\ calls = 0
  /\ calls = 1 =>
       \/ completed = 1 /\ verdict = [kind |-> "values", of |-> Child]
       \/ \E c \in Child : /\ callable[c] = "dropped" /\ settled[c] \in Failure
                           /\ verdict = [kind |-> settled[c], of |-> {c}]

TraversalInv == TraversalTypeOK /\ OneCarrier /\ CarrierPlaced /\ Walked /\ Detachment /\ Ended

IInv == TypeOK /\ TraversalInv /\ ChildrenTrue /\ Latest /\ Over /\ Delivered
-------------------------------------------------------------------------------
(* Hierarchies *)

\* A place in front of others.
LEMMA Pushed ==
  ASSUME NEW S, NEW x \in S, NEW h \in Seq(S)
  PROVE  /\ <<x>> \o h \in Seq(S)
         /\ Len(<<x>> \o h) = Len(h) + 1
         /\ (<<x>> \o h)[1] = x
         /\ \A k \in 2 .. Len(h) + 1 : (<<x>> \o h)[k] = h[k - 1]
<1>1. <<x>> \in Seq(S) /\ Len(<<x>>) = 1 /\ <<x>>[1] = x
  OBVIOUS
<1> QED
  BY <1>1, ConcatProperties

\* What is at the innermost place of a hierarchy.
Within(h) == h[1].in
Here(h)   == h[1].at
ThereIs(h) == Here(h) <= Len(Sub[Within(h)])
Upcoming(h)  == Sub[Within(h)][Here(h)]

\* That place is in a node, or behind its last element.
LEMMA InnermostPlace ==
  ASSUME NEW n, NEW h \in Seq(Position), Placed(h, n)
  PROVE  /\ Len(h) \in Nat \ {0} /\ Head(h) = h[1]
         /\ h[1] = [in |-> Within(h), at |-> Here(h)]
         /\ Within(h) \in Node /\ Here(h) \in 1 .. Len(Sub[Within(h)]) + 1
         /\ Len(Sub[Within(h)]) \in Nat
         /\ n = Before[Within(h)][Here(h)] /\ n \in 0 .. Len(Written)
<1>1. Len(h) \in Nat \ {0} /\ h[1] \in Position /\ Head(h) = h[1]
  BY EmptySeq, LenProperties DEF Placed
<1>2. h[1].in \in Node /\ h[1].at \in 1 .. Len(Sub[h[1].in]) + 1
  BY <1>1 DEF Placed, Position
<1>3. Len(Sub[h[1].in]) \in Nat
  BY <1>2, TraversalAssumption
<1>4. n = Before[h[1].in][h[1].at] /\ n \in 0 .. Len(Written)
  BY <1>2, WrittenAssumption DEF Placed
<1>5. h[1] = [in |-> h[1].in, at |-> h[1].at]
  BY <1>1 DEF Position
<1> QED
  BY <1>1, <1>2, <1>3, <1>4, <1>5 DEF Within, Here

\* How many elements are written before the place behind an element.
LEMMA PlaceBehind ==
  ASSUME NEW m \in Node, NEW i \in 1 .. Len(Sub[m])
  PROVE  LET e == Sub[m][i]
         IN  /\ e \in Leaf => /\ Written[Before[m][i] + 1] = e
                              /\ Before[m][i + 1] = Before[m][i] + 1
             /\ e \in Node => /\ Before[e][1] = Before[m][i]
                              /\ Before[m][i + 1] = Before[e][Len(Sub[e]) + 1]
             /\ e \notin Leaf \cup Node => Before[m][i + 1] = Before[m][i]
  BY WrittenAssumption

\* One element further, in the same range.
LEMMA OnwardPlaced ==
  ASSUME NEW n, NEW h \in Seq(Position), Placed(h, n), ThereIs(h)
  PROVE  /\ Onward(h) \in Seq(Position)
         /\ Placed(Onward(h), Before[Within(h)][Here(h) + 1])
<1> DEFINE x == [in |-> Within(h), at |-> Here(h) + 1]
           t == Tail(h)
           o == <<x>> \o t
<1>0. /\ Len(h) \in Nat \ {0} /\ Head(h) = h[1]
      /\ h[1] = [in |-> Within(h), at |-> Here(h)]
      /\ Within(h) \in Node /\ Here(h) \in 1 .. Len(Sub[Within(h)])
      /\ Len(Sub[Within(h)]) \in Nat
  BY InnermostPlace DEF ThereIs
<1>1. x \in Position
  BY <1>0 DEF Position
<1>2. t \in Seq(Position) /\ Len(t) = Len(h) - 1 /\ \A k \in 1 .. Len(t) : t[k] = h[k + 1]
  BY <1>0, HeadTailProperties DEF Placed
<1>3. Onward(h) = o
  BY <1>0 DEF Onward
<1> HIDE DEF t, x
<1>4. /\ o \in Seq(Position) /\ Len(o) = Len(h) /\ o[1] = x
      /\ \A k \in 2 .. Len(h) : o[k] = h[k]
  <2>1. Len(o) = Len(t) + 1 /\ \A k \in 2 .. Len(t) + 1 : o[k] = t[k - 1]
    BY <1>1, <1>2, Pushed
  <2> QED
    BY <1>0, <1>1, <1>2, <2>1, Pushed
<1> HIDE DEF o
<1>5. x.in = h[1].in /\ x.at = h[1].at + 1
  BY <1>0 DEF x
<1>6. o # <<>>
  BY <1>0, <1>4
<1>7. o[Len(o)].in = Top
  BY <1>0, <1>4, <1>5 DEF Placed
<1>8. \A k \in 1 .. Len(o) : o[k].at \in 1 .. Len(Sub[o[k].in]) + 1
  <2>1. x.at \in 1 .. Len(Sub[x.in]) + 1
    BY <1>0 DEF x
  <2>2. \A k \in 2 .. Len(h) : h[k].at \in 1 .. Len(Sub[h[k].in]) + 1
    BY DEF Placed
  <2> QED
    BY <1>0, <1>4, <2>1, <2>2
<1>9. \A k \in 2 .. Len(o) :
        o[k].at <= Len(Sub[o[k].in]) /\ Sub[o[k].in][o[k].at] = o[k - 1].in
  <2>1. \A k \in 2 .. Len(h) :
          h[k].at <= Len(Sub[h[k].in]) /\ Sub[h[k].in][h[k].at] = h[k - 1].in
    BY DEF Placed
  <2>2. \A k \in 2 .. Len(o) : o[k] = h[k] /\ o[k - 1].in = h[k - 1].in
    BY <1>0, <1>4, <1>5
  <2> QED
    BY <1>4, <2>1, <2>2
<1>10. Before[Within(h)][Here(h) + 1] = Before[o[1].in][o[1].at]
  BY <1>4 DEF x
<1> QED
  BY <1>3, <1>4, <1>6, <1>7, <1>8, <1>9, <1>10 DEF Placed

\* Past what the visitor does not accept.
LEMMA IgnoredPlaced ==
  ASSUME NEW n, NEW h \in Seq(Position), Placed(h, n), ThereIs(h),
         Upcoming(h) \notin Node \cup Leaf
  PROVE  Onward(h) \in Seq(Position) /\ Placed(Onward(h), n)
<1>1. /\ Within(h) \in Node /\ Here(h) \in 1 .. Len(Sub[Within(h)]) + 1
      /\ Len(Sub[Within(h)]) \in Nat /\ n = Before[Within(h)][Here(h)]
  BY InnermostPlace
<1>2. Here(h) \in 1 .. Len(Sub[Within(h)])
  BY <1>1 DEF ThereIs
<1>3. Before[Within(h)][Here(h) + 1] = n
  BY <1>1, <1>2, PlaceBehind DEF Upcoming
<1> QED
  BY <1>3, OnwardPlaced

\* Into a node.
LEMMA ForkPlaced ==
  ASSUME NEW n, NEW h \in Seq(Position), Placed(h, n), ThereIs(h), Upcoming(h) \in Node
  PROVE  /\ <<[in |-> Upcoming(h), at |-> 1]>> \o h \in Seq(Position)
         /\ Placed(<<[in |-> Upcoming(h), at |-> 1]>> \o h, n)
<1> DEFINE x == [in |-> Upcoming(h), at |-> 1]
           o == <<x>> \o h
<1>0. /\ Len(h) \in Nat \ {0} /\ Within(h) \in Node
      /\ Here(h) \in 1 .. Len(Sub[Within(h)]) + 1
      /\ n = Before[Within(h)][Here(h)] /\ Len(Sub[Within(h)]) \in Nat
  BY InnermostPlace
<1>a. Here(h) \in 1 .. Len(Sub[Within(h)])
  BY <1>0 DEF ThereIs
<1>1. x \in Position /\ Len(Sub[x.in]) \in Nat
  BY TraversalAssumption DEF Position
<1>2. n = Before[x.in][x.at]
  BY <1>0, <1>a, PlaceBehind DEF Upcoming
<1>3. x.at = 1 /\ x.in = Sub[h[1].in][h[1].at] /\ h[1].at <= Len(Sub[h[1].in])
  BY <1>0, <1>a DEF Upcoming, Within, Here
<1> HIDE DEF x
<1>4. /\ o \in Seq(Position) /\ Len(o) = Len(h) + 1 /\ o[1] = x
      /\ \A k \in 2 .. Len(h) + 1 : o[k] = h[k - 1]
  BY <1>1, Pushed
<1> HIDE DEF o
<1>5. o # <<>>
  BY <1>0, <1>4
<1>6. o[Len(o)].in = Top
  BY <1>0, <1>4 DEF Placed
<1>7. \A k \in 1 .. Len(o) : o[k].at \in 1 .. Len(Sub[o[k].in]) + 1
  <2> SUFFICES ASSUME NEW k \in 1 .. Len(o)
               PROVE  o[k].at \in 1 .. Len(Sub[o[k].in]) + 1
    OBVIOUS
  <2>1. CASE k = 1
    BY <1>1, <1>3, <1>4, <2>1
  <2>2. CASE k # 1
    <3>1. k - 1 \in 1 .. Len(h) /\ o[k] = h[k - 1]
      BY <1>0, <1>4, <2>2
    <3> QED
      BY <3>1 DEF Placed
  <2> QED
    BY <2>1, <2>2
<1>8. \A k \in 2 .. Len(o) :
        o[k].at <= Len(Sub[o[k].in]) /\ Sub[o[k].in][o[k].at] = o[k - 1].in
  <2> SUFFICES ASSUME NEW k \in 2 .. Len(o)
               PROVE  o[k].at <= Len(Sub[o[k].in]) /\ Sub[o[k].in][o[k].at] = o[k - 1].in
    OBVIOUS
  <2>1. CASE k = 2
    <3>1. o[k] = h[1] /\ o[k - 1] = x
      BY <1>0, <1>4, <2>1
    <3> QED
      BY <1>3, <3>1
  <2>2. CASE k # 2
    <3>1. k - 1 \in 2 .. Len(h) /\ o[k] = h[k - 1] /\ o[k - 1] = h[(k - 1) - 1]
      BY <1>0, <1>4, <2>2
    <3> QED
      BY <3>1 DEF Placed
  <2> QED
    BY <2>1, <2>2
<1> QED
  BY <1>2, <1>4, <1>5, <1>6, <1>7, <1>8 DEF Placed, o, x

\* Out of a node, and on with its parent: nothing is written between.
LEMMA AscendPlaced ==
  ASSUME NEW n, NEW h \in Seq(Position), Placed(h, n), ~ThereIs(h), Len(h) > 1
  PROVE  Onward(Tail(h)) \in Seq(Position) /\ Placed(Onward(Tail(h)), n)
<1> DEFINE t == Tail(h)
           b == Before[h[2].in][h[2].at]
<1>0. /\ Len(h) \in Nat \ {0} /\ Within(h) \in Node
      /\ Here(h) \in 1 .. Len(Sub[Within(h)]) + 1 /\ Len(Sub[Within(h)]) \in Nat
      /\ n = Before[Within(h)][Here(h)]
  BY InnermostPlace
<1>a. Here(h) = Len(Sub[Within(h)]) + 1 /\ Len(h) \in Nat /\ Len(h) > 1
  <2>1. ~(Here(h) <= Len(Sub[Within(h)]))
    BY DEF ThereIs
  <2> QED
    BY <1>0, <2>1
<1>1. t \in Seq(Position) /\ Len(t) = Len(h) - 1 /\ \A k \in 1 .. Len(t) : t[k] = h[k + 1]
  BY <1>0, HeadTailProperties DEF Placed
<1> HIDE DEF t
<1>2. t[1] = h[2] /\ t[Len(t)] = h[Len(h)]
  BY <1>a, <1>1
<1>3. Placed(t, b)
  <2>1. t # <<>> /\ t[Len(t)].in = Top
    BY <1>a, <1>1, <1>2 DEF Placed
  <2>2. ASSUME NEW k \in 1 .. Len(t)
        PROVE  t[k].at \in 1 .. Len(Sub[t[k].in]) + 1
    <3>1. k + 1 \in 1 .. Len(h) /\ t[k] = h[k + 1]
      BY <1>a, <1>1
    <3> QED
      BY <3>1 DEF Placed
  <2>3. ASSUME NEW k \in 2 .. Len(t)
        PROVE  t[k].at <= Len(Sub[t[k].in]) /\ Sub[t[k].in][t[k].at] = t[k - 1].in
    <3>1. k + 1 \in 2 .. Len(h) /\ t[k] = h[k + 1] /\ t[k - 1] = h[(k + 1) - 1]
      BY <1>a, <1>1
    <3> QED
      BY <3>1 DEF Placed
  <2> QED
    BY <1>2, <2>1, <2>2, <2>3 DEF Placed
<1>4. /\ Within(t) \in Node /\ Here(t) \in 1 .. Len(Sub[Within(t)]) + 1
      /\ Len(Sub[Within(t)]) \in Nat /\ b = Before[Within(t)][Here(t)]
  BY <1>1, <1>3, InnermostPlace
<1>5. ThereIs(t) /\ Upcoming(t) = Within(h)
  <2>1. h[2].at <= Len(Sub[h[2].in]) /\ Sub[h[2].in][h[2].at] = h[2 - 1].in
    BY <1>a DEF Placed
  <2> QED
    BY <1>2, <2>1 DEF ThereIs, Within, Here, Upcoming
<1>6. Before[Within(t)][Here(t) + 1] = n
  <2>1. Here(t) \in 1 .. Len(Sub[Within(t)])
    BY <1>4, <1>5 DEF ThereIs
  <2>2. Before[Within(t)][Here(t) + 1] = Before[Within(h)][Len(Sub[Within(h)]) + 1]
    BY <1>0, <1>4, <1>5, <2>1, PlaceBehind DEF Upcoming
  <2> QED
    BY <1>0, <1>a, <2>2
<1>7. Onward(t) \in Seq(Position) /\ Placed(Onward(t), Before[Within(t)][Here(t) + 1])
  BY <1>1, <1>3, <1>5, OnwardPlaced
<1> QED
  BY <1>6, <1>7 DEF t
-------------------------------------------------------------------------------
(* The traversal *)

\* The activation that walks is the only one, and it is where the visitor stopped.
LEMMA TheWalker ==
  ASSUME TraversalInv, NEW a \in Activation, Walks(a)
  PROVE  /\ Carries(a) /\ \A b \in Activation : b # a => ~Carries(b)
         /\ hierarchy[a] \in Seq(Position) /\ Placed(hierarchy[a], Len(visited))
         /\ completed = 0
         /\ AtEnd(a) <=> ~ThereIs(hierarchy[a])
         /\ Element(a) = Upcoming(hierarchy[a])
<1>1. Carries(a)
  BY DEF Carries, Walks
<1>2. \A b \in Activation : b # a => ~Carries(b)
  BY <1>1 DEF TraversalInv, OneCarrier
<1>3. hierarchy[a] \in Seq(Position) /\ Placed(hierarchy[a], Len(visited))
  BY <1>1 DEF TraversalInv, TraversalTypeOK, CarrierPlaced
<1>4. completed = 0
  BY <1>1 DEF TraversalInv, Ended
<1>5. /\ Head(hierarchy[a]) = hierarchy[a][1]
      /\ Here(hierarchy[a]) \in 1 .. Len(Sub[Within(hierarchy[a])]) + 1
      /\ Len(Sub[Within(hierarchy[a])]) \in Nat
  BY <1>3, InnermostPlace
<1>6. /\ AtEnd(a) <=> ~ThereIs(hierarchy[a])
      /\ Element(a) = Upcoming(hierarchy[a])
  <2>1. Innermost(a).at = Here(hierarchy[a]) /\ Innermost(a).in = Within(hierarchy[a])
    BY <1>5 DEF Innermost, Here, Within
  <2> QED
    BY <1>5, <2>1 DEF AtEnd, Element, ThereIs, Upcoming
<1> QED
  BY <1>1, <1>2, <1>3, <1>4, <1>6

\* The element it comes to is the next one written, and nobody came to it before.
LEMMA Fresh ==
  ASSUME TraversalInv, NEW a \in Activation, Walks(a), ~AtEnd(a), Element(a) \in Leaf
  PROVE  /\ Len(visited) + 1 \in 1 .. Len(Written)
         /\ Element(a) = Written[Len(visited) + 1]
         /\ Element(a) \notin ToSet(visited)
         /\ callable[Element(a)] = "none" /\ pc[Element(a)] = "idle" /\ Element(a) # a
         /\ Onward(hierarchy[a]) \in Seq(Position)
         /\ Placed(Onward(hierarchy[a]), Len(visited) + 1)
<1> DEFINE h == hierarchy[a]
           m == Within(h)
           i == Here(h)
<1>1. /\ h \in Seq(Position) /\ Placed(h, Len(visited))
      /\ ThereIs(h) /\ Element(a) = Sub[m][i]
  BY TheWalker DEF Upcoming
<1>2. /\ m \in Node /\ i \in 1 .. Len(Sub[m]) + 1 /\ Len(Sub[m]) \in Nat
      /\ Len(visited) = Before[m][i]
  BY <1>1, InnermostPlace
<1>3. i \in 1 .. Len(Sub[m]) /\ Len(visited) \in Nat
  BY <1>1, <1>2, LenProperties DEF ThereIs, TraversalInv, TraversalTypeOK
<1>4. Onward(h) \in Seq(Position) /\ Placed(Onward(h), Before[m][i + 1])
  BY <1>1, OnwardPlaced
<1> HIDE DEF h, m, i
<1>5. Element(a) = Written[Len(visited) + 1] /\ Before[m][i + 1] = Len(visited) + 1
  <2>1. /\ Written[Before[m][i] + 1] = Sub[m][i]
        /\ Before[m][i + 1] = Before[m][i] + 1
    BY <1>1, <1>2, <1>3, PlaceBehind
  <2> QED
    BY <1>1, <1>2, <2>1
<1>6. Len(Written) \in Nat /\ Len(visited) + 1 \in 1 .. Len(Written)
  <2>1. Len(Written) \in Nat
    BY WrittenAssumption, LenProperties
  <2>2. i + 1 \in 1 .. Len(Sub[m]) + 1
    BY <1>2, <1>3
  <2>3. Before[m][i + 1] \in 0 .. Len(Written)
    BY <1>2, <2>2, WrittenAssumption
  <2> QED
    BY <1>3, <1>5, <2>1, <2>3
<1>7. Element(a) \notin ToSet(visited)
  <2> SUFFICES ASSUME NEW k \in 1 .. Len(visited), visited[k] = Element(a)
               PROVE  FALSE
    BY SeqDef DEF ToSet, TraversalInv, TraversalTypeOK
  <2>1. Written[k] = Written[Len(visited) + 1]
    BY <1>5 DEF TraversalInv, Walked
  <2>2. k \in DOMAIN Written /\ Len(visited) + 1 \in DOMAIN Written
    BY <1>3, <1>6, WrittenAssumption, LenProperties
  <2> QED
    BY <1>3, <2>1, <2>2, WrittenAssumption DEF IsInjective
<1>8. callable[Element(a)] = "none" /\ pc[Element(a)] = "idle"
  BY <1>7 DEF TraversalInv, Detachment
<1> QED
  BY <1>4, <1>5, <1>6, <1>7, <1>8 DEF h, Walks

\* A visit adds the element that is next.
LEMMA Visited ==
  ASSUME TraversalInv, NEW a \in Activation, Walks(a), ~AtEnd(a), Element(a) \in Leaf,
         visited' = Append(visited, Element(a))
  PROVE  /\ visited' \in Seq(Leaf) /\ Len(visited') = Len(visited) + 1 /\ Walked'
         /\ ToSet(visited') = ToSet(visited) \cup {Element(a)}
         /\ visited'[Len(visited')] = Element(a) /\ Last(visited') = Element(a)
<1>1. /\ visited \in Seq(Leaf) /\ Len(visited) \in Nat
      /\ DOMAIN visited = 1 .. Len(visited)
  BY LenProperties DEF TraversalInv, TraversalTypeOK
<1>2. /\ visited' \in Seq(Leaf) /\ Len(visited') = Len(visited) + 1
      /\ DOMAIN visited' = 1 .. Len(visited) + 1
      /\ \A i \in 1 .. Len(visited) : visited'[i] = visited[i]
      /\ visited'[Len(visited) + 1] = Element(a)
  BY <1>1, AppendProperties, LenProperties
<1>3. ToSet(visited') = ToSet(visited) \cup {Element(a)}
  BY <1>1, <1>2 DEF ToSet
<1>4. Walked'
  <2>1. /\ Len(visited) + 1 \in 1 .. Len(Written)
        /\ Element(a) = Written[Len(visited) + 1]
    BY Fresh
  <2> QED
    BY <1>1, <1>2, <2>1 DEF Walked, TraversalInv
<1> QED
  BY <1>2, <1>3, <1>4 DEF Last

\* What a step does to the invariant that moves the walker and nothing else.
LEMMA Moved ==
  ASSUME TraversalInv, NEW a \in Activation, Walks(a),
         NEW h \in Seq(Position), MoveOn(a, h), UNCHANGED completed,
         Placed(h, Len(visited')), visited' \in Seq(Leaf), Walked',
         ToSet(visited) \subseteq ToSet(visited')
  PROVE  TraversalInv' /\ \A b \in Activation : Carries(b)' => Carries(b)
<1>1. TraversalTypeOK'
  BY DEF TraversalInv, TraversalTypeOK, MoveOn
<1>2. \A b \in Activation : Carries(b)' <=> Carries(b)
  BY DEF Carries, MoveOn
<1>3. OneCarrier'
  BY <1>2 DEF TraversalInv, OneCarrier
<1>4. CarrierPlaced'
  <2>1. hierarchy'[a] = h
    BY DEF TraversalInv, TraversalTypeOK, MoveOn
  <2>2. \A b \in Activation : Carries(b)' => b = a
    BY <1>2, TheWalker
  <2> QED
    BY <2>1, <2>2 DEF CarrierPlaced
<1>5. Detachment'
  BY DEF TraversalInv, Detachment, MoveOn
<1>6. Ended'
  BY TheWalker DEF Ended
<1> QED
  BY <1>1, <1>2, <1>3, <1>4, <1>5, <1>6 DEF TraversalInv

\* The same for a step that moves nobody and lets nobody else in.
LEMMA Stayed ==
  ASSUME TraversalInv, UNCHANGED <<hierarchy, visited>>, TraversalTypeOK', Detachment',
         \A b \in Activation : Carries(b)' => Carries(b), Ended'
  PROVE  TraversalInv'
<1>1. OneCarrier'
  BY DEF TraversalInv, OneCarrier
<1>2. CarrierPlaced'
  BY DEF TraversalInv, CarrierPlaced
<1>3. Walked'
  BY DEF TraversalInv, Walked
<1> QED
  BY <1>1, <1>2, <1>3 DEF TraversalInv

\* A step of the walk that visits nobody takes the same carrier on to a place with as many
\* elements before it.
LEMMA WalkPreserves ==
  ASSUME TraversalInv, NEW a \in Activation, Walk(a)
  PROVE  TraversalInv' /\ \A b \in Activation : Carries(b)' => Carries(b)
<1>1. CASE Fork(a) \/ Ignore(a) \/ Ascend(a)
  <2>1. Walks(a) /\ UNCHANGED <<visited, completed>>
    BY <1>1 DEF Fork, Ignore, Ascend
  <2>2. /\ hierarchy[a] \in Seq(Position) /\ Placed(hierarchy[a], Len(visited))
        /\ AtEnd(a) <=> ~ThereIs(hierarchy[a])
        /\ Element(a) = Upcoming(hierarchy[a])
    BY <2>1, TheWalker
  <2>3. PICK h \in Seq(Position) : Placed(h, Len(visited)) /\ MoveOn(a, h)
    <3>1. CASE Fork(a)
      BY <2>2, <3>1, ForkPlaced DEF Fork
    <3>2. CASE Ignore(a)
      BY <2>2, <3>2, IgnoredPlaced DEF Ignore
    <3>3. CASE Ascend(a)
      BY <2>2, <3>3, AscendPlaced DEF Ascend
    <3> QED
      BY <1>1, <3>1, <3>2, <3>3
  <2>4. visited' \in Seq(Leaf) /\ Walked'
    BY <2>1 DEF TraversalInv, TraversalTypeOK, Walked
  <2> QED
    BY <2>1, <2>3, <2>4, Moved
<1>2. CASE Unwind(a)
  <2>1. TraversalTypeOK'
    BY <1>2 DEF Unwind, TraversalInv, TraversalTypeOK
  <2>2. \A b \in Activation : Carries(b)' => Carries(b)
    BY <1>2 DEF Unwind, TraversalInv, TraversalTypeOK, Carries
  <2>3. Detachment'
    BY <1>2 DEF Unwind, TraversalInv, TraversalTypeOK, Detachment, Activation
  <2>4. Ended'
    BY <1>2, <2>2 DEF Unwind, TraversalInv, Ended
  <2> QED
    BY <1>2, <2>1, <2>2, <2>3, <2>4, Stayed DEF Unwind
<1> QED
  BY <1>1, <1>2 DEF Walk

\* An activation that leaves the visitor is detached, and carries nothing.
LEMMA LeaveVisitorPreserves ==
  ASSUME TraversalInv, NEW a \in Activation, LeaveVisitor(a)
  PROVE  TraversalInv' /\ \A b \in Activation : Carries(b)' => Carries(b)
<1>1. TraversalTypeOK'
  BY DEF LeaveVisitor, TraversalInv, TraversalTypeOK
<1>2. \A b \in Activation : Carries(b)' => Carries(b)
  BY DEF LeaveVisitor, TraversalInv, TraversalTypeOK, Detachment, Carries
<1>3. Detachment'
  BY DEF LeaveVisitor, TraversalInv, TraversalTypeOK, Detachment, Activation
<1>4. Ended'
  BY <1>2 DEF LeaveVisitor, TraversalInv, Ended
<1> QED
  BY <1>1, <1>2, <1>3, <1>4, Stayed DEF LeaveVisitor

\* The element at hand is the next one written.
LEMMA VisitPreserves ==
  ASSUME TraversalInv, NEW a \in Activation, Visit(a)
  PROVE  TraversalInv' /\ \A b \in Activation : Carries(b)' => Carries(b)
<1>1. /\ Walks(a) /\ ~AtEnd(a) /\ Element(a) \in Leaf /\ UNCHANGED completed
      /\ visited' = Append(visited, Element(a)) /\ MoveOn(a, Onward(hierarchy[a]))
  BY DEF Visit
<1>2. Onward(hierarchy[a]) \in Seq(Position) /\ Placed(Onward(hierarchy[a]), Len(visited) + 1)
  BY <1>1, Fresh
<1>3. /\ visited' \in Seq(Leaf) /\ Len(visited') = Len(visited) + 1 /\ Walked'
      /\ ToSet(visited) \subseteq ToSet(visited')
  BY <1>1, Visited
<1> QED
  BY <1>1, <1>2, <1>3, Moved

\* Behind the element the walk goes on in a new activation; the old one is detached.
LEMMA DetachPreserves ==
  ASSUME TraversalInv, NEW a \in Activation, Detach(a)
  PROVE  TraversalInv'
<1> DEFINE e == Element(a)
           h == Onward(hierarchy[a])
<1>1. /\ Walks(a) /\ ~AtEnd(a) /\ e \in Leaf /\ visited' = Append(visited, e)
      /\ detached' = [detached EXCEPT ![a] = TRUE]
      /\ callable' = [callable EXCEPT ![e] = "held"]
      /\ hierarchy' = [hierarchy EXCEPT ![e] = h]
      /\ pc' = [pc EXCEPT ![a] = "visitor"]
      /\ UNCHANGED <<under, completed>>
  BY DEF Detach
<1>2. /\ callable[e] = "none" /\ pc[e] = "idle" /\ e # a
      /\ h \in Seq(Position) /\ Placed(h, Len(visited) + 1)
  BY <1>1, Fresh
<1>3. /\ visited' \in Seq(Leaf) /\ Len(visited') = Len(visited) + 1 /\ Walked'
      /\ ToSet(visited') = ToSet(visited) \cup {e}
  BY <1>1, Visited
<1>4. completed = 0 /\ \A b \in Activation : b # a => ~Carries(b)
  BY <1>1, TheWalker
<1> HIDE DEF e, h
<1>5. TraversalTypeOK'
  BY <1>1, <1>2, <1>3 DEF TraversalInv, TraversalTypeOK, Activation
<1>6. \A b \in Activation : Carries(b)' => b = e
  <2>1. ~Carries(a)'
    BY <1>1, <1>2 DEF Carries, Walks, TraversalInv, TraversalTypeOK, Detachment
  <2>2. \A b \in Activation : b # a /\ b # e => ~Carries(b)'
    BY <1>1, <1>4 DEF Carries, TraversalInv, TraversalTypeOK, Activation
  <2> QED
    BY <2>1, <2>2
<1>7. CarrierPlaced'
  <2>1. hierarchy'[e] = h
    BY <1>1 DEF TraversalInv, TraversalTypeOK, Activation
  <2> QED
    BY <1>2, <1>3, <1>6, <2>1 DEF CarrierPlaced
<1>8. OneCarrier'
  BY <1>6 DEF OneCarrier
<1>9. Detachment'
  BY <1>1, <1>2, <1>3 DEF TraversalInv, TraversalTypeOK, Detachment, Activation, Walks
<1>10. Ended'
  BY <1>1, <1>4 DEF Ended
<1> QED
  BY <1>3, <1>5, <1>7, <1>8, <1>9, <1>10 DEF TraversalInv

\* The end of the pack is reached behind the last element.
LEMMA CompletePreserves ==
  ASSUME TraversalInv, NEW a \in Activation, Complete(a)
  PROVE  /\ TraversalInv' /\ completed = 0 /\ completed' = 1
         /\ \A b \in Activation : ~Carries(b)'
         /\ Len(visited) = Len(Written)
<1>1. /\ Walks(a) /\ AtEnd(a) /\ Len(hierarchy[a]) = 1
      /\ completed' = completed + 1 /\ pc' = [pc EXCEPT ![a] = "done"]
      /\ UNCHANGED <<hierarchy, detached, under, callable, visited>>
  BY DEF Complete
<1>2. /\ \A b \in Activation : b # a => ~Carries(b)
      /\ hierarchy[a] \in Seq(Position) /\ Placed(hierarchy[a], Len(visited))
      /\ completed = 0 /\ ~ThereIs(hierarchy[a])
  BY <1>1, TheWalker
<1>3. Len(visited) = Len(Written)
  <2>1. Within(hierarchy[a]) = Top
    BY <1>1, <1>2 DEF Placed, Within
  <2>2. /\ Here(hierarchy[a]) \in 1 .. Len(Sub[Top]) + 1 /\ Len(Sub[Top]) \in Nat
        /\ Len(visited) = Before[Top][Here(hierarchy[a])]
    BY <1>2, <2>1, InnermostPlace
  <2>3. ~(Here(hierarchy[a]) <= Len(Sub[Top]))
    BY <1>2, <2>1 DEF ThereIs
  <2>4. Here(hierarchy[a]) = Len(Sub[Top]) + 1
    BY <2>2, <2>3
  <2> QED
    BY <2>2, <2>4, WrittenAssumption
<1>4. TraversalTypeOK'
  BY <1>1 DEF TraversalInv, TraversalTypeOK
<1>5. \A b \in Activation : ~Carries(b)'
  <2>1. \A b \in Activation : b # a => ~Carries(b)'
    BY <1>1, <1>2 DEF TraversalInv, TraversalTypeOK, Carries
  <2>2. ~Carries(a)'
    BY <1>1 DEF TraversalInv, TraversalTypeOK, Carries, Walks, Detachment
  <2> QED
    BY <2>1, <2>2
<1>6. Detachment'
  BY <1>1 DEF TraversalInv, TraversalTypeOK, Detachment, Activation, Walks
<1>7. Ended'
  BY <1>1, <1>2, <1>3, <1>5 DEF Ended
<1> QED
  BY <1>1, <1>2, <1>3, <1>4, <1>5, <1>6, <1>7, Stayed

\* A resumption takes the traversal over from the callable.
LEMMA ResumePreserves ==
  ASSUME TraversalInv, NEW e \in Leaf, Resume(e)
  PROVE  TraversalInv' /\ \A b \in Activation : Carries(b)' => Carries(b)
<1>1. /\ callable[e] = "held" /\ callable' = [callable EXCEPT ![e] = "called"]
      /\ pc' = [pc EXCEPT ![e] = "walking"]
      /\ UNCHANGED <<hierarchy, detached, visited, completed>>
  BY DEF Resume
<1>2. TraversalTypeOK'
  <2>1. under' \in [Activation -> Activation \cup {Nobody}]
    BY DEF Resume, TraversalInv, TraversalTypeOK
  <2> QED
    BY <1>1, <2>1 DEF TraversalInv, TraversalTypeOK
<1>3. \A b \in Activation : Carries(b)' => Carries(b)
  BY <1>1 DEF TraversalInv, TraversalTypeOK, Carries
<1>4. Detachment'
  BY <1>1 DEF TraversalInv, TraversalTypeOK, Detachment, Activation
<1>5. Ended'
  BY <1>1, <1>3 DEF TraversalInv, Ended
<1> QED
  BY <1>1, <1>2, <1>3, <1>4, <1>5, Stayed

\* With a callable that is dropped the traversal ends.
LEMMA ForgetPreserves ==
  ASSUME TraversalInv, NEW e \in Leaf, Forget(e)
  PROVE  TraversalInv' /\ \A b \in Activation : ~Carries(b)'
<1>1. /\ callable[e] = "held" /\ callable' = [callable EXCEPT ![e] = "dropped"]
      /\ UNCHANGED <<pc, hierarchy, detached, under, visited, completed>>
  BY DEF Forget
<1>2. TraversalTypeOK'
  BY <1>1 DEF TraversalInv, TraversalTypeOK
<1>3. \A b \in Activation : Carries(b)' => Carries(b)
  BY <1>1 DEF TraversalInv, TraversalTypeOK, Carries
<1>6. \A b \in Activation : ~Carries(b)'
  <2>1. Carries(e) /\ e \in Activation
    BY <1>1 DEF Carries, Activation
  <2>2. ~Carries(e)'
    BY <1>1 DEF TraversalInv, TraversalTypeOK, Carries, Detachment, Activation
  <2> QED
    BY <1>3, <2>1, <2>2 DEF TraversalInv, OneCarrier
<1>4. Detachment'
  BY <1>1 DEF TraversalInv, TraversalTypeOK, Detachment
<1>5. Ended'
  BY <1>1, <1>3 DEF TraversalInv, Ended
<1> QED
  BY <1>1, <1>2, <1>3, <1>4, <1>5, <1>6, Stayed
-------------------------------------------------------------------------------
(* The connection *)

\* While the traversal can go on, nothing is decided and no child has failed.
LEMMA GoingOn ==
  ASSUME IInv, NEW b \in Activation, Carries(b)
  PROVE  /\ completed = 0 /\ calls = 0 /\ verdict = NoVerdict /\ aborting = {}
         /\ \A c \in Child : callable[c] # "dropped" /\ (callable[c] = "held" => c = b)
<1>1. completed = 0
  BY DEF IInv, TraversalInv, Ended
<1>2. \A c \in Child : callable[c] # "dropped"
  BY DEF IInv, Over
<1>3. \A c \in Child : callable[c] = "held" => c = b
  BY DEF IInv, TraversalInv, OneCarrier, Carries, Activation, Child
<1>4. calls = 0 /\ verdict = NoVerdict
  BY <1>1, <1>2 DEF IInv, Delivered
<1>5. aborting = {}
  BY <1>2 DEF IInv, Delivered, TypeOK
<1> QED
  BY <1>1, <1>2, <1>3, <1>4, <1>5

\* A step of the traversal that the visitor has no part in.
LEMMA Unnoticed ==
  ASSUME IInv, UNCHANGED <<callable, visited, completed>>, UNCHANGED seqVars, TraversalInv',
         \A b \in Activation : Carries(b)' => Carries(b)
  PROVE  IInv'
<1> USE DEF seqVars
<1>1. TypeOK' /\ ChildrenTrue' /\ Latest' /\ Delivered'
  BY DEF IInv, TraversalInv, TypeOK, ChildrenTrue, Latest, Delivered
<1>2. Over'
  BY DEF IInv, Over
<1> QED
  BY <1>1, <1>2 DEF IInv

\* Taking the result of a ready child preserves the invariant.
LEMMA TakePreserves ==
  ASSUME IInv, NEW a \in Activation, Take(a)
  PROVE  IInv'
<1> DEFINE e == Element(a)
<1>1. /\ Walks(a) /\ ~AtEnd(a) /\ e \in Leaf /\ Visit(a)
      /\ UNCHANGED <<callable, completed, ready, aborting, calls, verdict>>
      /\ visited' = Append(visited, e)
  BY DEF Take, Visit, MoveOn
<1>2. PICK k \in ReadyKinds :
        /\ settled' = [settled EXCEPT ![e] = k]
        /\ box' = [box EXCEPT ![e] = IF k = "value" THEN "value" ELSE "garbage"]
  BY DEF Take
<1>3. TraversalInv' /\ \A b \in Activation : Carries(b)' => Carries(b)
  BY <1>1, VisitPreserves DEF IInv
<1>4. callable[e] = "none" /\ e \notin ToSet(visited)
  BY <1>1, Fresh DEF IInv
<1>5. ToSet(visited') = ToSet(visited) \cup {e}
  BY <1>1, Visited DEF IInv
<1>6. Carries(a)
  BY <1>1, TheWalker DEF IInv
<1>7. /\ completed = 0 /\ calls = 0 /\ verdict = NoVerdict /\ aborting = {}
      /\ \A c \in Child : callable[c] # "dropped" /\ (callable[c] = "held" => c = a)
  BY <1>6, GoingOn
<1>8. \A c \in Child : callable[c] # "held"
  BY <1>1, <1>7 DEF IInv, TraversalInv, Detachment, Walks, Child
<1> HIDE DEF e
<1>9. k \in Kind
  BY WhenSeqAssumption
<1>10. TypeOK'
  BY <1>1, <1>2, <1>3, <1>9 DEF IInv, TypeOK, TraversalInv, Child
<1>11. ChildrenTrue'
  <2> SUFFICES ASSUME NEW c \in Child
               PROVE  /\ c \notin ToSet(visited') =>
                           settled'[c] = "pending" /\ box'[c] = "empty"
                      /\ c \in ToSet(visited') /\ callable[c] = "none" =>
                           /\ settled'[c] \in ReadyKinds
                           /\ box'[c] = IF settled'[c] = "value" THEN "value" ELSE "garbage"
                      /\ callable[c] = "called" => settled'[c] = "value" /\ box'[c] = "value"
    BY <1>1, <1>7, <1>8 DEF ChildrenTrue
  <2>1. CASE c = e
    BY <1>2, <1>4, <1>5, <2>1 DEF IInv, TypeOK
  <2>2. CASE c # e
    BY <1>2, <1>5, <2>2 DEF IInv, TypeOK, ChildrenTrue
  <2> QED
    BY <2>1, <2>2
<1>12. Latest' /\ Over' /\ Delivered'
  BY <1>1, <1>7, <1>8 DEF Latest, Over, Delivered
<1> QED
  BY <1>3, <1>10, <1>11, <1>12 DEF IInv

\* Starting a child hands the traversal to its callable.
LEMMA StartPreserves ==
  ASSUME IInv, NEW a \in Activation, Start(a)
  PROVE  IInv'
<1> DEFINE e == Element(a)
<1>1. /\ Walks(a) /\ ~AtEnd(a) /\ e \in Leaf /\ Detach(a)
      /\ UNCHANGED <<completed, ready, settled, box, aborting, calls, verdict>>
      /\ visited' = Append(visited, e) /\ callable' = [callable EXCEPT ![e] = "held"]
  BY DEF Start, Detach, seqVars
<1>2. TraversalInv'
  BY <1>1, DetachPreserves DEF IInv
<1>3. callable[e] = "none" /\ e \notin ToSet(visited)
  BY <1>1, Fresh DEF IInv
<1>4. ToSet(visited') = ToSet(visited) \cup {e} /\ Last(visited') = e
  BY <1>1, Visited DEF IInv
<1>5. Carries(a)
  BY <1>1, TheWalker DEF IInv
<1>6. /\ completed = 0 /\ calls = 0 /\ verdict = NoVerdict /\ aborting = {}
      /\ \A c \in Child : callable[c] # "dropped" /\ (callable[c] = "held" => c = a)
  BY <1>5, GoingOn
<1>7. \A c \in Child : callable[c] # "held"
  BY <1>1, <1>6 DEF IInv, TraversalInv, Detachment, Walks, Child
<1> HIDE DEF e
<1>8. /\ callable'[e] = "held"
      /\ \A c \in Child : c # e => callable'[c] = callable[c]
  BY <1>1 DEF IInv, TypeOK, TraversalTypeOK, Child
<1>9. TypeOK'
  BY <1>1, <1>2 DEF IInv, TypeOK, TraversalInv
<1>10. ChildrenTrue'
  <2> SUFFICES ASSUME NEW c \in Child
               PROVE  /\ c \notin ToSet(visited') => settled[c] = "pending" /\ box[c] = "empty"
                      /\ c \in ToSet(visited') /\ callable'[c] = "none" =>
                           /\ settled[c] \in ReadyKinds
                           /\ box[c] = IF settled[c] = "value" THEN "value" ELSE "garbage"
                      /\ callable'[c] = "held" => settled[c] = "pending" /\ box[c] = "empty"
                      /\ callable'[c] = "called" => settled[c] = "value" /\ box[c] = "value"
                      /\ callable'[c] # "dropped"
    BY <1>1 DEF ChildrenTrue
  <2>1. CASE c = e
    BY <1>3, <1>4, <1>8, <2>1 DEF IInv, ChildrenTrue
  <2>2. CASE c # e
    BY <1>4, <1>6, <1>7, <1>8, <2>2 DEF IInv, ChildrenTrue
  <2> QED
    BY <2>1, <2>2
<1>11. Latest' /\ Over' /\ Delivered'
  BY <1>1, <1>4, <1>6, <1>7, <1>8 DEF Latest, Over, Delivered
<1> QED
  BY <1>2, <1>9, <1>10, <1>11 DEF IInv

\* The value of a child fills its box before the traversal goes on.
LEMMA ArrivePreserves ==
  ASSUME IInv, NEW c \in Child, Arrive(c)
  PROVE  IInv'
<1>1. /\ callable[c] = "held" /\ callable' = [callable EXCEPT ![c] = "called"]
      /\ settled' = [settled EXCEPT ![c] = "value"] /\ box' = [box EXCEPT ![c] = "value"]
      /\ UNCHANGED <<visited, completed, ready, aborting, calls, verdict>>
      /\ c \in Leaf /\ Resume(c)
  BY DEF Arrive, Resume, Child
<1>2. TraversalInv'
  BY <1>1, ResumePreserves DEF IInv
<1>3. /\ completed = 0 /\ calls = 0 /\ verdict = NoVerdict /\ aborting = {}
      /\ \A d \in Child : callable[d] # "dropped" /\ (callable[d] = "held" => d = c)
  BY <1>1, GoingOn DEF Carries, Activation
<1>4. /\ callable'[c] = "called" /\ settled'[c] = "value" /\ box'[c] = "value"
      /\ \A d \in Child : d # c => /\ callable'[d] = callable[d]
                                    /\ settled'[d] = settled[d] /\ box'[d] = box[d]
  BY <1>1 DEF IInv, TypeOK, TraversalTypeOK, Child
<1>5. TypeOK'
  BY <1>1, <1>2 DEF IInv, TypeOK, TraversalInv, Kind
<1>6. c \in ToSet(visited)
  BY <1>1 DEF IInv, TraversalInv, Detachment
<1>7. ChildrenTrue'
  <2> SUFFICES ASSUME NEW d \in Child
               PROVE  /\ d \notin ToSet(visited) => settled'[d] = "pending" /\ box'[d] = "empty"
                      /\ d \in ToSet(visited) /\ callable'[d] = "none" =>
                           /\ settled'[d] \in ReadyKinds
                           /\ box'[d] = IF settled'[d] = "value" THEN "value" ELSE "garbage"
                      /\ callable'[d] = "called" => settled'[d] = "value" /\ box'[d] = "value"
                      /\ callable'[d] \notin {"held", "dropped"}
    BY <1>1 DEF ChildrenTrue
  <2>1. CASE d = c
    BY <1>4, <1>6, <2>1
  <2>2. CASE d # c
    BY <1>3, <1>4, <2>2 DEF IInv, ChildrenTrue
  <2> QED
    BY <2>1, <2>2
<1>8. Latest' /\ Over' /\ Delivered'
  BY <1>1, <1>3, <1>4 DEF Latest, Over, Delivered
<1> QED
  BY <1>2, <1>5, <1>7, <1>8 DEF IInv

\* The callable of a child is destroyed: the traversal ends at that child.
LEMMA ForgottenPreserves ==
  ASSUME IInv, NEW c \in Child, Forget(c),
         NEW k \in Failure \cup {"dropped"}, settled' = [settled EXCEPT ![c] = k],
         aborting' = aborting \/ (k \in Failure /\ aborting' = aborting \cup {c}),
         UNCHANGED <<ready, box, calls, verdict>>
  PROVE  IInv'
<1>1. /\ callable[c] = "held" /\ callable' = [callable EXCEPT ![c] = "dropped"]
      /\ UNCHANGED <<visited, completed>> /\ c \in Leaf
  BY DEF Forget, Child
<1>2. TraversalInv' /\ \A b \in Activation : ~Carries(b)'
  BY <1>1, ForgetPreserves DEF IInv
<1>3. /\ completed = 0 /\ calls = 0 /\ verdict = NoVerdict /\ aborting = {}
      /\ \A d \in Child : callable[d] # "dropped" /\ (callable[d] = "held" => d = c)
  BY <1>1, GoingOn DEF Carries, Activation
<1>4. /\ callable'[c] = "dropped" /\ settled'[c] = k
      /\ \A d \in Child : d # c => callable'[d] = callable[d] /\ settled'[d] = settled[d]
  BY <1>1 DEF IInv, TypeOK, TraversalTypeOK, Child
<1>5. TypeOK'
  BY <1>1, <1>2 DEF IInv, TypeOK, TraversalInv, Kind, Failure
<1>6. c \in ToSet(visited) /\ box[c] = "empty" /\ c = Last(visited)
  BY <1>1 DEF IInv, TraversalInv, Detachment, ChildrenTrue, Latest
<1>7. ChildrenTrue'
  <2> SUFFICES ASSUME NEW d \in Child
               PROVE  /\ d \notin ToSet(visited) => settled'[d] = "pending" /\ box[d] = "empty"
                      /\ d \in ToSet(visited) /\ callable'[d] = "none" =>
                           /\ settled'[d] \in ReadyKinds
                           /\ box[d] = IF settled'[d] = "value" THEN "value" ELSE "garbage"
                      /\ callable'[d] = "called" => settled'[d] = "value" /\ box[d] = "value"
                      /\ callable'[d] = "dropped" => /\ settled'[d] \in Failure \cup {"dropped"}
                                                    /\ box[d] = "empty"
                      /\ callable'[d] # "held"
    BY <1>1 DEF ChildrenTrue
  <2>1. CASE d = c
    BY <1>4, <1>6, <2>1
  <2>2. CASE d # c
    BY <1>3, <1>4, <2>2 DEF IInv, ChildrenTrue
  <2> QED
    BY <2>1, <2>2
<1>8. Latest'
  BY <1>1, <1>3, <1>4, <1>6 DEF Latest
<1>9. Over'
  BY <1>1, <1>2, <1>3 DEF Over
<1>10. Delivered'
  <2>1. \A d \in aborting' : d = c /\ k \in Failure
    BY <1>3
  <2>2. \A d \in aborting' : callable'[d] = "dropped" /\ settled'[d] \in Failure
    BY <1>4, <2>1
  <2>3. calls' = 0 /\ verdict' = NoVerdict /\ completed' = 0 /\ NoVerdict' = NoVerdict
    BY <1>1, <1>3 DEF NoVerdict
  <2> QED
    BY <2>2, <2>3 DEF Delivered
<1> QED
  BY <1>2, <1>5, <1>7, <1>8, <1>9, <1>10 DEF IInv

\* The failure that is handed on is that of the child whose callable was dropped for it.
LEMMA AbortPreserves ==
  ASSUME IInv, NEW c \in Child, Abort(c)
  PROVE  IInv'
<1>1. /\ c \in aborting /\ aborting' = aborting \ {c} /\ calls' = calls + 1
      /\ verdict' = [kind |-> settled[c], of |-> {c}]
      /\ UNCHANGED <<ready, settled, box>> /\ UNCHANGED traversalVars
  BY DEF Abort, Deliver
<1>2. callable[c] = "dropped" /\ settled[c] \in Failure /\ calls = 0 /\ completed = 0
  BY <1>1 DEF IInv, Delivered, Over
<1>3. aborting = {c}
  BY <1>1 DEF IInv, TypeOK, Delivered, Latest
<1>4. /\ UNCHANGED <<pc, hierarchy, detached, under, callable, visited, completed>>
      /\ \A b \in Activation : Carries(b)' = Carries(b)
  BY <1>1 DEF traversalVars, Carries
<1>5. TraversalInv'
  BY <1>4, Stayed DEF IInv, TraversalInv, TraversalTypeOK, Detachment, Ended
<1>6. TypeOK'
  BY <1>1, <1>2, <1>5 DEF IInv, TypeOK, TraversalInv, Kind
<1>7. ChildrenTrue' /\ Latest' /\ Over'
  BY <1>1, <1>4 DEF IInv, ChildrenTrue, Latest, Over
<1>8. Delivered'
  <2>1. calls' = 1 /\ aborting' = {} /\ completed' = 0 /\ verdict' # NoVerdict
    BY <1>1, <1>2, <1>3, <1>4 DEF NoVerdict, Failure
  <2>2. /\ callable'[c] = "dropped" /\ settled'[c] \in Failure
        /\ verdict' = [kind |-> settled'[c], of |-> {c}]
    BY <1>1, <1>2, <1>4
  <2>3. /\ calls' \in {0, 1} /\ (calls' = completed' \/ completed' = 0)
        /\ calls' = 0 <=> verdict' = NoVerdict
        /\ \A d \in aborting' : FALSE
    BY <2>1
  <2> QED
    BY <2>1, <2>2, <2>3 DEF Delivered, NoVerdict
<1> QED
  BY <1>5, <1>6, <1>7, <1>8 DEF IInv

\* Once every element is visited, there is none that is not.
LEMMA AllVisited ==
  ASSUME TraversalInv, Len(visited) = Len(Written)
  PROVE  ToSet(visited) = Leaf
<1>1. /\ visited \in Seq(Leaf) /\ Written \in Seq(Leaf) /\ ToSet(Written) = Leaf
      /\ \A i \in 1 .. Len(Written) : visited[i] = Written[i]
  BY WrittenAssumption DEF TraversalInv, TraversalTypeOK, Walked
<1>2. DOMAIN visited = 1 .. Len(Written) /\ DOMAIN Written = 1 .. Len(Written)
  BY <1>1, LenProperties
<1> QED
  BY <1>1, <1>2 DEF ToSet

\* Behind the end of the pack the callback gets what is in the boxes, and all of them are
\* filled.
LEMMA FinalizePreserves ==
  ASSUME IInv, NEW a \in Activation, Finalize(a)
  PROVE  IInv' /\ verdict' = [kind |-> "values", of |-> Child] /\ ToSet(visited) = Child
<1>1. /\ Complete(a) /\ Walks(a) /\ calls' = calls + 1
      /\ verdict' = [kind |-> "values", of |-> {c \in Child : box[c] # "empty"}]
      /\ UNCHANGED <<ready, settled, box, aborting, callable, visited>>
  BY DEF Finalize, Complete, Deliver
<1>2. /\ TraversalInv' /\ completed' = 1 /\ Len(visited) = Len(Written)
      /\ \A b \in Activation : ~Carries(b)'
  BY <1>1, CompletePreserves DEF IInv
<1>3. Carries(a)
  BY <1>1, TheWalker DEF IInv
<1>4. /\ completed = 0 /\ calls = 0 /\ verdict = NoVerdict /\ aborting = {}
      /\ \A c \in Child : callable[c] # "dropped" /\ (callable[c] = "held" => c = a)
  BY <1>3, GoingOn
<1>5. \A c \in Child : callable[c] \in {"none", "called"}
  BY <1>1, <1>4 DEF IInv, TypeOK, TraversalTypeOK, TraversalInv, Detachment, Walks, Child
<1>6. ToSet(visited) = Child
  BY <1>2, AllVisited DEF IInv, Child
<1>7. \A c \in Child : box[c] # "empty"
  BY <1>5, <1>6 DEF IInv, ChildrenTrue
<1>8. verdict' = [kind |-> "values", of |-> Child]
  <2>1. {c \in Child : box[c] # "empty"} = Child
    BY <1>7
  <2> QED
    BY <1>1, <2>1
<1>9. TypeOK'
  BY <1>1, <1>2, <1>4, <1>8 DEF IInv, TypeOK, TraversalInv
<1>10. ChildrenTrue' /\ Latest'
  BY <1>1 DEF IInv, ChildrenTrue, Latest
<1>11. Over'
  BY <1>1, <1>4 DEF Over
<1>12. Delivered'
  <2>1. calls' = 1 /\ completed' = 1 /\ aborting' = {} /\ verdict' # NoVerdict
    BY <1>1, <1>2, <1>4, <1>8 DEF NoVerdict
  <2>2. /\ calls' \in {0, 1} /\ (calls' = completed' \/ completed' = 0)
        /\ calls' = 0 <=> verdict' = NoVerdict
        /\ \A d \in aborting' : FALSE
    BY <2>1
  <2>3. Child' = Child
    BY DEF Child
  <2> QED
    BY <1>8, <2>1, <2>2, <2>3 DEF Delivered, NoVerdict
<1> QED
  BY <1>2, <1>6, <1>8, <1>9, <1>10, <1>11, <1>12 DEF IInv
-------------------------------------------------------------------------------
(* The invariant *)

\* The invariant holds initially.
LEMMA InitIInv == Init => IInv
<1> SUFFICES ASSUME Init PROVE IInv
  OBVIOUS
<1> DEFINE top == <<[in |-> Top, at |-> 1]>>
<1>1. /\ pc = [a \in Activation |-> IF a = Begin THEN "walking" ELSE "idle"]
      /\ hierarchy = [a \in Activation |-> IF a = Begin THEN top ELSE <<>>]
      /\ detached = [a \in Activation |-> FALSE]
      /\ under = [a \in Activation |-> Nobody]
      /\ callable = [e \in Leaf |-> "none"]
      /\ visited = <<>> /\ completed = 0
  BY DEF Init, TraversalInit
<1>2. /\ settled = [c \in Child |-> "pending"] /\ box = [c \in Child |-> "empty"]
      /\ aborting = {} /\ calls = 0 /\ verdict = NoVerdict /\ ready \subseteq Child
  BY DEF Init
<1>3. [in |-> Top, at |-> 1] \in Position /\ top \in Seq(Position)
  BY TraversalAssumption DEF Position
<1>4. TraversalTypeOK
  BY <1>1, <1>3 DEF TraversalTypeOK
<1>5. \A a \in Activation : Carries(a) => a = Begin
  BY <1>1 DEF Carries
<1>6. OneCarrier
  BY <1>5 DEF OneCarrier
<1>7. Placed(top, 0)
  <2>1. Len(top) = 1 /\ top[1] = [in |-> Top, at |-> 1] /\ top # <<>>
    OBVIOUS
  <2>2. Len(Sub[Top]) \in Nat /\ Before[Top][1] = 0
    BY TraversalAssumption, WrittenAssumption
  <2> HIDE DEF top
  <2> QED
    BY <2>1, <2>2 DEF Placed
<1>8. CarrierPlaced
  <2>1. hierarchy[Begin] = top /\ Len(visited) = 0
    BY <1>1 DEF Activation
  <2> QED
    BY <1>5, <1>7, <2>1 DEF CarrierPlaced
<1>9. ToSet(visited) = {}
  BY <1>1 DEF ToSet
<1>10. Walked
  BY <1>1, WrittenAssumption, LenProperties DEF Walked
<1>11. Detachment
  BY <1>1, TraversalAssumption DEF Detachment, Activation
<1>12. Ended
  BY <1>1 DEF Ended
<1>13. TypeOK
  BY <1>2, <1>4 DEF TypeOK, NoVerdict
<1>14. ChildrenTrue
  BY <1>1, <1>2, <1>9 DEF ChildrenTrue, Child
<1>15. Latest /\ Over /\ Delivered
  BY <1>1, <1>2 DEF Latest, Over, Delivered, Child
<1> QED
  BY <1>4, <1>6, <1>8, <1>10, <1>11, <1>12, <1>13, <1>14, <1>15 DEF IInv, TraversalInv

\* Every step of the traversal and of its visitor preserves it.
LEMMA NextIInv == IInv /\ [Next]_vars => IInv'
<1> SUFFICES ASSUME IInv, [Next]_vars PROVE IInv'
  OBVIOUS
<1>1. ASSUME NEW a \in Activation, Take(a) PROVE IInv'
  BY <1>1, TakePreserves
<1>2. ASSUME NEW a \in Activation, Start(a) PROVE IInv'
  BY <1>2, StartPreserves
<1>3. ASSUME NEW a \in Activation, Finalize(a) PROVE IInv'
  BY <1>3, FinalizePreserves
<1>4. ASSUME NEW a \in Activation, Walk(a), UNCHANGED seqVars PROVE IInv'
  <2>1. TraversalInv' /\ \A b \in Activation : Carries(b)' => Carries(b)
    BY <1>4, WalkPreserves DEF IInv
  <2>2. UNCHANGED <<callable, visited, completed>>
    BY <1>4 DEF Walk, Fork, Ignore, Ascend, Unwind, MoveOn
  <2> QED
    BY <1>4, <2>1, <2>2, Unnoticed
<1>5. ASSUME NEW a \in Activation, LeaveVisitor(a), UNCHANGED seqVars PROVE IInv'
  <2>1. TraversalInv' /\ \A b \in Activation : Carries(b)' => Carries(b)
    BY <1>5, LeaveVisitorPreserves DEF IInv
  <2> QED
    BY <1>5, <2>1, Unnoticed DEF LeaveVisitor
<1>6. ASSUME NEW c \in Child, Arrive(c) PROVE IInv'
  BY <1>6, ArrivePreserves
<1>7. ASSUME NEW c \in Child, Fail(c) PROVE IInv'
  <2>1. PICK k \in Failure : settled' = [settled EXCEPT ![c] = k]
    BY <1>7 DEF Fail
  <2> QED
    BY <1>7, <2>1, ForgottenPreserves DEF Fail
<1>8. ASSUME NEW c \in Child, Abort(c) PROVE IInv'
  BY <1>8, AbortPreserves
<1>9. ASSUME NEW c \in Child, Drop(c) PROVE IInv'
  BY <1>9, ForgottenPreserves DEF Drop
<1>10. CASE UNCHANGED vars
  <2>1. /\ UNCHANGED <<pc, hierarchy, detached, under, callable, visited, completed>>
        /\ UNCHANGED seqVars /\ \A b \in Activation : Carries(b)' = Carries(b)
    BY <1>10 DEF vars, seqVars, Carries
  <2>2. TraversalInv'
    BY <2>1, Stayed DEF IInv, TraversalInv, TraversalTypeOK, Detachment, Ended
  <2> QED
    BY <2>1, <2>2, Unnoticed
<1> QED
  BY <1>1, <1>2, <1>3, <1>4, <1>5, <1>6, <1>7, <1>8, <1>9, <1>10 DEF Next, Step, Finished

\* It is an invariant of the specification.
LEMMA IInvariant == Spec => []IInv
<1> QED
  BY InitIInv, NextIInv, PTL DEF Spec
-------------------------------------------------------------------------------
\* The state of when_seq keeps its type.
THEOREM TypeCorrect == Spec => []TypeOK
<1>1. IInv => TypeOK
  BY DEF IInv
<1> QED
  BY <1>1, IInvariant, PTL

\* The asynchronous traversal asks the visitor about each element once and in the
\* order in which they are written, in packs nested to any depth and resumed by
\* anybody, and it tells it about the end once, when there is none left.
THEOREM VisitsInOrder == Spec => []InOrder
<1>1. IInv => InOrder
  <2> SUFFICES ASSUME IInv PROVE InOrder
    OBVIOUS
  <2>1. /\ visited \in Seq(Leaf) /\ Written \in Seq(Leaf)
        /\ Len(visited) \in Nat /\ Len(Written) \in Nat
        /\ Len(visited) <= Len(Written)
        /\ \A i \in 1 .. Len(visited) : visited[i] = Written[i]
    BY WrittenAssumption, LenProperties DEF IInv, TraversalInv, TraversalTypeOK, Walked
  <2>2. SubSeq(visited, 1, Len(visited)) = SubSeq(Written, 1, Len(visited))
    <3>1. /\ SubSeq(visited, 1, Len(visited)) = [i \in 1 .. Len(visited) |-> visited[i]]
          /\ SubSeq(Written, 1, Len(visited)) = [i \in 1 .. Len(visited) |-> Written[i]]
      BY <2>1
    <3> QED
      BY <2>1, <3>1
  <2>3. Len(visited) = Len(Written) => visited = Written
    BY <2>1, SeqEqual
  <2>4. completed \in {0, 1} /\ (completed = 1 => Len(visited) = Len(Written))
    BY DEF IInv, TraversalInv, Ended
  <2> QED
    BY <2>1, <2>2, <2>3, <2>4 DEF InOrder, IsPrefix
<1> QED
  BY <1>1, IInvariant, PTL

\* At most one thread is in the pack, and none while a callable waits.
THEOREM OneThreadInThePack == Spec => []OneWalker
<1>1. IInv => OneWalker
  <2> SUFFICES ASSUME IInv PROVE OneWalker
    OBVIOUS
  <2>1. ASSUME NEW a \in Activation, NEW b \in Activation,
               pc[a] = "walking" /\ ~detached[a], pc[b] = "walking" /\ ~detached[b]
        PROVE  a = b
    BY <2>1 DEF IInv, TraversalInv, OneCarrier, Carries
  <2>2. ASSUME NEW e \in Leaf, NEW a \in Activation,
               callable[e] = "held", pc[a] = "walking" /\ ~detached[a]
        PROVE  FALSE
    <3>1. Carries(e) /\ Carries(a) /\ e \in Activation
      BY <2>2 DEF Carries, Activation
    <3>2. a = e
      BY <3>1 DEF IInv, TraversalInv, OneCarrier
    <3> QED
      BY <2>2, <3>2 DEF IInv, TraversalInv, Detachment
  <2> QED
    BY <2>1, <2>2 DEF OneWalker
<1> QED
  BY <1>1, IInvariant, PTL

\* The children before the last one that was visited are not waited for any more.
LEMMA EarlierSettled ==
  ASSUME IInv, NEW c \in ToSet(visited),
         c # Last(visited) \/ (calls = 1 /\ completed = 1)
  PROVE  /\ c \in Child
         /\ ReadyKinds \subseteq {"value"} => settled[c] = "value" /\ box[c] = "value"
<1>1. c \in Child
  BY LenProperties DEF IInv, TypeOK, TraversalTypeOK, ToSet, Child
<1>2. callable[c] \in {"none", "called"}
  <2>1. callable[c] \in {"none", "called", "held", "dropped"}
    BY <1>1 DEF IInv, TypeOK, TraversalTypeOK, Child
  <2>2. CASE c # Last(visited)
    BY <1>1, <2>1, <2>2 DEF IInv, Latest
  <2>3. CASE completed = 1
    <3>1. callable[c] = "held" => Carries(c) /\ c \in Activation
      BY <1>1 DEF Carries, Child, Activation
    <3> QED
      BY <1>1, <2>1, <2>3, <3>1 DEF IInv, Over, TraversalInv, Ended
  <2> QED
    BY <2>2, <2>3
<1> QED
  BY <1>1, <1>2 DEF IInv, ChildrenTrue

\* The value semantics of the next two theorems needs the hypothesis: a child that is
\* ready with a failure is taken as if it held a value.

\* when_seq comes to a child only when all children before it settled with a value.
THEOREM OneAfterTheOther ==
  ASSUME ReadyKinds \subseteq {"value"}
  PROVE  Spec => []InSequence
<1>1. IInv => InSequence
  <2> SUFFICES ASSUME IInv, NEW i \in 1 .. Len(visited) - 1
               PROVE  settled[visited[i]] = "value"
    BY DEF InSequence
  <2>1. /\ visited \in Seq(Leaf) /\ Written \in Seq(Leaf) /\ IsInjective(Written)
        /\ Len(visited) \in Nat /\ Len(Written) \in Nat
        /\ Len(visited) <= Len(Written)
        /\ \A k \in 1 .. Len(visited) : visited[k] = Written[k]
    BY WrittenAssumption, LenProperties DEF IInv, TraversalInv, TraversalTypeOK, Walked
  <2>2. /\ DOMAIN visited = 1 .. Len(visited) /\ DOMAIN Written = 1 .. Len(Written)
        /\ i \in 1 .. Len(visited) /\ Len(visited) \in 1 .. Len(Written)
        /\ Len(visited) \in 1 .. Len(visited)
        /\ i \in 1 .. Len(Written) /\ i # Len(visited)
    BY <2>1, LenProperties
  <2>3. visited[i] # visited[Len(visited)]
    <3>1. Written[i] # Written[Len(visited)]
      BY <2>1, <2>2 DEF IsInjective
    <3>2. visited[i] = Written[i] /\ visited[Len(visited)] = Written[Len(visited)]
      BY <2>1, <2>2
    <3> QED
      BY <3>1, <3>2
  <2> DEFINE c == visited[i]
  <2>4. c \in ToSet(visited) /\ c # Last(visited)
    BY <2>2, <2>3 DEF ToSet, Last
  <2> HIDE DEF c
  <2>5. settled[c] = "value"
    BY <2>4, EarlierSettled
  <2> QED
    BY <2>5 DEF c
<1> QED
  BY <1>1, IInvariant, PTL

\* The invariant says what the callback was called with.
LEMMA Justified ==
  ASSUME ReadyKinds \subseteq {"value"}, IInv
  PROVE  VerdictJustified
<1>1. calls \in {0, 1} /\ (calls = 0 => verdict.kind = "none")
  BY DEF IInv, Delivered, NoVerdict
<1>2. CASE calls = 1 /\ completed = 1
  <2>1. ToSet(visited) = Child
    BY <1>2, AllVisited DEF IInv, TraversalInv, Ended, Child
  <2>2. \A c \in Child : settled[c] = "value" /\ box[c] = "value"
    BY <1>2, <2>1, EarlierSettled
  <2>3. verdict.kind = "values"
    BY <1>2 DEF IInv, Delivered, Over
  <2> QED
    BY <1>1, <2>2, <2>3 DEF VerdictJustified, Failure
<1>3. CASE calls = 1 /\ completed # 1
  <2>1. PICK c \in Child : /\ callable[c] = "dropped" /\ settled[c] \in Failure
                           /\ verdict = [kind |-> settled[c], of |-> {c}]
    BY <1>3 DEF IInv, Delivered
  <2>2. c = Last(visited)
    BY <2>1 DEF IInv, Latest
  <2> QED
    BY <1>1, <2>1, <2>2 DEF VerdictJustified, Failure
<1> QED
  BY <1>1, <1>2, <1>3 DEF VerdictJustified, Failure

\* The callback is invoked at most once: with all values, all boxes filled, or with the
\* failure of the child the traversal ended at.
THEOREM VerdictIsJustified ==
  ASSUME ReadyKinds \subseteq {"value"}
  PROVE  Spec => []VerdictJustified
<1>1. IInv => VerdictJustified
  BY Justified
<1> QED
  BY <1>1, IInvariant, PTL
-------------------------------------------------------------------------------
(* when_seq is a connection in mode "all" *)

\* Nothing is settled, and nothing decided.
LEMMA InitRefines == Init => Abs!Init
  BY DEF Init, Abs!Init, NoVerdict, Abs!NoVerdict

\* At the end of the pack every child has settled with a value.
LEMMA FinishedWithValues ==
  ASSUME ReadyKinds \subseteq {"value"}, IInv, NEW a \in Activation, Finalize(a)
  PROVE  \A c \in Child : settled[c] = "value"
<1>1. Walks(a) /\ Complete(a)
  BY DEF Finalize, Complete
<1>2. Carries(a)
  BY <1>1, TheWalker DEF IInv
<1>3. \A c \in Child : callable[c] # "dropped" /\ (callable[c] = "held" => c = a)
  BY <1>2, GoingOn
<1>4. \A c \in Child : callable[c] \in {"none", "called"}
  BY <1>1, <1>3 DEF IInv, TypeOK, TraversalTypeOK, TraversalInv, Detachment, Walks, Child
<1>5. ToSet(visited) = Child
  BY FinalizePreserves
<1> QED
  BY <1>4, <1>5 DEF IInv, ChildrenTrue

\* A step settles one child, or decides, or is invisible.
LEMMA StepRefines ==
  ASSUME ReadyKinds \subseteq {"value"}, IInv, IInv', [Next]_vars
  PROVE  [Abs!Next]_(Abs!vars)
<1> USE DEF Abs!vars
<1>1. ASSUME NEW c \in Child, settled[c] = "pending",
             NEW k \in Kind \cup {"dropped"}, settled' = [settled EXCEPT ![c] = k],
             UNCHANGED verdict
      PROVE  Abs!Next
  BY <1>1 DEF Abs!Next, Abs!Settle, Abs!Kind, Abs!Failure, Kind, Failure
<1>2. ASSUME NEW a \in Activation, Take(a) PROVE Abs!Next
  <2>1. /\ Walks(a) /\ ~AtEnd(a) /\ Element(a) \in Leaf /\ UNCHANGED verdict
        /\ \E k \in ReadyKinds : settled' = [settled EXCEPT ![Element(a)] = k]
    BY <1>2 DEF Take, Visit
  <2>2. settled[Element(a)] = "pending"
    BY <2>1, Fresh DEF IInv, ChildrenTrue, Child
  <2> QED
    BY <1>1, <2>1, <2>2, WhenSeqAssumption DEF Child
<1>3. ASSUME NEW c \in Child, Arrive(c) \/ Fail(c) \/ Drop(c) PROVE Abs!Next
  <2>1. settled[c] = "pending"
    BY <1>3 DEF Arrive, Fail, Drop, Resume, Forget, IInv, ChildrenTrue
  <2>2. /\ UNCHANGED verdict
        /\ \E k \in Kind \cup {"dropped"} : settled' = [settled EXCEPT ![c] = k]
    BY <1>3 DEF Arrive, Fail, Drop, Kind
  <2> QED
    BY <1>1, <2>1, <2>2
<1>4. ASSUME NEW c \in Child, Abort(c) PROVE Abs!Next
  <2>1. /\ settled[c] \in Failure /\ calls = 0
        /\ verdict' = [kind |-> settled[c], of |-> {c}] /\ UNCHANGED settled
    BY <1>4 DEF Abort, Deliver, IInv, Delivered
  <2>2. verdict = NoVerdict
    BY <2>1 DEF IInv, Delivered
  <2>3. verdict' \in Abs!Allowed
    BY <2>1 DEF Abs!Allowed, Abs!Single, Abs!Failure, Failure
  <2> QED
    BY <2>1, <2>2, <2>3 DEF Abs!Next, Abs!Decide, Abs!NoVerdict, NoVerdict
<1>5. ASSUME NEW a \in Activation, Finalize(a) PROVE Abs!Next
  <2>1. /\ verdict' = [kind |-> "values", of |-> Child]
        /\ UNCHANGED settled /\ verdict' # NoVerdict
    BY <1>5, FinalizePreserves DEF Finalize, NoVerdict
  <2>2. verdict = NoVerdict
    <3>1. Walks(a)
      BY <1>5 DEF Finalize, Complete
    <3> QED
      BY <3>1, TheWalker, GoingOn DEF IInv
  <2>3. \A c \in Child : settled[c] = "value"
    BY <1>5, FinishedWithValues
  <2>4. verdict' \in Abs!Allowed
    BY <2>1, <2>3 DEF Abs!Allowed, Abs!Everything
  <2> QED
    BY <2>1, <2>2, <2>4 DEF Abs!Next, Abs!Decide, Abs!NoVerdict, NoVerdict
<1>6. ASSUME NEW a \in Activation,
             Start(a) \/ ((Walk(a) \/ LeaveVisitor(a)) /\ UNCHANGED seqVars)
      PROVE  UNCHANGED <<settled, verdict>>
  BY <1>6 DEF Start, seqVars
<1>7. CASE UNCHANGED vars
  BY <1>7 DEF vars
<1> QED
  BY <1>2, <1>3, <1>4, <1>5, <1>6, <1>7 DEF Next, Step, Finished

\* Whatever when_seq does is a settlement, the one decision, or invisible: the safety
\* half of ImplementsAll.
THEOREM Implementation ==
  ASSUME ReadyKinds \subseteq {"value"}
  PROVE  Spec => Abs!Safety
<1>1. IInv /\ IInv' /\ [Next]_vars => [Abs!Next]_(Abs!vars)
  BY StepRefines
<1> QED
  BY <1>1, InitRefines, IInvariant, PTL DEF Spec, Abs!Safety
-------------------------------------------------------------------------------
(* Whatever the ready children hold *)

\* Which of the visited children were ready: the others, and only they, were started.
ReadyKnown ==
  \A c \in Child : /\ callable[c] # "none" => c \notin ready
                   /\ c \in ToSet(visited) /\ callable[c] = "none" => c \in ready

\* The traversal is with somebody until it comes to the end or to a child that ends it, and
\* the callback of the connection is told, but for a child that was dropped.
Kept ==
  /\ \A a \in Activation : pc[a] = "idle" => ~detached[a]
  /\ \/ completed = 1
     \/ \E c \in Child : callable[c] = "dropped"
     \/ \E a \in Activation : Carries(a)
  /\ completed = 1 => calls = 1
  /\ \A c \in Child : callable[c] = "dropped" /\ settled[c] \in Failure =>
       c \in aborting \/ calls = 1

\* Both hold initially.
LEMMA InitKept == Init => ReadyKnown /\ Kept
<1> SUFFICES ASSUME Init PROVE ReadyKnown /\ Kept
  OBVIOUS
<1>1. /\ pc[Begin] = "walking" /\ Begin \in Activation
      /\ detached = [a \in Activation |-> FALSE] /\ callable = [e \in Leaf |-> "none"]
      /\ completed = 0 /\ visited = <<>>
  BY DEF Init, TraversalInit, Activation
<1>2. ToSet(visited) = {}
  BY <1>1 DEF ToSet
<1>3. Carries(Begin)
  BY <1>1 DEF Carries
<1> QED
  BY <1>1, <1>2, <1>3 DEF ReadyKnown, Kept, Child

\* Taking and starting a child agree with whether it is ready, and nothing else does either.
LEMMA NextReadyKnown == IInv /\ ReadyKnown /\ [Next]_vars => ReadyKnown'
<1> SUFFICES ASSUME IInv, ReadyKnown, [Next]_vars PROVE ReadyKnown'
  OBVIOUS
<1>1. ASSUME NEW a \in Activation, Take(a) PROVE ReadyKnown'
  <2>1. Walks(a) /\ ~AtEnd(a) /\ Element(a) \in Leaf /\ visited' = Append(visited, Element(a))
    BY <1>1 DEF Take, Visit
  <2>2. ToSet(visited') = ToSet(visited) \cup {Element(a)}
    BY <2>1, Visited DEF IInv
  <2>3. Element(a) \in ready /\ UNCHANGED <<ready, callable>>
    BY <1>1 DEF Take, Visit, MoveOn
  <2> QED
    BY <2>2, <2>3 DEF ReadyKnown
<1>2. ASSUME NEW a \in Activation, Start(a) PROVE ReadyKnown'
  <2> DEFINE e == Element(a)
  <2>1. /\ Walks(a) /\ ~AtEnd(a) /\ e \in Leaf /\ visited' = Append(visited, e)
        /\ callable' = [callable EXCEPT ![e] = "held"] /\ e \notin ready /\ ready' = ready
    BY <1>2 DEF Start, Detach, seqVars
  <2>2. ToSet(visited') = ToSet(visited) \cup {e}
    BY <2>1, Visited DEF IInv
  <2> HIDE DEF e
  <2>3. /\ callable'[e] = "held"
        /\ \A c \in Child : c # e => callable'[c] = callable[c]
    BY <2>1 DEF IInv, TypeOK, TraversalTypeOK, Child
  <2> QED
    BY <2>1, <2>2, <2>3 DEF ReadyKnown
<1>3. ASSUME NEW a \in Activation,
             Finalize(a) \/ ((Walk(a) \/ LeaveVisitor(a)) /\ UNCHANGED seqVars)
      PROVE  ReadyKnown'
  <2>1. UNCHANGED <<ready, callable, visited>>
    BY <1>3 DEF Finalize, Complete, Walk, Fork, Ignore, Ascend, Unwind, MoveOn,
       LeaveVisitor, seqVars
  <2> QED
    BY <2>1 DEF ReadyKnown
<1>4. ASSUME NEW c \in Child, Arrive(c) \/ Fail(c) \/ Drop(c) PROVE ReadyKnown'
  <2>1. /\ callable[c] = "held" /\ UNCHANGED <<ready, visited>>
        /\ \E k \in {"called", "dropped"} : callable' = [callable EXCEPT ![c] = k]
    BY <1>4 DEF Arrive, Fail, Drop, Resume, Forget
  <2>2. callable'[c] # "none" /\ \A d \in Child : d # c => callable'[d] = callable[d]
    BY <2>1 DEF IInv, TypeOK, TraversalTypeOK, Child
  <2> QED
    BY <2>1, <2>2 DEF ReadyKnown
<1>5. ASSUME NEW c \in Child, Abort(c) PROVE ReadyKnown'
  BY <1>5 DEF Abort, traversalVars, ReadyKnown
<1>6. CASE UNCHANGED vars
  BY <1>6 DEF vars, ReadyKnown
<1> QED
  BY <1>1, <1>2, <1>3, <1>4, <1>5, <1>6 DEF Next, Step, Finished

\* Every step that takes the traversal from somebody gives it to somebody else, ends it, or
\* ends it at a child.
LEMMA NextKept == IInv /\ Kept /\ [Next]_vars => Kept'
<1> SUFFICES ASSUME IInv, IInv', Kept, [Next]_vars PROVE Kept'
  BY NextIInv
<1>1. ASSUME UNCHANGED <<pc, detached, callable, completed, calls, aborting>>,
             \A c \in Child : callable[c] = "dropped" => settled'[c] = settled[c]
      PROVE  Kept'
  BY <1>1 DEF Kept, Carries
<1>2. ASSUME NEW a \in Activation, Take(a) PROVE Kept'
  <2>1. /\ Walks(a) /\ UNCHANGED <<pc, detached, callable, completed, calls, aborting>>
    BY <1>2 DEF Take, Visit, MoveOn
  <2>2. \A c \in Child : callable[c] # "dropped"
    BY <2>1, TheWalker, GoingOn DEF IInv
  <2> QED
    BY <1>1, <2>1, <2>2
<1>3. ASSUME NEW a \in Activation, Fork(a) \/ Ignore(a) \/ Ascend(a), UNCHANGED seqVars
      PROVE  Kept'
  BY <1>1, <1>3 DEF Fork, Ignore, Ascend, MoveOn, seqVars
<1>4. ASSUME NEW a \in Activation, Unwind(a) \/ LeaveVisitor(a), UNCHANGED seqVars
      PROVE  Kept'
  <2>1. /\ pc[a] \in {"walking", "visitor"} /\ detached[a] /\ pc' = [pc EXCEPT ![a] = pc'[a]]
        /\ pc'[a] \in {"walking", "done"}
        /\ UNCHANGED <<detached, callable, completed, settled, aborting, calls>>
    BY <1>4 DEF Unwind, LeaveVisitor, IInv, TypeOK, TraversalTypeOK, TraversalInv, Detachment,
       seqVars
  <2>2. /\ \A b \in Activation : pc'[b] = "idle" => pc[b] = "idle"
        /\ \A b \in Activation : Carries(b) => Carries(b)'
    BY <2>1 DEF Carries, IInv, TypeOK, TraversalTypeOK
  <2> QED
    BY <2>1, <2>2 DEF Kept
<1>5. ASSUME NEW a \in Activation, Start(a) PROVE Kept'
  <2>0. PICK e \in Leaf : e = Element(a)
    BY <1>5 DEF Start, Detach
  <2>1. /\ Walks(a) /\ pc' = [pc EXCEPT ![a] = "visitor"]
        /\ detached' = [detached EXCEPT ![a] = TRUE]
        /\ callable' = [callable EXCEPT ![e] = "held"]
        /\ UNCHANGED <<completed, settled, aborting, calls>>
    BY <1>5, <2>0 DEF Start, Detach, seqVars
  <2>2. completed = 0 /\ \A c \in Child : callable[c] # "dropped"
    BY <2>1, TheWalker, GoingOn DEF IInv
  <2>3. /\ callable'[e] = "held" /\ e \in Activation
        /\ \A c \in Child : callable'[c] # "dropped"
    BY <2>1, <2>2 DEF IInv, TypeOK, TraversalTypeOK, Child, Activation
  <2>4. Carries(e)'
    BY <2>1, <2>3 DEF Carries
  <2>5. \A b \in Activation : pc'[b] = "idle" => ~detached'[b]
    BY <2>1 DEF Kept, IInv, TypeOK, TraversalTypeOK
  <2> QED
    BY <2>1, <2>2, <2>3, <2>4, <2>5 DEF Kept
<1>6. ASSUME NEW a \in Activation, Finalize(a) PROVE Kept'
  <2>1. /\ Walks(a) /\ pc' = [pc EXCEPT ![a] = "done"] /\ completed' = completed + 1
        /\ calls' = calls + 1 /\ UNCHANGED <<detached, callable, settled, aborting>>
    BY <1>6 DEF Finalize, Complete, Deliver
  <2>2. completed = 0 /\ calls = 0 /\ \A c \in Child : callable[c] # "dropped"
    BY <2>1, TheWalker, GoingOn DEF IInv
  <2>3. \A b \in Activation : pc'[b] = "idle" => ~detached'[b]
    BY <2>1 DEF Kept, IInv, TypeOK, TraversalTypeOK
  <2> QED
    BY <2>1, <2>2, <2>3 DEF Kept
<1>7. ASSUME NEW c \in Child, Arrive(c) PROVE Kept'
  <2>1. /\ callable[c] = "held" /\ callable' = [callable EXCEPT ![c] = "called"]
        /\ pc' = [pc EXCEPT ![c] = "walking"] /\ c \in Leaf /\ c \in Activation
        /\ UNCHANGED <<detached, completed, calls, aborting>>
    BY <1>7 DEF Arrive, Resume, Child, Activation
  <2>2. completed = 0 /\ \A d \in Child : callable[d] # "dropped"
    BY <2>1, GoingOn DEF Carries
  <2>3. pc[c] = "idle" /\ ~detached[c]
    BY <2>1 DEF Kept, IInv, TraversalInv, Detachment
  <2>4. /\ pc'[c] = "walking" /\ \A b \in Activation : b # c => pc'[b] = pc[b]
        /\ \A d \in Child : callable'[d] # "dropped"
    BY <2>1, <2>2 DEF IInv, TypeOK, TraversalTypeOK, Child
  <2>5. Carries(c)'
    BY <2>1, <2>3, <2>4 DEF Carries
  <2>6. \A b \in Activation : pc'[b] = "idle" => ~detached'[b]
    BY <2>1, <2>4 DEF Kept
  <2> QED
    BY <2>1, <2>2, <2>4, <2>5, <2>6 DEF Kept
<1>8. ASSUME NEW c \in Child, Fail(c) \/ Drop(c) PROVE Kept'
  <2>1. /\ callable[c] = "held" /\ callable' = [callable EXCEPT ![c] = "dropped"]
        /\ c \in Leaf /\ c \in Activation /\ UNCHANGED <<pc, detached, completed, calls>>
        /\ c \in aborting' \/ settled' = [settled EXCEPT ![c] = "dropped"]
    BY <1>8 DEF Fail, Drop, Forget, Child, Activation
  <2>2. completed = 0 /\ \A d \in Child : callable[d] # "dropped"
    BY <2>1, GoingOn DEF Carries
  <2>3. /\ callable'[c] = "dropped"
        /\ \A d \in Child : callable'[d] = "dropped" => d = c
        /\ settled'[c] \in Failure => c \in aborting'
    BY <2>1, <2>2 DEF IInv, TypeOK, TraversalTypeOK, Child, Failure
  <2> QED
    BY <2>1, <2>2, <2>3 DEF Kept
<1>9. ASSUME NEW c \in Child, Abort(c) PROVE Kept'
  <2>1. /\ c \in aborting /\ calls' = calls + 1 /\ UNCHANGED settled
        /\ UNCHANGED <<pc, detached, callable, completed>>
    BY <1>9 DEF Abort, Deliver, traversalVars
  <2>2. calls' = 1
    BY <2>1 DEF IInv, Delivered
  <2> QED
    BY <2>1, <2>2 DEF Kept, Carries
<1>10. CASE UNCHANGED vars
  BY <1>1, <1>10 DEF vars
<1> QED
  BY <1>2, <1>3, <1>4, <1>5, <1>6, <1>7, <1>8, <1>9, <1>10 DEF Next, Step, Walk, Finished

\* The three invariants together.
LEMMA KeptInvariant == Spec => [](IInv /\ ReadyKnown /\ Kept)
<1> QED
  BY InitIInv, NextIInv, InitKept, NextReadyKnown, NextKept, PTL DEF Spec

\* What a child that is ready with a failure spoils: its own box, and nothing else.  The
\* children that were started did settle with a value, before the next one was come to, and
\* the failure of one of them is told as it is.
LossConfined ==
  /\ calls <= 1
  /\ verdict.kind = "values" =>
       \A c \in Child : \/ settled[c] = "value" /\ box[c] = "value"
                        \/ settled[c] \in Failure /\ box[c] = "garbage" /\ c \in ready
  /\ verdict.kind \in Failure =>
       /\ verdict = [kind |-> settled[Last(visited)], of |-> {Last(visited)}]
       /\ Last(visited) \notin ready
  /\ \A c \in ToSet(visited) :
       c # Last(visited) /\ c \notin ready => settled[c] = "value" /\ box[c] = "value"

\* Without a hypothesis about what the ready children hold: the verdict of when_seq is wrong
\* about a child only if that child was ready with a failure.
THEOREM OnlyReadyFailuresAreLost == Spec => []LossConfined
<1>1. IInv /\ ReadyKnown => LossConfined
  <2> SUFFICES ASSUME IInv, ReadyKnown PROVE LossConfined
    OBVIOUS
  <2>1. calls \in {0, 1} /\ (calls = 0 => verdict.kind = "none")
    BY DEF IInv, Delivered, NoVerdict
  <2>2. ASSUME NEW c \in ToSet(visited), c # Last(visited) \/ (calls = 1 /\ completed = 1)
        PROVE  /\ c \in Child /\ callable[c] \in {"none", "called"}
               /\ \/ settled[c] = "value" /\ box[c] = "value"
                  \/ settled[c] \in Failure /\ box[c] = "garbage" /\ c \in ready
    <3>1. c \in Child
      BY LenProperties DEF IInv, TypeOK, TraversalTypeOK, ToSet, Child
    <3>2. callable[c] \in {"none", "called", "held", "dropped"}
      BY <3>1 DEF IInv, TypeOK, TraversalTypeOK, Child
    <3>3. callable[c] \in {"none", "called"}
      <4>1. CASE c # Last(visited)
        BY <3>1, <3>2, <4>1 DEF IInv, Latest
      <4>2. CASE completed = 1
        <5>1. callable[c] = "held" => Carries(c) /\ c \in Activation
          BY <3>1 DEF Carries, Child, Activation
        <5> QED
          BY <3>1, <3>2, <4>2, <5>1 DEF IInv, Over, TraversalInv, Ended
      <4> QED
        BY <2>2, <4>1, <4>2
    <3>4. CASE callable[c] = "called"
      BY <3>1, <3>4 DEF IInv, ChildrenTrue
    <3>5. CASE callable[c] = "none"
      <4>1. /\ settled[c] \in ReadyKinds /\ c \in ready
            /\ box[c] = IF settled[c] = "value" THEN "value" ELSE "garbage"
        BY <2>2, <3>1, <3>5 DEF IInv, ChildrenTrue, ReadyKnown
      <4>2. settled[c] = "value" \/ settled[c] \in Failure
        BY <4>1, WhenSeqAssumption DEF Kind
      <4> QED
        BY <3>1, <3>3, <4>1, <4>2 DEF Failure
    <3> QED
      BY <3>1, <3>3, <3>4, <3>5
  <2>3. CASE calls = 0
    BY <2>1, <2>2, <2>3 DEF LossConfined, Failure
  <2>4. CASE calls = 1 /\ completed = 1
    <3>1. ToSet(visited) = Child
      BY <2>4, AllVisited DEF IInv, TraversalInv, Ended, Child
    <3>2. verdict.kind = "values"
      BY <2>4 DEF IInv, Delivered, Over
    <3> QED
      BY <2>2, <2>4, <3>1, <3>2 DEF LossConfined, Failure
  <2>5. CASE calls = 1 /\ completed # 1
    <3>1. PICK c \in Child : /\ callable[c] = "dropped" /\ settled[c] \in Failure
                             /\ verdict = [kind |-> settled[c], of |-> {c}]
      BY <2>5 DEF IInv, Delivered
    <3>2. c = Last(visited) /\ c \notin ready
      BY <3>1 DEF IInv, Latest, ReadyKnown
    <3> QED
      BY <2>2, <2>5, <3>1, <3>2 DEF LossConfined, Failure
  <2> QED
    BY <2>1, <2>3, <2>4, <2>5
<1> QED
  BY <1>1, KeptInvariant, PTL

\* As long as nobody has to tell a failure on, the traversal is with one activation, or with
\* the child that will resume it, or it is over: at the end of the pack or at a child that
\* failed, and then the callback was called, or at a child that was dropped.
NeverLost ==
  aborting = {} =>
    \/ \E a \in Activation : /\ Carries(a)
                             /\ \A b \in Activation : Carries(b) => b = a
    \/ calls = 1
    \/ \E c \in Child : settled[c] = "dropped"

\* What the children have settled with, and what the callback was told, is not revised.
Final ==
  /\ \A c \in Child : settled[c] # "pending" => settled'[c] = settled[c]
  /\ calls = 1 => calls' = 1 /\ verdict' = verdict

\* The safety half of the promise that every call returns and that a verdict is drawn: the
\* traversal is never lost, whoever resumes it, and ends with a verdict that stays, unless
\* the promise of a child is dropped.
THEOREM TraversalIsNeverLost == Spec => []NeverLost /\ [][Final]_vars
<1>1. IInv /\ Kept => NeverLost
  <2> SUFFICES ASSUME IInv, Kept, aborting = {}, \A a \in Activation : ~Carries(a)
               PROVE  calls = 1 \/ \E c \in Child : settled[c] = "dropped"
    BY DEF NeverLost, IInv, TraversalInv, OneCarrier
  <2>1. completed = 1 \/ \E c \in Child : callable[c] = "dropped"
    BY DEF Kept
  <2>2. \A c \in Child : callable[c] = "dropped" => settled[c] \in Failure \cup {"dropped"}
    BY DEF IInv, ChildrenTrue
  <2> QED
    BY <2>1, <2>2 DEF Kept
<1>2. IInv /\ IInv' /\ [Next]_vars => [Final]_vars
  <2> SUFFICES ASSUME IInv, IInv', Next PROVE Final
    BY DEF Final
  <2>1. ASSUME UNCHANGED <<settled, calls, verdict>> PROVE Final
    BY <2>1 DEF Final
  <2>2. ASSUME NEW c \in Child, settled[c] = "pending", NEW k,
               settled' = [settled EXCEPT ![c] = k], UNCHANGED <<calls, verdict>>
        PROVE  Final
    BY <2>2 DEF Final, IInv, TypeOK
  <2>3. ASSUME NEW a \in Activation, Take(a) PROVE Final
    <3>1. /\ Walks(a) /\ ~AtEnd(a) /\ Element(a) \in Leaf /\ UNCHANGED <<calls, verdict>>
          /\ \E k \in ReadyKinds : settled' = [settled EXCEPT ![Element(a)] = k]
      BY <2>3 DEF Take, Visit
    <3>2. settled[Element(a)] = "pending" /\ Element(a) \in Child
      BY <3>1, Fresh DEF IInv, ChildrenTrue, Child
    <3> QED
      BY <2>2, <3>1, <3>2
  <2>4. ASSUME NEW c \in Child, Arrive(c) \/ Fail(c) \/ Drop(c) PROVE Final
    <3>1. settled[c] = "pending" /\ UNCHANGED <<calls, verdict>>
      BY <2>4 DEF Arrive, Fail, Drop, Resume, Forget, IInv, ChildrenTrue
    <3>2. \E k \in Kind \cup {"dropped"} : settled' = [settled EXCEPT ![c] = k]
      BY <2>4 DEF Arrive, Fail, Drop, Kind
    <3> QED
      BY <2>2, <3>1, <3>2
  <2>5. ASSUME NEW c \in Child, Abort(c) PROVE Final
    BY <2>5 DEF Abort, IInv, Delivered, Final
  <2>6. ASSUME NEW a \in Activation, Finalize(a) PROVE Final
    <3>1. Walks(a) /\ UNCHANGED settled
      BY <2>6 DEF Finalize, Complete
    <3>2. calls = 0
      BY <3>1, TheWalker, GoingOn DEF IInv
    <3> QED
      BY <3>1, <3>2 DEF Final
  <2>7. ASSUME NEW a \in Activation,
               Start(a) \/ ((Walk(a) \/ LeaveVisitor(a)) /\ UNCHANGED seqVars)
        PROVE  Final
    BY <2>1, <2>7 DEF Start, seqVars
  <2>8. CASE Finished
    BY <2>1, <2>8 DEF Finished, vars
  <2> QED
    BY <2>3, <2>4, <2>5, <2>6, <2>7, <2>8 DEF Next, Step
<1>3. Spec => []NeverLost
  BY <1>1, KeptInvariant, PTL
<1>4. Spec => [][Final]_vars
  BY <1>2, IInvariant, PTL DEF Spec
<1> QED
  BY <1>3, <1>4
-------------------------------------------------------------------------------
(* Calls that wait for the calls inside them *)

\* Element e is written behind the element of activation a; all are behind the beginning.
Behind(a, e) ==
  \E n \in 1 .. Len(Written) :
    /\ Written[n] = e
    /\ a \in Leaf => \E m \in 1 .. n - 1 : Written[m] = a

\* A visitor waits at an element behind its own one, and only that element is resumed inside
\* it.
Nesting ==
  /\ \A a \in Activation : pc[a] = "visitor" => Behind(a, Element(a))
  /\ \A b \in Activation : under[b] # Nobody =>
       b \in Leaf /\ pc[b] # "idle" /\ Behind(under[b], b)

\* It holds initially.
LEMMA InitNesting == Init => Nesting
  BY DEF Init, TraversalInit, Nesting

\* A new visitor has an element nobody came to before, and a resumption is for the element of
\* the visitor it is inside.
LEMMA NextNesting == IInv /\ Nesting /\ [Next]_vars => Nesting'
<1> SUFFICES ASSUME IInv, Nesting, [Next]_vars PROVE Nesting'
  OBVIOUS
<1>1. ASSUME NEW a \in Activation, pc[a] # "visitor", NEW h, MoveOn(a, h) PROVE Nesting'
  <2>1. UNCHANGED <<pc, under>> /\ \A b \in Activation : b # a => hierarchy'[b] = hierarchy[b]
    BY <1>1 DEF MoveOn, IInv, TypeOK, TraversalTypeOK
  <2>2. \A b \in Activation : pc[b] = "visitor" => Element(b)' = Element(b)
    BY <1>1, <2>1 DEF Element, Innermost
  <2> QED
    BY <2>1, <2>2 DEF Nesting, Behind
<1>2. ASSUME UNCHANGED <<hierarchy, under>>,
             \A b \in Activation : pc'[b] = "visitor" => pc[b] = "visitor",
             \A b \in Activation : pc'[b] = "idle" => pc[b] = "idle"
      PROVE  Nesting'
  <2>1. \A b \in Activation : Element(b)' = Element(b)
    BY <1>2 DEF Element, Innermost
  <2> QED
    BY <1>2, <2>1 DEF Nesting, Behind
<1>3. ASSUME NEW a \in Activation,
             Take(a) \/ Fork(a) \/ Ignore(a) \/ Ascend(a)
      PROVE  Nesting'
  <2>1. pc[a] # "visitor" /\ \E h : MoveOn(a, h)
    BY <1>3 DEF Take, Visit, Fork, Ignore, Ascend, Walks
  <2> QED
    BY <1>1, <2>1
<1>4. ASSUME NEW a \in Activation, Finalize(a) \/ Unwind(a) \/ LeaveVisitor(a) PROVE Nesting'
  <2>1. /\ \E k \in {"walking", "done"} : pc' = [pc EXCEPT ![a] = k]
        /\ UNCHANGED <<hierarchy, under>>
    BY <1>4 DEF Finalize, Complete, Unwind, LeaveVisitor
  <2>2. /\ \A b \in Activation : pc'[b] = "visitor" => pc[b] = "visitor"
        /\ \A b \in Activation : pc'[b] = "idle" => pc[b] = "idle"
    BY <2>1 DEF IInv, TypeOK, TraversalTypeOK
  <2> QED
    BY <1>2, <2>1, <2>2
<1>5. ASSUME NEW a \in Activation, Start(a) PROVE Nesting'
  <2>1. PICK e \in Leaf : e = Element(a)
    BY <1>5 DEF Start, Detach
  <2>2. /\ Walks(a) /\ ~AtEnd(a) /\ pc' = [pc EXCEPT ![a] = "visitor"] /\ under' = under
        /\ hierarchy' = [hierarchy EXCEPT ![e] = Onward(hierarchy[a])]
    BY <1>5, <2>1 DEF Start, Detach
  <2>3. /\ Len(visited) + 1 \in 1 .. Len(Written) /\ e = Written[Len(visited) + 1]
        /\ pc[e] = "idle" /\ e # a /\ Len(visited) \in Nat
    BY <2>1, <2>2, Fresh, LenProperties DEF IInv, TypeOK, TraversalTypeOK
  <2>4. Behind(a, e)
    <3>1. ASSUME a \in Leaf PROVE \E m \in 1 .. Len(visited) : Written[m] = a
      <4>1. a \in ToSet(visited)
        BY <2>2, <3>1 DEF Walks, IInv, TraversalInv, Detachment
      <4>2. PICK m \in DOMAIN visited : visited[m] = a
        BY <4>1 DEF ToSet
      <4>3. m \in 1 .. Len(visited)
        BY <4>2, LenProperties DEF IInv, TypeOK, TraversalTypeOK
      <4> QED
        BY <4>2, <4>3 DEF IInv, TraversalInv, Walked
    <3> QED
      BY <2>3, <3>1 DEF Behind
  <2>5. /\ pc'[a] = "visitor" /\ \A b \in Activation : b # a => pc'[b] = pc[b]
        /\ \A b \in Activation : b # e => hierarchy'[b] = hierarchy[b]
    BY <2>2 DEF IInv, TypeOK, TraversalTypeOK
  <2>6. Element(a)' = e /\ \A b \in Activation : b # e => Element(b)' = Element(b)
    BY <2>1, <2>3, <2>5 DEF Element, Innermost
  <2>7. ASSUME NEW b \in Activation, pc'[b] = "visitor" PROVE Behind(b, Element(b)')
    <3>1. CASE b = a
      BY <2>4, <2>6, <3>1
    <3>2. CASE b # a
      <4>1. pc[b] = "visitor" /\ b # e
        BY <2>3, <2>5, <2>7, <3>2
      <4> QED
        BY <2>6, <4>1 DEF Nesting
    <3> QED
      BY <3>1, <3>2
  <2>8. \A b \in Activation : pc'[b] = "idle" => pc[b] = "idle"
    BY <2>5
  <2> QED
    BY <2>2, <2>7, <2>8 DEF Nesting, Behind
<1>6. ASSUME NEW c \in Child, Arrive(c) PROVE Nesting'
  <2>1. /\ pc' = [pc EXCEPT ![c] = "walking"] /\ UNCHANGED hierarchy
        /\ c \in Leaf /\ c \in Activation
    BY <1>6 DEF Arrive, Resume, Child, Activation
  <2>2. PICK a \in {Nobody} \cup {b \in Activation : pc[b] = "visitor" /\ Element(b) = c} :
          under' = [under EXCEPT ![c] = a]
    BY <1>6 DEF Arrive, Resume
  <2>3. a = Nobody \/ Behind(a, c)
    BY <2>2 DEF Nesting
  <2>4. /\ pc'[c] = "walking" /\ \A b \in Activation : b # c => pc'[b] = pc[b]
        /\ under'[c] = a /\ \A b \in Activation : b # c => under'[b] = under[b]
    BY <2>1, <2>2 DEF IInv, TypeOK, TraversalTypeOK
  <2>5. \A b \in Activation : Element(b)' = Element(b)
    BY <2>1 DEF Element, Innermost
  <2>6. \A b \in Activation : under'[b] # Nobody =>
          b \in Leaf /\ pc'[b] # "idle" /\ Behind(under'[b], b)
    BY <2>1, <2>3, <2>4 DEF Nesting
  <2>7. \A b \in Activation : pc'[b] = "visitor" => Behind(b, Element(b)')
    BY <2>4, <2>5 DEF Nesting
  <2> QED
    BY <2>6, <2>7 DEF Nesting, Behind
<1>7. ASSUME NEW c \in Child, Fail(c) \/ Drop(c) \/ Abort(c) PROVE Nesting'
  <2>1. UNCHANGED <<pc, hierarchy, under>>
    BY <1>7 DEF Fail, Drop, Forget, Abort, traversalVars
  <2> QED
    BY <1>2, <2>1
<1>8. CASE UNCHANGED vars
  BY <1>2, <1>8 DEF vars
<1> QED
  BY <1>3, <1>4, <1>5, <1>6, <1>7, <1>8 DEF Next, Step, Walk, Finished

\* An activation that can take a step: one that walks in the pack, or finds its way out of
\* it, or is in a visitor whose calls have returned.
CanGoOn(a) ==
  \/ pc[a] = "walking" /\ (detached[a] \/ Placed(hierarchy[a], Len(visited)))
  \/ pc[a] = "visitor" /\ \A b \in Activation : under[b] = a => pc[b] = "done"

SomebodyGoesOn == AllReturned \/ \E a \in Activation : CanGoOn(a)

\* Among natural numbers there is a least one.
LEMMA LeastNumber ==
  ASSUME NEW S \in SUBSET Nat, S # {}
  PROVE  \E k \in S : \A i \in S : k <= i
<1> DEFINE R == OpToRel(<, Nat)
<1>1. R = {p \in Nat \X Nat : p[1] < p[2]}
  BY DEF OpToRel
<1>2. IsWellFoundedOn(R, Nat)
  BY NatLessThanWellFounded
<1> HIDE DEF R
<1>3. PICK k \in S : \A i \in S : ~(<<i, k>> \in R)
  BY <1>2, WFMin
<1>4. ASSUME NEW i \in S, i < k PROVE <<i, k>> \in R
  BY <1>1, <1>4
<1>5. \A i \in S : i \in Nat /\ ~(i < k)
  BY <1>3, <1>4
<1>6. k \in Nat
  OBVIOUS
<1> QED
  BY <1>5, <1>6

\* The calls into the connection never wait for one another in a circle, however often a
\* child is resolved inside the call that starts it: as long as one of them has not returned,
\* one of them can go on.
THEOREM NobodyIsStuck == Spec => []SomebodyGoesOn
<1>1. IInv /\ Nesting => SomebodyGoesOn
  <2> SUFFICES ASSUME IInv, Nesting, ~AllReturned, \A a \in Activation : ~CanGoOn(a)
               PROVE  FALSE
    BY DEF SomebodyGoesOn
  <2>1. \A a \in Activation : pc[a] # "walking"
    BY DEF CanGoOn, Carries, IInv, TraversalInv, CarrierPlaced
  <2>2. ASSUME NEW a \in Activation, pc[a] = "visitor"
        PROVE  \E b \in Leaf : pc[b] = "visitor" /\ Behind(a, b)
    <3>1. PICK b \in Activation : under[b] = a /\ pc[b] # "done"
      BY <2>2 DEF CanGoOn
    <3>2. under[b] # Nobody
      BY <3>1, TraversalAssumption DEF Activation
    <3>3. b \in Leaf /\ pc[b] # "idle" /\ Behind(a, b)
      BY <3>1, <3>2 DEF Nesting
    <3> QED
      BY <2>1, <3>1, <3>3 DEF IInv, TypeOK, TraversalTypeOK
  <2> DEFINE S == {k \in Nat : \E n \in 1 .. Len(Written) :
                                  k = Len(Written) - n /\ pc[Written[n]] = "visitor"}
  <2>3. Written \in Seq(Leaf) /\ Len(Written) \in Nat /\ DOMAIN Written = 1 .. Len(Written)
    BY WrittenAssumption, LenProperties
  <2>4. ASSUME NEW a \in Activation, NEW b \in Leaf, pc[b] = "visitor", Behind(a, b)
        PROVE  \E n \in 1 .. Len(Written) :
                 /\ Written[n] = b /\ Len(Written) - n \in S
                 /\ a \in Leaf => \E m \in 1 .. n - 1 : Written[m] = a
    BY <2>3, <2>4 DEF Behind
  <2>5. S # {}
    <3>1. PICK a \in Activation : pc[a] = "visitor"
      BY <2>1 DEF AllReturned, IInv, TypeOK, TraversalTypeOK
    <3>2. PICK b \in Leaf : pc[b] = "visitor" /\ Behind(a, b)
      BY <2>2, <3>1
    <3> QED
      BY <2>4, <3>2
  <2>6. PICK k \in S : \A i \in S : k <= i
    <3>1. S \in SUBSET Nat
      OBVIOUS
    <3> HIDE DEF S
    <3> QED
      BY <2>5, <3>1, LeastNumber
  <2>7. PICK n \in 1 .. Len(Written) : k = Len(Written) - n /\ pc[Written[n]] = "visitor"
    BY <2>6
  <2>8. Written[n] \in Leaf /\ Written[n] \in Activation
    BY <2>3, <2>7, ElementOfSeq DEF Activation
  <2>9. PICK b \in Leaf : pc[b] = "visitor" /\ Behind(Written[n], b)
    BY <2>2, <2>7, <2>8
  <2> HIDE DEF S
  <2>10. \E i \in 1 .. Len(Written) :
           /\ Written[i] = b /\ Len(Written) - i \in S
           /\ \E m \in 1 .. i - 1 : Written[m] = Written[n]
    <3> DEFINE a == Written[n]
    <3>1. a \in Activation /\ a \in Leaf /\ Behind(a, b)
      BY <2>8, <2>9
    <3> HIDE DEF a
    <3>2. \E i \in 1 .. Len(Written) :
            /\ Written[i] = b /\ Len(Written) - i \in S
            /\ \E m \in 1 .. i - 1 : Written[m] = a
      BY <2>4, <2>9, <3>1
    <3> QED
      BY <3>2 DEF a
  <2>11. PICK i \in 1 .. Len(Written), m \in Nat :
           /\ m \in 1 .. i - 1 /\ Written[m] = Written[n]
           /\ Len(Written) - i \in S
    BY <2>10
  <2>12. /\ i \in Nat /\ m \in Nat /\ n \in Nat /\ m < i
         /\ m \in DOMAIN Written /\ n \in DOMAIN Written
    BY <2>3, <2>7, <2>11
  <2>13. m = n
    BY <2>11, <2>12, WrittenAssumption DEF IsInjective
  <2>14. k <= Len(Written) - i
    BY <2>6, <2>11
  <2> QED
    BY <2>3, <2>7, <2>12, <2>13, <2>14
<1> QED
  BY <1>1, InitIInv, NextIInv, InitNesting, NextNesting, PTL DEF Spec
=============================================================================
