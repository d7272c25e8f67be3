--------------------------- MODULE ContinuableProofs ---------------------------
(***************************************************************************)
(* The safety of the life of continuables, for any places, any number of   *)
(* continuations and every order of the operations of a program.           *)
(***************************************************************************)
EXTENDS Continuable, TLAPS

\* No continuation is in two parts.
AllApart(parts) == \A p, q \in parts : p # q => p.roots \cap q.roots = {}

\* Whatever is stored in another continuable is frozen.
AllSilent(parts) == \A p \in parts : p.silent

\* The flags: nothing is frozen unless the program froze it, and what it froze is, or
\* lost it to an operation that is known to lose it.
FlagsTrue(o) == /\ o.frozen => o.held
                /\ o.acquired /\ o.held => o.frozen \/ o.lost

\* An object whose data was consumed holds nothing any more; any other one has something to
\* start, and delivers nothing before it was started.
HollowAfterUse(o) == /\ ~o.acquired => Everything(o) = {}
                     /\ o.acquired => Immediate(o) # {}
                     /\ {} \notin o.delivers

Sound(o) == /\ o \in Object
            /\ AllApart(o.parts)
            /\ AllSilent(o.parts)
            /\ FlagsTrue(o)
            /\ HollowAfterUse(o)

ObjectsSound == \A h \in Handle : Live(h) => Sound(obj[h])

\* A continuation that was not created yet, is in an object, or is in a later part of what
\* was invoked, is in one of those only, and was not invoked.
Apart == /\ \A h, g \in Handle :
              h # g /\ Live(h) /\ Live(g) => Everything(obj[h]) \cap Everything(obj[g]) = {}
         /\ \A h \in Handle :
              Live(h) => Everything(obj[h]) \cap (fresh \cup Roots(waiting)) = {}
         /\ fresh \cap Roots(waiting) = {}
         /\ AllApart(waiting)

Unstarted == /\ \A h \in Handle : Live(h) => \A r \in Everything(obj[h]) : starts[r] = 0
             /\ \A r \in fresh \cup Roots(waiting) : starts[r] = 0
             /\ \A r \in Root : starts[r] <= 1

IInv == TypeOK /\ ObjectsSound /\ Apart /\ Unstarted /\ AllSilent(waiting)
-------------------------------------------------------------------------------
(* What the operations make of sound objects *)

\* The continuations in a set of parts.
LEMMA RootsOfParts ==
  /\ Roots({}) = {}
  /\ \A p : Roots({p}) = p.roots
  /\ \A a, b : Roots(a \cup b) = Roots(a) \cup Roots(b)
  /\ \A a, r : r \in Roots(a) <=> \E p \in a : r \in p.roots
<1> QED
  BY DEF Roots

\* The continuations in those parts that are started first.
LEMMA RootsOfFirst ==
  \A a, r : r \in Roots({p \in a : First(p)}) <=> \E p \in a : First(p) /\ r \in p.roots
<1> QED
  BY DEF Roots

\* consume() leaves a sound object without continuations.
LEMMA HuskSound == Sound(Husk) /\ Everything(Husk) = {}
<1> QED
  BY RootsOfParts DEF Husk, Sound, Object, AllApart, AllSilent, FlagsTrue, HollowAfterUse,
     Everything

\* What an object holds is a set of continuations.
LEMMA RootsOfObject ==
  ASSUME NEW o, Sound(o)
  PROVE  Immediate(o) \subseteq Everything(o) /\ Everything(o) \subseteq Root
<1> QED
  BY RootsOfParts DEF Sound, Object, Part, Everything, Immediate

\* The parts of a continuable that is stored are those of the continuable, and silent.
LEMMA StoredParts ==
  ASSUME NEW o, Sound(o)
  PROVE  /\ Stored(o) \subseteq Part
         /\ AllApart(Stored(o)) /\ AllSilent(Stored(o))
         /\ Roots(Stored(o)) = Everything(o)
         /\ Roots({p \in Stored(o) : First(p)}) = Immediate(o)
<1> DEFINE Silenced(p) == [p EXCEPT !.silent = TRUE]
<1>1. \A p \in o.parts : /\ Silenced(p) \in Part
                         /\ Silenced(p).silent
                         /\ Silenced(p).roots = p.roots /\ Silenced(p).needs = p.needs
  BY DEF Sound, Object, Part
<1>2. /\ \A p \in o.parts : Silenced(p) \in Stored(o)
      /\ \A q \in Stored(o) : \E p \in o.parts : q = Silenced(p)
  BY DEF Stored
<1> HIDE DEF Silenced
<1>3. AllApart(Stored(o)) /\ AllSilent(Stored(o)) /\ Stored(o) \subseteq Part
  BY <1>1, <1>2 DEF AllApart, AllSilent, Sound
<1>4. Roots(Stored(o)) = Everything(o)
  <2>1. \A r : (\E q \in Stored(o) : r \in q.roots) <=> \E p \in o.parts : r \in p.roots
    BY <1>1, <1>2
  <2>2. \A r : r \in Roots(Stored(o)) <=> r \in Roots(o.parts)
    BY <2>1, RootsOfParts
  <2> QED
    BY <2>2 DEF Everything
<1>5. Roots({p \in Stored(o) : First(p)}) = Immediate(o)
  <2>1. \A r : (\E q \in Stored(o) : First(q) /\ r \in q.roots)
               <=> \E p \in o.parts : First(p) /\ r \in p.roots
    BY <1>1, <1>2 DEF First
  <2>2. \A r : r \in Roots({q \in Stored(o) : First(q)})
               <=> r \in Roots({p \in o.parts : First(p)})
    BY <2>1, RootsOfFirst
  <2> QED
    BY <2>2 DEF Immediate
<1> QED
  BY <1>3, <1>4, <1>5

\* What comes after something that is not nothing is not nothing.
LEMMA BothSets ==
  ASSUME NEW A \in SUBSET SUBSET Root, NEW B \in SUBSET SUBSET Root
  PROVE  /\ Both(A, B) \in SUBSET SUBSET Root
         /\ {} \notin A => {} \notin Both(A, B)
<1> QED
  BY DEF Both

\* The parts of a continuable that comes later: none of them is a first one.
LEMMA BehindParts ==
  ASSUME NEW o, Sound(o), NEW A \in SUBSET SUBSET Root, {} \notin A
  PROVE  /\ Behind(A, o) \subseteq Part
         /\ AllApart(Behind(A, o)) /\ AllSilent(Behind(A, o))
         /\ Roots(Behind(A, o)) = Everything(o)
         /\ \A p \in Behind(A, o) : ~First(p)
<1> DEFINE Later == {q \in Stored(o) : ~First(q)}
           Moved(p) == [p EXCEPT !.needs = Both(A, @)]
           first == [roots |-> Immediate(o), needs |-> A,
                     silent |-> \A p \in Stored(o) : p.silent]
<1>1. \A p \in Later : /\ Moved(p) \in Part
                       /\ Moved(p).roots = p.roots /\ Moved(p).silent
                       /\ {} \notin Moved(p).needs
  <2>1. \A p \in Later : p \in Part /\ p.silent
    BY StoredParts DEF AllSilent
  <2>2. \A p \in Later : Both(A, p.needs) \in SUBSET SUBSET Root /\ {} \notin Both(A, p.needs)
    BY <2>1, BothSets DEF Part
  <2> QED
    BY <2>1, <2>2 DEF Part
<1>2. /\ first \in Part /\ first.roots = Immediate(o) /\ first.silent
      /\ {} \notin first.needs
  BY StoredParts, RootsOfObject DEF Part, AllSilent
<1>3. /\ first \in Behind(A, o)
      /\ \A p \in Later : Moved(p) \in Behind(A, o)
      /\ \A q \in Behind(A, o) : q = first \/ \E p \in Later : q = Moved(p)
  BY DEF Behind
<1>4. /\ Everything(o) = Immediate(o) \cup Roots(Later)
      /\ \A p \in Later : Immediate(o) \cap p.roots = {}
      /\ \A p, q \in Later : p # q => p.roots \cap q.roots = {}
  <2>1. Stored(o) = {p \in Stored(o) : First(p)} \cup Later
    OBVIOUS
  <2>2. Roots(Stored(o)) = Everything(o) /\ Roots({p \in Stored(o) : First(p)}) = Immediate(o)
    BY StoredParts
  <2>3. Everything(o) = Immediate(o) \cup Roots(Later)
    BY <2>1, <2>2, RootsOfParts
  <2>4. \A p, q \in Stored(o) : p # q => p.roots \cap q.roots = {}
    BY StoredParts DEF AllApart
  <2>5. \A p \in Later : \A q \in {x \in Stored(o) : First(x)} : q.roots \cap p.roots = {}
    BY <2>4
  <2>6. \A p \in Later : Immediate(o) \cap p.roots = {}
    BY <2>2, <2>5, RootsOfParts
  <2> QED
    BY <2>3, <2>4, <2>6
<1> HIDE DEF first, Later, Moved
<1>5. Behind(A, o) \subseteq Part /\ AllSilent(Behind(A, o))
  BY <1>1, <1>2, <1>3 DEF AllSilent
<1>6. AllApart(Behind(A, o))
  <2> SUFFICES ASSUME NEW x \in Behind(A, o), NEW y \in Behind(A, o), x # y
               PROVE  x.roots \cap y.roots = {}
    BY DEF AllApart
  <2>1. CASE x = first \/ y = first
    BY <1>1, <1>2, <1>3, <1>4, <2>1
  <2>2. CASE x # first /\ y # first
    <3>1. PICK p \in Later : x = Moved(p)
      BY <1>3, <2>2
    <3>2. PICK q \in Later : y = Moved(q)
      BY <1>3, <2>2
    <3> QED
      BY <1>1, <1>4, <3>1, <3>2
  <2> QED
    BY <2>1, <2>2
<1>7. Roots(Behind(A, o)) = Everything(o)
  <2>1. \A r : r \in Roots(Behind(A, o)) <=> r \in Immediate(o) \/ r \in Roots(Later)
    BY <1>1, <1>2, <1>3, RootsOfParts
  <2> QED
    BY <1>4, <2>1
<1>8. \A p \in Behind(A, o) : ~First(p)
  BY <1>1, <1>2, <1>3 DEF First
<1> QED
  BY <1>5, <1>6, <1>7, <1>8

\* Parts of two objects in one.
LEMMA PartsTogether ==
  ASSUME NEW a, NEW b, AllApart(a), AllApart(b), AllSilent(a), AllSilent(b),
         Roots(a) \cap Roots(b) = {}
  PROVE  AllApart(a \cup b) /\ AllSilent(a \cup b)
<1>1. \A p \in a, q \in b : p.roots \cap q.roots = {}
  BY RootsOfParts
<1> QED
  BY <1>1 DEF AllApart, AllSilent

\* A handler or finish() keeps what an object holds, and its flags.
LEMMA ChainedSound ==
  ASSUME NEW o, Sound(o), o.acquired, NEW b \in BOOLEAN
  PROVE  /\ Sound(Chained(o, b))
         /\ Everything(Chained(o, b)) = Everything(o)
<1> DEFINE d == IF b THEN o.delivers \cup {Immediate(o)} ELSE o.delivers
<1>1. Chained(o, b) = [o EXCEPT !.delivers = d]
  BY DEF Chained, Sound, Object
<1>2. d \in SUBSET SUBSET Root /\ {} \notin d
  BY RootsOfObject DEF Sound, Object, HollowAfterUse
<1> HIDE DEF d
<1> QED
  BY <1>1, <1>2 DEF Sound, Object, FlagsTrue, HollowAfterUse, Everything, Immediate

\* A conversion keeps what an object holds, and makes its loss of the frozen state known.
LEMMA ConvertedSound ==
  ASSUME NEW o, Sound(o)
  PROVE  /\ Sound(Converted(o))
         /\ Everything(Converted(o)) = Everything(o)
<1> QED
  BY DEF Converted, Sound, Object, FlagsTrue, HollowAfterUse, Everything, Immediate

\* What a connection delivers is not nothing.
LEMMA DeliversSets ==
  ASSUME NEW l, NEW r, Sound(l), Sound(r), NEW s
  PROVE  Delivers(l, r, s) \in SUBSET SUBSET Root /\ {} \notin Delivers(l, r, s)
<1> QED
  BY BothSets DEF Delivers, Sound, Object, HollowAfterUse

\* An object that is made of the parts of two others is sound, if its flags are.
LEMMA JoinedSound ==
  ASSUME NEW l, NEW r, Sound(l), Sound(r), l.acquired,
         Everything(l) \cap Everything(r) = {},
         NEW o, o \in Object, FlagsTrue(o), o.acquired, {} \notin o.delivers,
         NEW a, NEW b, o.parts = a \cup b,
         AllApart(a), AllSilent(a), AllApart(b), AllSilent(b),
         Roots(a) = Everything(l), Roots(b) = Everything(r),
         Immediate(l) \subseteq Immediate(o)
  PROVE  Sound(o) /\ Everything(o) = Everything(l) \cup Everything(r)
<1>1. AllApart(o.parts) /\ AllSilent(o.parts)
  BY PartsTogether
<1>2. Everything(o) = Everything(l) \cup Everything(r)
  BY RootsOfParts DEF Everything
<1>3. HollowAfterUse(o)
  BY DEF HollowAfterUse, Sound
<1> QED
  BY <1>1, <1>2, <1>3 DEF Sound

\* operator&& and operator|| lose nothing of what they connect.
LEMMA ConnectedSound ==
  ASSUME NEW l, NEW r, Sound(l), Sound(r), l.acquired, r.acquired,
         Everything(l) \cap Everything(r) = {}, NEW s
  PROVE  /\ Sound(Connected(l, r, s))
         /\ Everything(Connected(l, r, s)) = Everything(l) \cup Everything(r)
<1> DEFINE o == Connected(l, r, s)
<1>1. o.parts = Stored(l) \cup Stored(r) /\ o.acquired /\ o.delivers = Delivers(l, r, s)
  BY DEF Connected
<1>2. o \in Object /\ FlagsTrue(o)
  BY StoredParts, DeliversSets DEF Connected, Sound, Object, FlagsTrue
<1> HIDE DEF o
<1>3. Immediate(l) \subseteq Immediate(o)
  <2>1. \A x : x \in Immediate(l) => \E p \in Stored(l) : First(p) /\ x \in p.roots
    BY StoredParts, RootsOfFirst
  <2>2. \A x : x \in Immediate(o) <=> \E p \in o.parts : First(p) /\ x \in p.roots
    BY RootsOfFirst DEF Immediate
  <2> QED
    BY <1>1, <2>1, <2>2
<1>4. /\ AllApart(Stored(l)) /\ AllSilent(Stored(l)) /\ Roots(Stored(l)) = Everything(l)
      /\ AllApart(Stored(r)) /\ AllSilent(Stored(r)) /\ Roots(Stored(r)) = Everything(r)
      /\ {} \notin o.delivers
  <2>1. {} \notin Delivers(l, r, s)
    BY DeliversSets
  <2> QED
    BY <1>1, <2>1, StoredParts
<1>5. Sound(o) /\ Everything(o) = Everything(l) \cup Everything(r)
  BY <1>1, <1>2, <1>3, <1>4, JoinedSound
<1> QED
  BY <1>5 DEF o

\* when_all, when_any and when_seq lose nothing either.
LEMMA PackedSound ==
  ASSUME NEW l, NEW r, Sound(l), Sound(r), l.acquired, r.acquired,
         Everything(l) \cap Everything(r) = {}, NEW s
  PROVE  /\ Sound(Packed(l, r, s))
         /\ Everything(Packed(l, r, s)) = Everything(l) \cup Everything(r)
<1> DEFINE o == Packed(l, r, s)
           b == IF s = "seq" THEN Behind(l.delivers, r) ELSE Stored(r)
<1>1. o.parts = Stored(l) \cup b /\ o.acquired /\ o.delivers = Delivers(l, r, s)
  BY DEF Packed
<1>2. b \subseteq Part /\ AllApart(b) /\ AllSilent(b) /\ Roots(b) = Everything(r)
  BY StoredParts, BehindParts DEF Sound, Object, HollowAfterUse
<1>3. o \in Object /\ FlagsTrue(o)
  <2>1. o = [acquired |-> TRUE, frozen |-> l.frozen \/ r.frozen, held |-> l.held \/ r.held,
             lost |-> l.lost \/ r.lost, parts |-> Stored(l) \cup b,
             delivers |-> Delivers(l, r, s)]
    BY DEF Packed
  <2> HIDE DEF o, b
  <2> QED
    BY <1>2, <2>1, StoredParts, DeliversSets DEF Sound, Object, FlagsTrue
<1> HIDE DEF o, b
<1>4. Immediate(l) \subseteq Immediate(o)
  <2>1. \A x : x \in Immediate(l) => \E p \in Stored(l) : First(p) /\ x \in p.roots
    BY StoredParts, RootsOfFirst
  <2>2. \A x : x \in Immediate(o) <=> \E p \in o.parts : First(p) /\ x \in p.roots
    BY RootsOfFirst DEF Immediate
  <2> QED
    BY <1>1, <2>1, <2>2
<1>5. /\ AllApart(Stored(l)) /\ AllSilent(Stored(l)) /\ Roots(Stored(l)) = Everything(l)
      /\ {} \notin o.delivers
  <2>1. {} \notin Delivers(l, r, s)
    BY DeliversSets
  <2> QED
    BY <1>1, <2>1, StoredParts
<1>6. Sound(o) /\ Everything(o) = Everything(l) \cup Everything(r)
  BY <1>1, <1>2, <1>3, <1>4, <1>5, JoinedSound
<1> QED
  BY <1>6 DEF o

\* operator>>, then and fail with a continuable keep both of their parts; the right one is
\* not among those that are started first.
LEMMA KeptBehindSound ==
  ASSUME NEW l, NEW r, Sound(l), Sound(r), l.acquired, r.acquired,
         Everything(l) \cap Everything(r) = {},
         NEW o \in {Sequenced(l, r), FollowedBy(l, r), RescuedBy(l, r)}
  PROVE  /\ Sound(o)
         /\ Everything(o) = Everything(l) \cup Everything(r)
         /\ Immediate(o) = Immediate(l)
<1>1. PICK A \in {l.delivers, {Immediate(l)}} : o.parts = l.parts \cup Behind(A, r)
  BY DEF Sequenced, FollowedBy, RescuedBy, Sound, Object
<1>2. A \in SUBSET SUBSET Root /\ {} \notin A
  BY RootsOfObject DEF Sound, Object, HollowAfterUse
<1>3. PICK d \in {Both(l.delivers, r.delivers), l.delivers} : o.delivers = d
  BY DEF Sequenced, FollowedBy, RescuedBy, Sound, Object
<1>4. d \in SUBSET SUBSET Root /\ {} \notin d
  BY BothSets, RootsOfObject DEF Sound, Object, HollowAfterUse
<1>5. /\ Behind(A, r) \subseteq Part /\ AllApart(Behind(A, r)) /\ AllSilent(Behind(A, r))
      /\ Roots(Behind(A, r)) = Everything(r)
      /\ \A p \in Behind(A, r) : ~First(p)
  BY <1>2, BehindParts
<1>6. /\ o.acquired
      /\ o.held \in BOOLEAN /\ o.lost \in BOOLEAN /\ o.frozen \in BOOLEAN
      /\ FlagsTrue(o)
      /\ o = [acquired |-> o.acquired, frozen |-> o.frozen, held |-> o.held, lost |-> o.lost,
              parts |-> o.parts, delivers |-> o.delivers]
  <2>1. CASE o = Sequenced(l, r)
    BY <2>1 DEF Sequenced, Sound, Object, FlagsTrue
  <2>2. CASE o = FollowedBy(l, r)
    BY <2>2 DEF FollowedBy, Sound, Object, FlagsTrue
  <2>3. CASE o = RescuedBy(l, r)
    BY <2>3 DEF RescuedBy, Sound, Object, FlagsTrue
  <2> QED
    BY <2>1, <2>2, <2>3
<1>7. o \in Object
  BY <1>1, <1>3, <1>4, <1>5, <1>6 DEF Sound, Object
<1>8. Immediate(o) = Immediate(l)
  <2>1. {p \in o.parts : First(p)} = {p \in l.parts : First(p)}
    BY <1>1, <1>5
  <2> QED
    BY <2>1 DEF Immediate
<1>9. AllApart(l.parts) /\ AllSilent(l.parts) /\ Roots(l.parts) = Everything(l)
  BY DEF Sound, Everything
<1>10. Sound(o) /\ Everything(o) = Everything(l) \cup Everything(r)
  BY <1>1, <1>3, <1>4, <1>5, <1>6, <1>7, <1>8, <1>9, JoinedSound
<1> QED
  BY <1>8, <1>10
-------------------------------------------------------------------------------
(* What the steps of a program do to the objects *)

\* The invariant holds initially.
LEMMA InitIInv == Init => IInv
<1> QED
  BY RootsOfParts DEF Init, IInv, TypeOK, ObjectsSound, Apart, AllApart, Unstarted,
     AllSilent, Live

\* The invariant is preserved if continuations are only handed from objects to objects,
\* or created in one, each to one place.
LEMMA HandedOn ==
  ASSUME IInv, UNCHANGED <<waiting, starts>>, fresh' \subseteq fresh,
         obj' \in [Handle -> Object \cup {Gone}],
         \A x \in Handle : Live(x)' => Sound(obj'[x]),
         \A x \in Handle : Live(x)' =>
           \A r \in Everything(obj'[x]) :
             \/ r \in fresh \ fresh'
             \/ \E y \in Handle : Live(y) /\ r \in Everything(obj[y]),
         \A x, y \in Handle :
           x # y /\ Live(x)' /\ Live(y)' => Everything(obj'[x]) \cap Everything(obj'[y]) = {}
  PROVE  IInv'
<1>1. TypeOK' /\ AllSilent(waiting)'
  BY DEF IInv, TypeOK, AllSilent
<1>2. ObjectsSound'
  BY DEF ObjectsSound
<1>3. Apart'
  BY DEF IInv, Apart
<1>4. Unstarted'
  BY DEF IInv, Unstarted
<1> QED
  BY <1>1, <1>2, <1>3, <1>4 DEF IInv

\* Creation.
LEMMA CreateIInv ==
  ASSUME IInv, NEW h \in Handle, NEW r \in Root, Create(h, r)
  PROVE  IInv'
<1> DEFINE o == [acquired |-> TRUE, frozen |-> FALSE, held |-> FALSE, lost |-> FALSE,
                 parts |-> {[roots |-> {r}, needs |-> {{}}, silent |-> TRUE]},
                 delivers |-> {{r}}]
<1>1. Sound(o) /\ Everything(o) = {r}
  <2> DEFINE p == [roots |-> {r}, needs |-> {{}}, silent |-> TRUE]
  <2>1. p \in Part /\ First(p) /\ p.silent /\ p.roots = {r}
    BY DEF Part, First
  <2> HIDE DEF p
  <2>2. {x \in {p} : First(x)} = {p}
    BY <2>1
  <2>3. /\ o.parts = {p} /\ o.delivers = {{r}} /\ o.acquired /\ o \in Object
        /\ FlagsTrue(o)
    BY <2>1 DEF p, Object, FlagsTrue
  <2> HIDE DEF o
  <2>4. Everything(o) = {r} /\ Immediate(o) = {r}
    BY <2>1, <2>2, <2>3, RootsOfParts DEF Everything, Immediate
  <2> QED
    BY <2>1, <2>3, <2>4 DEF Sound, AllApart, AllSilent, HollowAfterUse
<1> HIDE DEF o
<1>2. /\ obj' = [obj EXCEPT ![h] = o] /\ r \in fresh /\ fresh' = fresh \ {r}
      /\ UNCHANGED <<waiting, starts>>
  BY DEF Create, o
<1> QED
  BY <1>1, <1>2, HandedOn DEF IInv, TypeOK, ObjectsSound, Apart, Live, Sound

\* freeze() and its reset.
LEMMA FreezeIInv ==
  ASSUME IInv, NEW h \in Handle, NEW b \in BOOLEAN, Freeze(h, b)
  PROVE  IInv'
<1> DEFINE p == obj[h]
           o == [p EXCEPT !.frozen = b, !.held = b, !.lost = FALSE]
<1>1. obj' = [obj EXCEPT ![h] = o] /\ UNCHANGED <<fresh, waiting, starts>>
  BY DEF Freeze, IInv, TypeOK
<1>2. Live(h) /\ Sound(p)
  BY DEF Freeze, Acquired, IInv, ObjectsSound
<1> HIDE DEF p
<1>3. /\ o \in Object /\ o.parts = p.parts /\ o.delivers = p.delivers
      /\ o.frozen = b /\ o.held = b /\ o.acquired = p.acquired
  BY <1>2 DEF Sound, Object
<1> HIDE DEF o
<1>4. Sound(o) /\ Everything(o) = Everything(p)
  BY <1>2, <1>3 DEF Sound, FlagsTrue, HollowAfterUse, Everything, Immediate
<1> USE <1>1, <1>2, <1>4 DEF IInv, TypeOK, ObjectsSound, Apart, Live, p
<1>5. obj' \in [Handle -> Object \cup {Gone}] /\ \A x \in Handle : Live(x)' => Sound(obj'[x])
  BY DEF Sound
<1>6. \A x \in Handle : Live(x)' => \A r \in Everything(obj'[x]) :
        \E y \in Handle : Live(y) /\ r \in Everything(obj[y])
  OBVIOUS
<1>7. \A x, y \in Handle :
        x # y /\ Live(x)' /\ Live(y)' => Everything(obj'[x]) \cap Everything(obj'[y]) = {}
  OBVIOUS
<1> QED
  BY <1>5, <1>6, <1>7, HandedOn

\* Moves, chaining and conversions: the new object holds what the old one held.
LEMMA ReplaceIInv ==
  ASSUME IInv, NEW h \in Handle, NEW g \in Handle, h # g, Live(h), NEW o,
         Sound(o), Everything(o) = Everything(obj[h]),
         obj' = [obj EXCEPT ![h] = Husk, ![g] = o], UNCHANGED <<fresh, waiting, starts>>
  PROVE  IInv'
<1>1. obj' \in [Handle -> Object \cup {Gone}] /\ \A x \in Handle : Live(x)' => Sound(obj'[x])
  BY HuskSound DEF IInv, TypeOK, ObjectsSound, Live, Sound
<1>2. \A x \in Handle : Live(x)' => \A r \in Everything(obj'[x]) :
        \E y \in Handle : Live(y) /\ r \in Everything(obj[y])
  BY HuskSound DEF IInv, TypeOK, Live
<1>3. \A x, y \in Handle :
        x # y /\ Live(x)' /\ Live(y)' => Everything(obj'[x]) \cap Everything(obj'[y]) = {}
  BY HuskSound DEF IInv, TypeOK, Apart, Live
<1> QED
  BY <1>1, <1>2, <1>3, HandedOn

\* Connections: the new object holds what both held.
LEMMA JoinIInv ==
  ASSUME IInv, NEW h \in Handle, NEW k \in Handle, NEW g \in Handle, NEW o, Join(h, k, g, o),
         Sound(o), Everything(o) = Everything(obj[h]) \cup Everything(obj[k])
  PROVE  IInv'
<1> USE DEF Join, Acquired
<1>1. obj' \in [Handle -> Object \cup {Gone}] /\ \A x \in Handle : Live(x)' => Sound(obj'[x])
  BY HuskSound DEF IInv, TypeOK, ObjectsSound, Live, Sound
<1>2. \A x \in Handle : Live(x)' => \A r \in Everything(obj'[x]) :
        \E y \in Handle : Live(y) /\ r \in Everything(obj[y])
  BY HuskSound DEF IInv, TypeOK, Live
<1>3. \A x, y \in Handle :
        x # y /\ Live(x)' /\ Live(y)' => Everything(obj'[x]) \cap Everything(obj'[y]) = {}
  BY HuskSound DEF IInv, TypeOK, Apart, Live
<1> QED
  BY <1>1, <1>2, <1>3, HandedOn

\* What is destroyed without an invocation starts nothing, since its parts are silent.
LEMMA DiscardStartsNothing ==
  ASSUME TypeOK, NEW o, Sound(o), Discard(o)
  PROVE  UNCHANGED <<waiting, starts>>
<1>1. {p \in o.parts : ~p.silent} = {}
  BY DEF Sound, AllSilent
<1> QED
  BY <1>1, RootsOfParts DEF Discard, Start, TypeOK

\* The data of an object is gone: it was destroyed, or handed on before.
LEMMA EmptiedIInv ==
  ASSUME IInv, NEW h \in Handle, NEW o \in {Husk, Gone},
         obj' = [obj EXCEPT ![h] = o], UNCHANGED <<fresh, waiting, starts>>
  PROVE  IInv'
<1>1. obj' \in [Handle -> Object \cup {Gone}] /\ \A x \in Handle : Live(x)' => Sound(obj'[x])
  BY HuskSound DEF IInv, TypeOK, ObjectsSound, Live, Sound
<1>2. \A x \in Handle : Live(x)' => \A r \in Everything(obj'[x]) :
        \E y \in Handle : Live(y) /\ r \in Everything(obj[y])
  BY HuskSound DEF IInv, TypeOK, Live
<1>3. \A x, y \in Handle :
        x # y /\ Live(x)' /\ Live(y)' => Everything(obj'[x]) \cap Everything(obj'[y]) = {}
  BY HuskSound DEF IInv, TypeOK, Apart, Live
<1> QED
  BY <1>1, <1>2, <1>3, HandedOn

\* done(), and the destructor of what is not frozen: what is started is in no object, and
\* what is to come later waits.
LEMMA InvokeIInv ==
  ASSUME IInv, NEW h \in Handle, Live(h), NEW o \in {Husk, Gone},
         Invoke(obj[h]), obj' = [obj EXCEPT ![h] = o], UNCHANGED fresh
  PROVE  IInv'
<1> DEFINE p == obj[h]
           later == {x \in p.parts : ~First(x)}
<1>1. /\ Sound(p) /\ later \subseteq Part /\ AllApart(later) /\ AllSilent(later)
      /\ Immediate(p) \cup Roots(later) = Everything(p)
      /\ Immediate(p) \cap Roots(later) = {}
  <2>1. Sound(p) /\ later \subseteq Part /\ AllApart(later) /\ AllSilent(later)
    BY DEF IInv, ObjectsSound, Sound, Object, AllApart, AllSilent
  <2>2. /\ \A r : r \in Roots(later) <=> \E x \in later : r \in x.roots
        /\ \A r : r \in Everything(p) <=> \E x \in p.parts : r \in x.roots
        /\ \A r : r \in Immediate(p) <=> \E x \in p.parts : First(x) /\ r \in x.roots
    BY RootsOfParts, RootsOfFirst DEF Everything, Immediate
  <2>3. Immediate(p) \cup Roots(later) = Everything(p)
    BY <2>2
  <2>4. Immediate(p) \cap Roots(later) = {}
    BY <2>1, <2>2 DEF Sound, AllApart
  <2> QED
    BY <2>1, <2>3, <2>4
<1>2. /\ starts' = [r \in Root |-> IF r \in Immediate(p) THEN starts[r] + 1 ELSE starts[r]]
      /\ waiting' = waiting \cup later
      /\ Roots(waiting') = Roots(waiting) \cup Roots(later)
  BY RootsOfParts DEF Invoke, Start
<1> HIDE DEF later
<1>3. /\ \A r \in Everything(p) : starts[r] = 0
      /\ Everything(p) \cap (fresh \cup Roots(waiting)) = {}
  BY DEF IInv, Unstarted, Apart
<1>4. \A x \in Handle : Live(x)' =>
        /\ Sound(obj'[x])
        /\ Everything(obj'[x]) = {} \/ (x # h /\ Live(x) /\ obj'[x] = obj[x])
  <2> SUFFICES ASSUME NEW x \in Handle, Live(x)'
               PROVE  /\ Sound(obj'[x])
                      /\ Everything(obj'[x]) = {} \/ (x # h /\ Live(x) /\ obj'[x] = obj[x])
    OBVIOUS
  <2>1. CASE x = h
    <3>1. obj'[x] = Husk
      BY <2>1 DEF IInv, TypeOK, Live
    <3> QED
      BY <3>1, HuskSound
  <2>2. CASE x # h
    <3>1. obj'[x] = obj[x] /\ Live(x)
      BY <2>2 DEF IInv, TypeOK, Live
    <3> QED
      BY <2>2, <3>1 DEF IInv, ObjectsSound
  <2> QED
    BY <2>1, <2>2
<1>5. \A x \in Handle \ {h} : Live(x) => Everything(obj[x]) \cap Everything(p) = {}
  BY DEF IInv, Apart
<1>6. TypeOK' /\ ObjectsSound' /\ AllSilent(waiting)'
  <2>1. obj' \in [Handle -> Object \cup {Gone}]
    BY HuskSound DEF IInv, TypeOK, Sound
  <2>2. starts' \in [Root -> Nat]
    BY <1>2 DEF IInv, TypeOK
  <2>3. AllSilent(waiting')
    BY <1>1, <1>2 DEF IInv, AllSilent
  <2> QED
    BY <1>1, <1>2, <1>4, <2>1, <2>2, <2>3 DEF IInv, TypeOK, ObjectsSound, AllSilent
<1>7. Apart'
  <2>1. \A x, y \in Handle : x # y /\ Live(x)' /\ Live(y)' =>
          Everything(obj'[x]) \cap Everything(obj'[y]) = {}
    BY <1>4 DEF IInv, Apart
  <2>2. \A x \in Handle : Live(x)' => Everything(obj'[x]) \cap (fresh \cup Roots(waiting')) = {}
    BY <1>1, <1>2, <1>4, <1>5 DEF IInv, Apart
  <2>3. fresh \cap Roots(waiting') = {}
    BY <1>1, <1>2, <1>3 DEF IInv, Apart
  <2>4. \A i, j \in waiting' : i # j => i.roots \cap j.roots = {}
    <3>1. \A i \in waiting, j \in later : i.roots \cap j.roots = {}
      <4>1. \A i \in waiting, j \in later :
              i.roots \subseteq Roots(waiting) /\ j.roots \subseteq Roots(later)
        BY RootsOfParts
      <4> QED
        BY <1>1, <1>3, <4>1
    <3> QED
      BY <1>1, <1>2, <3>1 DEF IInv, Apart, AllApart
  <2> QED
    BY <2>1, <2>2, <2>3, <2>4 DEF Apart, AllApart
<1>8. Unstarted'
  <2>1. \A x \in Handle : Live(x)' => \A r \in Everything(obj'[x]) : starts'[r] = 0
    <3>1. ASSUME NEW x \in Handle, Live(x)', NEW r \in Everything(obj'[x])
          PROVE  r \in Root /\ r \notin Immediate(p) /\ starts[r] = 0
      BY <1>1, <1>4, <1>5, <3>1, RootsOfObject DEF IInv, Unstarted
    <3> QED
      BY <1>2, <3>1
  <2>2. \A r \in fresh \cup Roots(waiting') : starts'[r] = 0
    <3>1. ASSUME NEW r \in fresh \cup Roots(waiting')
          PROVE  r \in Root /\ r \notin Immediate(p) /\ starts[r] = 0
      BY <1>1, <1>2, <1>3, <3>1, RootsOfParts DEF IInv, TypeOK, Unstarted, Part
    <3> QED
      BY <1>2, <3>1
  <2>3. \A r \in Root : starts'[r] <= 1
    BY <1>1, <1>2, <1>3 DEF IInv, TypeOK, Unstarted
  <2> QED
    BY <2>1, <2>2, <2>3 DEF Unstarted
<1> QED
  BY <1>6, <1>7, <1>8 DEF IInv

\* A part that was waiting is invoked, or destroyed.
LEMMA PartIInv ==
  ASSUME IInv, NEW i \in waiting, Advance(i) \/ Abandon(i)
  PROVE  IInv'
<1>1. /\ waiting' = waiting \ {i} /\ UNCHANGED <<obj, fresh>>
      /\ i.roots \subseteq Roots(waiting) /\ Roots(waiting') \subseteq Roots(waiting)
      /\ Roots(waiting') \cap i.roots = {}
  BY RootsOfParts DEF Advance, Abandon, IInv, Apart, AllApart
<1>2. PICK started \in {{}, i.roots} :
        starts' = [r \in Root |-> IF r \in started THEN starts[r] + 1 ELSE starts[r]]
  BY DEF Advance, Abandon, Start
<1>3. TypeOK' /\ ObjectsSound' /\ AllSilent(waiting)' /\ Apart'
  <2>1. starts' \in [Root -> Nat]
    BY <1>2 DEF IInv, TypeOK
  <2>2. Apart'
    BY <1>1 DEF IInv, Apart, AllApart, Live
  <2>3. ObjectsSound'
    BY <1>1 DEF IInv, ObjectsSound, Live
  <2> QED
    BY <1>1, <2>1, <2>2, <2>3 DEF IInv, TypeOK, AllSilent
<1>4. Unstarted'
  <2>1. \A h \in Handle : Live(h)' => \A r \in Everything(obj'[h]) : starts'[r] = 0
    <3>1. ASSUME NEW h \in Handle, Live(h), NEW r \in Everything(obj[h])
          PROVE  r \in Root /\ r \notin started /\ starts[r] = 0
      BY <1>1, <3>1, RootsOfParts
         DEF IInv, Unstarted, Apart, ObjectsSound, Sound, Object, Part, Everything, Immediate
    <3> QED
      BY <1>1, <1>2, <3>1 DEF Live
  <2>2. \A r \in fresh' \cup Roots(waiting') : starts'[r] = 0
    <3>1. ASSUME NEW r \in fresh \cup Roots(waiting')
          PROVE  r \in Root /\ r \notin started /\ starts[r] = 0
      BY <1>1, <3>1, RootsOfParts DEF IInv, TypeOK, Unstarted, Apart, Part
    <3> QED
      BY <1>1, <1>2, <3>1
  <2>3. \A r \in Root : starts'[r] <= 1
    BY <1>1, <1>2 DEF IInv, TypeOK, Unstarted
  <2> QED
    BY <2>1, <2>2, <2>3 DEF Unstarted
<1> QED
  BY <1>3, <1>4 DEF IInv

\* Every step of a program preserves the invariant.
LEMMA NextIInv == IInv /\ [Next]_vars => IInv'
<1> SUFFICES ASSUME IInv, [Next]_vars PROVE IInv'
  OBVIOUS
<1>1. \A h \in Handle : Live(h) => Sound(obj[h])
  BY DEF IInv, ObjectsSound
<1>2. ASSUME NEW h \in Handle, NEW r \in Root, Create(h, r) PROVE IInv'
  BY <1>2, CreateIInv
<1>3. ASSUME NEW h \in Handle, NEW b \in BOOLEAN, Freeze(h, b) PROVE IInv'
  BY <1>3, FreezeIInv
<1>4. ASSUME NEW h \in Handle, NEW g \in Handle, MoveTo(h, g) PROVE IInv'
  BY <1>1, <1>4, ReplaceIInv DEF MoveTo, Replace, Acquired
<1>5. ASSUME NEW h \in Handle, NEW g \in Handle, AssignTo(h, g) PROVE IInv'
  BY <1>1, <1>5, DiscardStartsNothing, ReplaceIInv DEF AssignTo, Acquired, IInv
<1>6. ASSUME NEW h \in Handle, NEW g \in Handle, Chain(h, g) PROVE IInv'
  <2>1. PICK b \in BOOLEAN : Replace(h, g, Chained(obj[h], b))
    BY <1>6 DEF Chain
  <2> DEFINE o == Chained(obj[h], b)
  <2>2. Live(h) /\ obj[h].acquired /\ h # g
    BY <1>6, <2>1 DEF Chain, Replace, Acquired
  <2>3. Sound(o) /\ Everything(o) = Everything(obj[h])
    BY <1>1, <2>2, ChainedSound
  <2>4. obj' = [obj EXCEPT ![h] = Husk, ![g] = o] /\ UNCHANGED <<fresh, waiting, starts>>
    BY <1>6, <2>1 DEF Chain, Replace
  <2> HIDE DEF o
  <2> QED
    BY <2>2, <2>3, <2>4, ReplaceIInv
<1>7. ASSUME NEW h \in Handle, NEW g \in Handle, Convert(h, g) PROVE IInv'
  BY <1>1, <1>7, ReplaceIInv, ConvertedSound DEF Convert, Replace, Acquired
<1>8. ASSUME NEW h \in Handle, NEW k \in Handle, NEW g \in Handle, Connect(h, k, g)
      PROVE  IInv'
  <2>1. /\ h # k /\ Sound(obj[h]) /\ Sound(obj[k]) /\ obj[h].acquired /\ obj[k].acquired
        /\ Everything(obj[h]) \cap Everything(obj[k]) = {}
    BY <1>1, <1>8 DEF Connect, Join, Acquired, IInv, Apart
  <2>2. CASE \E s \in {"all", "any"} : Join(h, k, g, Connected(obj[h], obj[k], s))
    BY <2>1, <2>2, ConnectedSound, JoinIInv
  <2>3. CASE \E s \in {"all", "any", "seq"} : Join(h, k, g, Packed(obj[h], obj[k], s))
    BY <2>1, <2>3, PackedSound, JoinIInv
  <2> QED
    BY <1>8, <2>2, <2>3 DEF Connect
<1>9. ASSUME NEW h \in Handle, NEW k \in Handle, NEW g \in Handle,
             Sequence(h, k, g) \/ ChainContinuable(h, k, g)
      PROVE  IInv'
  <2>1. PICK o \in {Sequenced(obj[h], obj[k]), FollowedBy(obj[h], obj[k]),
                   RescuedBy(obj[h], obj[k])} : Join(h, k, g, o)
    BY <1>9 DEF Sequence, ChainContinuable
  <2>2. /\ h # k /\ Sound(obj[h]) /\ Sound(obj[k]) /\ obj[h].acquired /\ obj[k].acquired
        /\ Everything(obj[h]) \cap Everything(obj[k]) = {}
    BY <1>1, <2>1 DEF Join, Acquired, IInv, Apart
  <2> QED
    BY <2>1, <2>2, KeptBehindSound, JoinIInv
<1>10. ASSUME NEW h \in Handle, Done(h) PROVE IInv'
  BY <1>10, InvokeIInv DEF Done, Acquired
<1>11. ASSUME NEW h \in Handle, Destroy(h) PROVE IInv'
  BY <1>1, <1>11, InvokeIInv, DiscardStartsNothing, EmptiedIInv DEF Destroy, IInv
<1>12. ASSUME NEW p \in waiting, Advance(p) \/ Abandon(p) PROVE IInv'
  BY <1>12, PartIInv
<1>13. CASE UNCHANGED vars
  BY <1>13 DEF vars, IInv, TypeOK, ObjectsSound, Apart, AllApart, Unstarted, AllSilent, Live
<1> QED
  BY <1>2, <1>3, <1>4, <1>5, <1>6, <1>7, <1>8, <1>9, <1>10, <1>11, <1>12, <1>13
     DEF Next, Finished

\* It is an invariant of the specification.
LEMMA IInvariant == Spec => []IInv
<1> QED
  BY InitIInv, NextIInv, PTL DEF Spec
-------------------------------------------------------------------------------
\* Every object, and every variable, keeps the form the operations give it.
THEOREM TypeCorrect == Spec => []TypeOK
<1> QED
  BY IInvariant, PTL DEF IInv

\* No continuation is held twice or held after its invocation; each is invoked once at
\* most, whatever a program does with the continuables.
THEOREM ContinuationsAreExclusive == Spec => []Exclusive
<1>1. IInv => Exclusive
  BY DEF IInv, Apart, Unstarted, Exclusive
<1> QED
  BY <1>1, IInvariant, PTL

\* freeze() lasts, unless a conversion, operator>>, or then or fail with a continuable undoes
\* it.
THEOREM FreezeLasts == Spec => []FreezeLossConfined
<1>1. IInv => FreezeLossConfined
  BY DEF IInv, ObjectsSound, Sound, FlagsTrue, Acquired, FreezeLossConfined
<1> QED
  BY <1>1, IInvariant, PTL

\* A frozen object is destroyed and overwritten without starting anything.
THEOREM FrozenDiesSilently == Spec => NoStartOnDestruction
<1>1. ASSUME IInv, NEW h \in Handle, Live(h), obj[h].frozen,
             Destroy(h) \/ \E g \in Handle : AssignTo(g, h)
      PROVE  starts' = starts
  <2>1. Sound(obj[h]) /\ Discard(obj[h])
    BY <1>1 DEF IInv, ObjectsSound, Destroy, AssignTo
  <2> QED
    BY <1>1, <2>1, DiscardStartsNothing DEF IInv
<1>2. IInv => \A h \in Handle :
        /\ Live(h) /\ obj[h].frozen
        /\ Destroy(h) \/ \E g \in Handle : AssignTo(g, h)
        => starts' = starts
  BY <1>1
<1> QED
  BY <1>2, IInvariant, PTL DEF NoStartOnDestruction

\* The destructor of an object that was never frozen starts the first parts of it, for the
\* first time, and nothing else; the later parts are kept until it is their turn.
THEOREM UnfrozenDiesInvoked == Spec => StartOnDestruction
<1>1. ASSUME IInv, NEW h \in Handle, Destroy(h), Acquired(h), ~obj[h].held
      PROVE  /\ \A r \in Root : starts'[r] = IF r \in Immediate(obj[h]) THEN 1 ELSE starts[r]
             /\ {p \in obj[h].parts : ~First(p)} \subseteq waiting'
  <2>1. Sound(obj[h]) /\ Invoke(obj[h])
    BY <1>1 DEF IInv, ObjectsSound, Sound, FlagsTrue, Destroy, Acquired
  <2>2. \A r \in Immediate(obj[h]) : starts[r] = 0
    BY <1>1, <2>1, RootsOfObject DEF IInv, Unstarted, Acquired
  <2> QED
    BY <2>1, <2>2 DEF Invoke, Start
<1>2. IInv => \A h \in Handle :
        Destroy(h) /\ Acquired(h) /\ ~obj[h].held
        => /\ \A r \in Root : starts'[r] = IF r \in Immediate(obj[h]) THEN 1 ELSE starts[r]
           /\ {p \in obj[h].parts : ~First(p)} \subseteq waiting'
  BY <1>1
<1> QED
  BY <1>2, IInvariant, PTL DEF StartOnDestruction
-------------------------------------------------------------------------------
(* Nothing is forgotten *)

\* A continuation that can still be started: it was not created yet, is in an object, or
\* in a later part of one that was invoked.
Held(r) == \/ r \in fresh \cup Roots(waiting)
           \/ \E h \in Handle : Live(h) /\ r \in Everything(obj[h])

\* What the program throws away: the object is overwritten, or destroyed while it is
\* frozen, or what comes before a later part did not lead to it.
ThrownAway(r) ==
  \/ \E h, g \in Handle : AssignTo(g, h) /\ r \in Everything(obj[h])
  \/ \E h \in Handle : Destroy(h) /\ Acquired(h) /\ obj[h].frozen /\ r \in Everything(obj[h])
  \/ \E p \in waiting : Abandon(p) /\ r \in p.roots

\* A continuation that can be started stays so until it is started, the one time, or
\* thrown away: no move, conversion, chain or connection loses one.
NothingForgotten ==
  [][\A r \in Root : Held(r) => Held(r)' \/ starts'[r] = 1 \/ ThrownAway(r)]_vars

\* A continuation stays where it is, if only other places change.
LEMMA StaysHeld ==
  ASSUME NEW r, UNCHANGED <<fresh, waiting>>,
         \A h \in Handle : Live(h) /\ r \in Everything(obj[h]) =>
           \E g \in Handle : Live(g)' /\ r \in Everything(obj'[g]),
         Held(r)
  PROVE  Held(r)'
<1> QED
  BY DEF Held

\* A move, a chain or a conversion.
LEMMA ReplaceForgetsNothing ==
  ASSUME IInv, NEW h \in Handle, NEW g \in Handle, h # g, Live(h), ~Live(g), NEW o, o # Gone,
         Everything(o) = Everything(obj[h]),
         obj' = [obj EXCEPT ![h] = Husk, ![g] = o], UNCHANGED <<fresh, waiting>>,
         NEW r, Held(r)
  PROVE  Held(r)'
<1>1. Live(g)' /\ obj'[g] = o
  BY DEF IInv, TypeOK, Live
<1>2. \A x \in Handle \ {h, g} : obj'[x] = obj[x]
  BY DEF IInv, TypeOK
<1> QED
  BY <1>1, <1>2, StaysHeld DEF Live

\* A connection, a sequence, or a continuable given to then or fail.
LEMMA JoinForgetsNothing ==
  ASSUME IInv, NEW h \in Handle, NEW k \in Handle, NEW g \in Handle, NEW o, o # Gone,
         Join(h, k, g, o), Everything(o) = Everything(obj[h]) \cup Everything(obj[k]),
         NEW r, Held(r)
  PROVE  Held(r)'
<1>1. Live(g)' /\ obj'[g] = o /\ UNCHANGED <<fresh, waiting>>
  BY DEF IInv, TypeOK, Live, Join
<1>2. \A x \in Handle \ {h, k, g} : obj'[x] = obj[x]
  BY DEF IInv, TypeOK, Join
<1>3. ~Live(g)
  BY DEF Join
<1> QED
  BY <1>1, <1>2, <1>3, StaysHeld DEF Live

\* An invocation: what it does not start waits for its turn.
LEMMA InvokeForgetsNothing ==
  ASSUME IInv, NEW h \in Handle, Live(h), NEW o \in {Husk, Gone},
         Invoke(obj[h]), obj' = [obj EXCEPT ![h] = o], UNCHANGED fresh,
         NEW r \in Root, Held(r)
  PROVE  Held(r)' \/ starts'[r] = 1
<1>1. r \in Everything(obj[h]) => r \in Immediate(obj[h]) \/ r \in Roots(waiting')
  BY RootsOfParts, RootsOfFirst DEF Invoke, Everything, Immediate
<1>2. /\ \A x \in Handle \ {h} : obj'[x] = obj[x]
      /\ Roots(waiting) \subseteq Roots(waiting')
  BY RootsOfParts DEF IInv, TypeOK, Invoke
<1>3. CASE r \in Immediate(obj[h])
  BY <1>3, RootsOfObject DEF IInv, ObjectsSound, Unstarted, Invoke, Start
<1>4. CASE r \notin Immediate(obj[h])
  BY <1>1, <1>2, <1>4 DEF Held, Live
<1> QED
  BY <1>3, <1>4

\* No operation on continuables, and none of their destructors, forgets a continuation:
\* it is started, or kept, or the program threw it away.
THEOREM ContinuationsAreNotForgotten == Spec => NothingForgotten
<1> DEFINE Kept(r) == Held(r)' \/ starts'[r] = 1 \/ ThrownAway(r)
<1>1. ASSUME IInv, [Next]_vars, NEW r \in Root, Held(r)
      PROVE  Kept(r)
  <2> USE <1>1
  <2>1. /\ \A o : Sound(o) => o # Gone
        /\ \A h \in Handle : Live(h) => Sound(obj[h])
    BY ContinuableAssumption DEF IInv, ObjectsSound, Sound
  <2>2. ASSUME NEW h \in Handle, NEW s \in Root, Create(h, s) PROVE Kept(r)
    <3> DEFINE o == [acquired |-> TRUE, frozen |-> FALSE, held |-> FALSE, lost |-> FALSE,
                     parts |-> {[roots |-> {s}, needs |-> {{}}, silent |-> TRUE]},
                     delivers |-> {{s}}]
    <3>1. Everything(o) = {s} /\ o \in Object
      <4> DEFINE p == [roots |-> {s}, needs |-> {{}}, silent |-> TRUE]
      <4>1. p \in Part /\ p.roots = {s}
        BY DEF Part
      <4>2. o.parts = {p} /\ o \in Object
        BY <4>1 DEF Object
      <4> HIDE DEF p, o
      <4> QED
        BY <4>1, <4>2, RootsOfParts DEF Everything
    <3> HIDE DEF o
    <3>2. obj'[h] = o /\ Live(h)' /\ \A x \in Handle \ {h} : obj'[x] = obj[x]
      BY <2>2, <3>1, ContinuableAssumption DEF Create, IInv, TypeOK, Live, o
    <3>3. ~Live(h) /\ fresh' = fresh \ {s} /\ waiting' = waiting
      BY <2>2 DEF Create
    <3> QED
      BY <3>1, <3>2, <3>3 DEF Held, Live
  <2>3. ASSUME NEW h \in Handle, NEW b \in BOOLEAN, Freeze(h, b) PROVE Kept(r)
    <3> DEFINE p == obj[h]
               o == [p EXCEPT !.frozen = b, !.held = b, !.lost = FALSE]
    <3>1. Sound(p) /\ obj' = [obj EXCEPT ![h] = o] /\ UNCHANGED <<fresh, waiting>>
      BY <2>1, <2>3 DEF Freeze, Acquired, IInv, TypeOK
    <3>2. o \in Object /\ Everything(o) = Everything(p)
      BY <3>1 DEF Sound, Object, Everything, Immediate
    <3> HIDE DEF o
    <3>3. obj'[h] = o /\ Live(h)' /\ \A x \in Handle \ {h} : obj'[x] = obj[x]
      BY <3>1, <3>2, ContinuableAssumption DEF IInv, TypeOK, Live
    <3> QED
      BY <3>1, <3>2, <3>3, StaysHeld DEF Live
  <2>4. ASSUME NEW h \in Handle, NEW g \in Handle, MoveTo(h, g) \/ Chain(h, g) \/ Convert(h, g)
        PROVE  Kept(r)
    <3>1. Live(h) /\ Sound(obj[h]) /\ obj[h].acquired /\ ~Live(g) /\ h # g
      BY <2>1, <2>4 DEF MoveTo, Chain, Convert, Replace, Acquired
    <3>2. PICK o \in {obj[h], Chained(obj[h], TRUE), Chained(obj[h], FALSE),
                     Converted(obj[h])} :
            obj' = [obj EXCEPT ![h] = Husk, ![g] = o] /\ UNCHANGED <<fresh, waiting>>
      BY <2>4 DEF MoveTo, Chain, Convert, Replace
    <3>3. Sound(o) /\ Everything(o) = Everything(obj[h])
      BY <3>1, ChainedSound, ConvertedSound
    <3> QED
      BY <2>1, <3>1, <3>2, <3>3, ReplaceForgetsNothing
  <2>5. ASSUME NEW h \in Handle, NEW g \in Handle, AssignTo(h, g) PROVE Kept(r)
    <3>1. /\ Live(h) /\ Live(g) /\ h # g /\ UNCHANGED <<fresh, waiting>>
          /\ obj' = [obj EXCEPT ![h] = Husk, ![g] = obj[h]]
      BY <2>1, <2>5, DiscardStartsNothing DEF AssignTo, Acquired, IInv
    <3>2. CASE r \in Everything(obj[g])
      BY <2>5, <3>2 DEF ThrownAway
    <3>3. CASE r \notin Everything(obj[g])
      <4>1. obj'[g] = obj[h] /\ Live(g)' /\ \A x \in Handle \ {h, g} : obj'[x] = obj[x]
        BY <3>1 DEF IInv, TypeOK, Live
      <4> QED
        BY <3>1, <3>3, <4>1, StaysHeld DEF Live
    <3> QED
      BY <3>2, <3>3
  <2>6. ASSUME NEW h \in Handle, NEW k \in Handle, NEW g \in Handle,
               Connect(h, k, g) \/ Sequence(h, k, g) \/ ChainContinuable(h, k, g)
        PROVE  Kept(r)
    <3>1. /\ h # k /\ Sound(obj[h]) /\ Sound(obj[k]) /\ obj[h].acquired /\ obj[k].acquired
          /\ Everything(obj[h]) \cap Everything(obj[k]) = {}
      BY <2>1, <2>6 DEF Connect, Sequence, ChainContinuable, Join, Acquired, IInv, Apart
    <3>2. CASE \E s \in {"all", "any"} : Join(h, k, g, Connected(obj[h], obj[k], s))
      BY <2>1, <3>1, <3>2, ConnectedSound, JoinForgetsNothing
    <3>3. CASE \E s \in {"all", "any", "seq"} : Join(h, k, g, Packed(obj[h], obj[k], s))
      BY <2>1, <3>1, <3>3, PackedSound, JoinForgetsNothing
    <3>4. CASE Sequence(h, k, g) \/ ChainContinuable(h, k, g)
      <4>1. PICK o \in {Sequenced(obj[h], obj[k]), FollowedBy(obj[h], obj[k]),
                       RescuedBy(obj[h], obj[k])} : Join(h, k, g, o)
        BY <3>4 DEF Sequence, ChainContinuable
      <4> QED
        BY <2>1, <3>1, <4>1, KeptBehindSound, JoinForgetsNothing
    <3> QED
      BY <2>6, <3>2, <3>3, <3>4 DEF Connect
  <2>7. ASSUME NEW h \in Handle, Done(h) PROVE Kept(r)
    BY <2>7, InvokeForgetsNothing DEF Done, Acquired
  <2>8. ASSUME NEW h \in Handle, Destroy(h) PROVE Kept(r)
    <3>1. Live(h) /\ Sound(obj[h]) /\ obj' = [obj EXCEPT ![h] = Gone] /\ fresh' = fresh
      BY <2>1, <2>8 DEF Destroy
    <3>2. CASE obj[h].acquired /\ ~obj[h].frozen
      BY <2>8, <3>1, <3>2, InvokeForgetsNothing DEF Destroy
    <3>3. CASE ~(obj[h].acquired /\ ~obj[h].frozen)
      <4>1. UNCHANGED waiting
        BY <2>8, <3>3 DEF Destroy, Discard
      <4>2. \A x \in Handle \ {h} : obj'[x] = obj[x]
        BY <3>1 DEF IInv, TypeOK
      <4>3. CASE r \in Everything(obj[h])
        BY <2>8, <3>1, <3>3, <4>3 DEF ThrownAway, Acquired, Sound, HollowAfterUse
      <4>4. CASE r \notin Everything(obj[h])
        BY <3>1, <4>1, <4>2, <4>4, StaysHeld DEF Live
      <4> QED
        BY <4>3, <4>4
    <3> QED
      BY <3>2, <3>3
  <2>9. ASSUME NEW p \in waiting, Advance(p) \/ Abandon(p) PROVE Kept(r)
    <3>1. waiting' = waiting \ {p} /\ UNCHANGED <<obj, fresh>>
      BY <2>9 DEF Advance, Abandon
    <3>2. CASE r \notin p.roots
      BY <3>1, <3>2, RootsOfParts DEF Held, Live
    <3>3. CASE r \in p.roots /\ Abandon(p)
      BY <3>3 DEF ThrownAway
    <3>4. CASE r \in p.roots /\ Advance(p)
      BY <3>4, RootsOfParts DEF Advance, Start, IInv, Unstarted
    <3> QED
      BY <2>9, <3>2, <3>3, <3>4
  <2>10. CASE UNCHANGED vars
    BY <2>10 DEF vars, Held, Live
  <2> QED
    BY <2>2, <2>3, <2>4, <2>5, <2>6, <2>7, <2>8, <2>9, <2>10 DEF Next, Finished
<1>2. IInv /\ [Next]_vars =>
        \A r \in Root : Held(r) => Held(r)' \/ starts'[r] = 1 \/ ThrownAway(r)
  BY <1>1
<1> QED
  BY <1>2, IInvariant, PTL DEF NothingForgotten, Spec
=============================================================================
