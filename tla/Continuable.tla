------------------------------ MODULE Continuable ------------------------------
(***************************************************************************)
(* The life of continuable_base objects: creation, moves, conversions,     *)
(* chaining, connection, freezing, done() and destruction, in every order  *)
(* a program may call them (continuable-base.hpp, detail/core/base.hpp,    *)
(* detail/connection/connection.hpp, the operator>> and the order of       *)
(* connection-seq.hpp, and util::ownership).                               *)
(*                                                                         *)
(* What an object holds is given by its parts.  The roots of a part are    *)
(* the continuations that are started together.  A part that is to come    *)
(* later (the right side of operator>>, a continuable given to then or     *)
(* fail, a later child of when_seq) is started when the part before it has *)
(* delivered or, for fail, has failed.  It needs that all roots of one of  *)
(* several sets were started; the sets of a first part contain the empty   *)
(* one.  Likewise, delivers has the sets of roots which are enough for the *)
(* whole object to deliver.  Whether a part that was started does deliver  *)
(* is up to the program.                                                   *)
(*                                                                         *)
(* Two fields of an object are not in the code.  held records whether the  *)
(* program froze this object, or one that went into it, and never thawed   *)
(* it again; lost, whether a conversion, operator>>, then or fail took the *)
(* frozen state away since then.                                           *)
(***************************************************************************)
EXTENDS Naturals

CONSTANTS Handle,    \* the places that can hold a continuable object
          Root,      \* the continuations a program creates
          Gone       \* an empty place

VARIABLES obj,       \* the object in each place, or Gone
          fresh,     \* the roots that were not created yet
          waiting,   \* the parts of what was invoked that are to come later
          starts     \* how often each root was invoked

vars == <<obj, fresh, waiting, starts>>

\* A part is silent if its destruction starts nothing: it is no continuable, or is frozen.
Part == [roots : SUBSET Root, needs : SUBSET SUBSET Root, silent : BOOLEAN]

Object == [acquired : BOOLEAN, frozen : BOOLEAN, held : BOOLEAN, lost : BOOLEAN,
           parts : SUBSET Part, delivers : SUBSET SUBSET Root]

ASSUME ContinuableAssumption == Gone \notin Object

Live(h)     == obj[h] # Gone
Acquired(h) == Live(h) /\ obj[h].acquired

First(p) == {} \in p.needs

Roots(parts) == UNION {p.roots : p \in parts}

\* What an invocation of the object starts at once, and all it holds.
Immediate(o)  == Roots({p \in o.parts : First(p)})
Everything(o) == Roots(o.parts)

\* One of the sets of A, and then one of the sets of B.
Both(A, B) == {S \cup T : S \in A, T \in B}

\* What consume() leaves behind: the data is gone and the ownership released, so
\* nobody may ask for the flags any more (assert_acquired).
Husk == [acquired |-> FALSE, frozen |-> FALSE, held |-> FALSE, lost |-> FALSE,
         parts |-> {}, delivers |-> {}]

Start(roots) == starts' = [r \in Root |-> IF r \in roots THEN starts[r] + 1 ELSE starts[r]]

\* invoke_continuation: the first parts are started, the others wait for their turn.
Invoke(o) == /\ Start(Immediate(o))
             /\ waiting' = waiting \cup {p \in o.parts : ~First(p)}

\* The data of an object is destroyed without an invocation.  The destructors of
\* the continuables inside run, and start what is not frozen.
Discard(o) == /\ Start(Roots({p \in o.parts : ~p.silent}))
              /\ UNCHANGED waiting

TypeOK == /\ obj \in [Handle -> Object \cup {Gone}]
          /\ fresh \subseteq Root
          /\ waiting \subseteq Part
          /\ starts \in [Root -> Nat]

Init == /\ obj = [h \in Handle |-> Gone]
        /\ fresh = Root
        /\ waiting = {}
        /\ starts = [r \in Root |-> 0]
-------------------------------------------------------------------------------
\* make_continuable and its relatives.
Create(h, r) ==
  /\ ~Live(h) /\ r \in fresh
  /\ obj' = [obj EXCEPT ![h] =
       [acquired |-> TRUE, frozen |-> FALSE, held |-> FALSE, lost |-> FALSE,
        parts |-> {[roots |-> {r}, needs |-> {{}}, silent |-> TRUE]},
        delivers |-> {{r}}]]
  /\ fresh' = fresh \ {r}
  /\ UNCHANGED <<waiting, starts>>

Freeze(h, enabled) ==
  /\ Acquired(h)
  /\ obj' = [obj EXCEPT ![h].frozen = enabled, ![h].held = enabled, ![h].lost = FALSE]
  /\ UNCHANGED <<fresh, waiting, starts>>

\* Fault: the object moved from keeps its data.
ReplaceCopies(h, g, o) == /\ ~Live(g)
                          /\ obj' = [obj EXCEPT ![g] = o]

\* The object made from h replaces it, in a place of its own.
Replace(h, g, o) == /\ ~Live(g)
                    /\ obj' = [obj EXCEPT ![h] = Husk, ![g] = o]

\* The move constructor: data and ownership change place.
MoveTo(h, g) ==
  /\ Acquired(h)
  /\ Replace(h, g, obj[h])
  /\ UNCHANGED <<fresh, waiting, starts>>

\* The move assignment: what the target held is destroyed without being invoked,
\* whether or not it is frozen.
AssignTo(h, g) ==
  /\ h # g /\ Acquired(h) /\ Live(g)
  /\ Discard(obj[g])
  /\ obj' = [obj EXCEPT ![h] = Husk, ![g] = obj[h]]
  /\ UNCHANGED fresh

\* then, fail and next with a handler, and finish: the ownership is copied to the result.
\* A handler for errors may turn a failure into a result, which can come as soon as the
\* first parts were started.
Chained(o, recovers) ==
  [o EXCEPT !.delivers = IF recovers THEN @ \cup {Immediate(o)} ELSE @]

Chain(h, g) ==
  /\ Acquired(h)
  /\ \E recovers \in BOOLEAN : Replace(h, g, Chained(obj[h], recovers))
  /\ UNCHANGED <<fresh, waiting, starts>>

\* The converting constructors consume the data of the other object, and begin
\* with an ownership of their own.
Converted(o) == [o EXCEPT !.frozen = FALSE, !.lost = o.held]

Convert(h, g) ==
  /\ Acquired(h)
  /\ Replace(h, g, Converted(obj[h]))
  /\ UNCHANGED <<fresh, waiting, starts>>

\* Fault: a continuable is stored without being frozen.
StoredThawed(o) == {[p EXCEPT !.silent = ~First(p)] : p \in o.parts}

\* The parts of a continuable that is stored in another one: it is frozen.
Stored(o) == {[p EXCEPT !.silent = TRUE] : p \in o.parts}

\* The same, invoked when what comes before it has delivered one of the sets of A.
Behind(A, o) ==
  {[roots |-> Immediate(o), needs |-> A, silent |-> \A p \in Stored(o) : p.silent]}
    \cup {[p EXCEPT !.needs = Both(A, @)] : p \in {q \in Stored(o) : ~First(q)}}

\* What a connection delivers: one result of each child, or of one of them.
Delivers(l, r, strategy) ==
  IF strategy = "any" THEN l.delivers \cup r.delivers ELSE Both(l.delivers, r.delivers)

\* Fault: only the left ownership is kept.
ConnectedLeft(l, r, strategy) ==
  [acquired |-> l.acquired /\ r.acquired, frozen |-> l.frozen,
   held |-> l.held \/ r.held, lost |-> l.lost \/ r.lost,
   parts |-> Stored(l) \cup Stored(r), delivers |-> Delivers(l, r, strategy)]

\* operator&& and operator||: all children are started at once.  A connection of the same
\* strategy hands over its children (normalize), which are the same parts.
Connected(l, r, strategy) ==
  [acquired |-> l.acquired /\ r.acquired,
   frozen   |-> l.frozen \/ r.frozen,
   held     |-> l.held \/ r.held,
   lost     |-> l.lost \/ r.lost,
   parts    |-> Stored(l) \cup Stored(r),
   delivers |-> Delivers(l, r, strategy)]

\* when_all, when_any and when_seq over two continuables; when_seq starts the second one
\* when the first one has delivered.
Packed(l, r, strategy) ==
  [acquired |-> TRUE,
   frozen   |-> l.frozen \/ r.frozen,
   held     |-> l.held \/ r.held,
   lost     |-> l.lost \/ r.lost,
   parts    |-> Stored(l) \cup (IF strategy = "seq" THEN Behind(l.delivers, r) ELSE Stored(r)),
   delivers |-> Delivers(l, r, strategy)]

\* operator>>: left.freeze(right.is_frozen()), then left.then(...) keeps the right.
Sequenced(l, r) ==
  [l EXCEPT !.frozen = r.frozen,
            !.held = l.held \/ r.held,
            !.lost = l.lost \/ r.lost \/ l.held,
            !.parts = @ \cup Behind(l.delivers, r),
            !.delivers = Both(l.delivers, r.delivers)]

\* then(continuable): the right is frozen and kept by the handler (wrap_continuation).  The
\* ownership is copied from the left, and the frozen state of the right is lost.
FollowedBy(l, r) ==
  [l EXCEPT !.held = l.held \/ r.held,
            !.lost = l.lost \/ r.lost \/ r.held,
            !.parts = @ \cup Behind(l.delivers, r),
            !.delivers = Both(l.delivers, r.delivers)]

\* fail(continuable): the same for a failure of the left; done() is called on the right, and
\* the failure ends there, so the result delivers only what the left does.
RescuedBy(l, r) ==
  [l EXCEPT !.held = l.held \/ r.held,
            !.lost = l.lost \/ r.lost \/ r.held,
            !.parts = @ \cup Behind({Immediate(l)}, r)]

Join(h, k, g, o) ==
  /\ h # k /\ Acquired(h) /\ Acquired(k) /\ ~Live(g)
  /\ obj' = [obj EXCEPT ![h] = Husk, ![k] = Husk, ![g] = o]
  /\ UNCHANGED <<fresh, waiting, starts>>

Connect(h, k, g) ==
  \/ \E s \in {"all", "any"} : Join(h, k, g, Connected(obj[h], obj[k], s))
  \/ \E s \in {"all", "any", "seq"} : Join(h, k, g, Packed(obj[h], obj[k], s))

Sequence(h, k, g) == Join(h, k, g, Sequenced(obj[h], obj[k]))

ChainContinuable(h, k, g) == \/ Join(h, k, g, FollowedBy(obj[h], obj[k]))
                             \/ Join(h, k, g, RescuedBy(obj[h], obj[k]))

Done(h) ==
  /\ Acquired(h)
  /\ Invoke(obj[h])
  /\ obj' = [obj EXCEPT ![h] = Husk]
  /\ UNCHANGED fresh

\* Fault: the destructor never invokes.
DestroyDiscards(h) == /\ Live(h)
                      /\ Discard(obj[h])
                      /\ obj' = [obj EXCEPT ![h] = Gone]
                      /\ UNCHANGED fresh

\* The destructor.
Destroy(h) ==
  /\ Live(h)
  /\ IF obj[h].acquired /\ ~obj[h].frozen THEN Invoke(obj[h]) ELSE Discard(obj[h])
  /\ obj' = [obj EXCEPT ![h] = Gone]
  /\ UNCHANGED fresh

\* Whatever comes before the part was started.
InTurn(p) == \E S \in p.needs : \A r \in S : starts[r] > 0

\* What comes before it delivered, or failed in the case of fail: the handler, or the
\* traversal of when_seq, invokes the part.
Advance(p) == /\ p \in waiting /\ InTurn(p)
              /\ waiting' = waiting \ {p}
              /\ Start(p.roots)
              /\ UNCHANGED <<obj, fresh>>

\* It will not, and the part is destroyed: in which order the handlers behind a failure
\* die is left open.
Abandon(p) == /\ p \in waiting
              /\ waiting' = waiting \ {p}
              /\ Start(IF p.silent THEN {} ELSE p.roots)
              /\ UNCHANGED <<obj, fresh>>

Finished == /\ fresh = {} /\ waiting = {} /\ \A h \in Handle : ~Live(h)
            /\ UNCHANGED vars

Next ==
  \/ \E h \in Handle, r \in Root : Create(h, r)
  \/ \E h \in Handle, b \in BOOLEAN : Freeze(h, b)
  \/ \E h, g \in Handle : MoveTo(h, g) \/ AssignTo(h, g) \/ Chain(h, g) \/ Convert(h, g)
  \/ \E h, k, g \in Handle :
       Connect(h, k, g) \/ Sequence(h, k, g) \/ ChainContinuable(h, k, g)
  \/ \E h \in Handle : Done(h) \/ Destroy(h)
  \/ \E p \in waiting : Advance(p) \/ Abandon(p)
  \/ Finished

Spec == Init /\ [][Next]_vars
-------------------------------------------------------------------------------
\* However the objects are moved, chained and connected, no continuation is held by
\* two objects, or held after it was invoked; so each is invoked at most once
\* (release() in consume()).
Exclusive ==
  /\ \A h, g \in Handle :
       h # g /\ Live(h) /\ Live(g) => Everything(obj[h]) \cap Everything(obj[g]) = {}
  /\ \A h \in Handle : Live(h) =>
       \A r \in Everything(obj[h]) \cup Roots(waiting) \cup fresh : starts[r] = 0
  /\ \A r \in Root : starts[r] <= 1

\* freeze() lasts: a continuable that the program froze, or that one it froze went into, is
\* frozen.  Only a conversion, operator>>, and then and fail with a continuable may lose it.
FreezeLossConfined ==
  \A h \in Handle : Acquired(h) /\ obj[h].held => obj[h].frozen \/ obj[h].lost

\* Destroying or overwriting an object that is frozen starts none of the
\* continuations in it, be they children or parts that come later.
NoStartOnDestruction ==
  [][\A h \in Handle :
       /\ Live(h) /\ obj[h].frozen
       /\ Destroy(h) \/ \E g \in Handle : AssignTo(g, h)
       => starts' = starts]_vars

\* Destroying an object that was never frozen starts the first parts of what it holds, for
\* the first time, and nothing else; the later parts are kept until it is their turn.
StartOnDestruction ==
  [][\A h \in Handle :
       Destroy(h) /\ Acquired(h) /\ ~obj[h].held
       => /\ \A r \in Root : starts'[r] = IF r \in Immediate(obj[h]) THEN 1 ELSE starts[r]
          /\ {p \in obj[h].parts : ~First(p)} \subseteq waiting']_vars
===============================================================================
