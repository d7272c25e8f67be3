------------------------------- MODULE Traverse -------------------------------
(***************************************************************************)
(* map_pack and traverse_pack (detail/traversal/traverse.hpp), and the     *)
(* boxes of when_all and when_seq, which are built from them               *)
(* (detail/connection/connection-aggregated.hpp).                          *)
(*                                                                         *)
(* A pack is a tree of tuples, arrays and containers over elements.  An    *)
(* element is plain, or a continuable ("child") that will be resolved with *)
(* a number of values; boxes and values take the place of the children.    *)
(* Elements are known by where they stood in the arguments.  A container   *)
(* has a type apart from its elements: of is an element it could hold.     *)
(*                                                                         *)
(* The code decides by overload resolution what it enters.  is_effective   *)
(* asks whether the mapper can be called with all of a type (match), the   *)
(* traversal itself routes through what it cannot use (try_match).  The    *)
(* order in which a mapping calls its mapper is left open by C++, except   *)
(* inside of a container; nothing here depends on it.                      *)
(***************************************************************************)
EXTENDS Naturals, SequencesExt

CONSTANTS Width,    \* bound: the parts of a tuple, array or container
          Depth,    \* bound: how deeply a single argument is nested
          MaxYields \* bound: the values a child is resolved with

ASSUME TraverseAssumption == Width \in Nat \ {0} /\ Depth \in Nat /\ MaxYields \in Nat

VARIABLES args,     \* the arguments
          call,     \* what the program calls: "map" or the strategy of a connection
          phase,    \* how far the call is
          head,     \* the pack of boxes
          started,  \* the boxes whose continuables were started, in order
          filled,   \* the boxes that hold their values
          result    \* what map_pack returns, or the callback is invoked with

vars == <<args, call, phase, head, started, filled, result>>

Plain         == [is |-> "plain"]
Child(n)      == [is |-> "child", yields |-> n]
Tuple(parts)  == [is |-> "tuple", at |-> parts]
Array(parts)  == [is |-> "array", at |-> parts]
Container(type, parts) == [is |-> "container", of |-> type, at |-> parts]

Aggregate(n) == n.is \in {"tuple", "array", "container"}

\* What several values, or none, are wrapped in on their way to the parent.
Spread(parts) == [is |-> "spread", at |-> parts]
EmptySpread   == Spread(<<>>)
Void          == [is |-> "void"]

\* unpack: what a mapped element is on its own.
Unpacked(x) == IF x.is = "spread" THEN Tuple(x.at) ELSE x

\* Fault: a spread hands over its first value only.
UndecoratedFirst(x) ==
  IF x.is = "spread" THEN SubSeq(x.at, 1, IF x.at = <<>> THEN 0 ELSE 1) ELSE <<x>>

\* undecorate: what it is among others.
Undecorated(x) == IF x.is = "spread" THEN x.at ELSE <<x>>

\* map_spread: the values of spreads are inserted where the spreads are.
MapSpread(mapped) == FlattenSeq([i \in DOMAIN mapped |-> Undecorated(mapped[i])])

\* flat_tupelize_to, flat_arraylize_to: an aggregate that lost all its parts
\* disappears from its parent, too.
FlatTo(kind, mapped) ==
  IF MapSpread(mapped) = <<>> THEN EmptySpread ELSE [is |-> kind, at |-> MapSpread(mapped)]

\* Fault: the elements themselves tell whether they vanish.
RemapElements(type, mapped) ==
  IF mapped = <<>> THEN EmptySpread
                   ELSE Container(Unpacked(type), [i \in DOMAIN mapped |-> Unpacked(mapped[i])])

\* remap_container: every element stays one element.  Whether the elements vanish
\* is known from the type, even if there are none.
RemapContainer(type, mapped) ==
  IF type = EmptySpread
    THEN EmptySpread
    ELSE Container(Unpacked(type), [i \in DOMAIN mapped |-> Unpacked(mapped[i])])

\* continuable_box
Box(child) == [is |-> "box", yields |-> child.yields, id |-> child.id]

Value(id, k)      == [is |-> "value", nth |-> k, id |-> id]
Values(id, count) == [k \in 1 .. count |-> Value(id, k)]

\* continuable_box::unbox: one value is itself, several are spread.
Unbox(box) == IF box.yields = 1 THEN Value(box.id, 1) ELSE Spread(Values(box.id, box.yields))

\* The mappers: continuable_box_packer, continuable_box_unpacker (which stands for
\* the visitors of boxes, too), and one of a program that calls map_pack itself.
Accepts(mapper, e) ==
  \/ mapper \in {"packer", "program"} /\ e.is = "child"
  \/ mapper = "unpacker" /\ e.is = "box"

Apply(mapper, e) == IF mapper = "packer" THEN Box(e) ELSE Unbox(e)

\* is_effective_t: the mapper can be called with the whole of n.
RECURSIVE Effective(_, _)
Effective(mapper, n) ==
  CASE n.is = "container" -> Effective(mapper, n.of)
    [] n.is = "array"     -> Effective(mapper, Head(n.at))
    [] n.is = "tuple"     -> n.at # <<>> /\ \A i \in DOMAIN n.at : Effective(mapper, n.at[i])
    [] OTHER              -> Accepts(mapper, n)

\* is_effective_any_of_t
AnyEffective(mapper, parts) == \E i \in DOMAIN parts : Effective(mapper, parts[i])

\* Fault: the first part of a tuple decides.
EnteredFirst(mapper, n) ==
  \/ n.is = "container" /\ Effective(mapper, n.of)
  \/ n.is \in {"tuple", "array"} /\ n.at # <<>> /\ Effective(mapper, Head(n.at))

\* The condition for an aggregate to be entered ("skipping untouched types").
Entered(mapper, n) ==
  \/ n.is = "container" /\ Effective(mapper, n.of)
  \/ n.is \in {"tuple", "array"} /\ AnyEffective(mapper, n.at)

\* try_match for strategy_remap_tag: the mapper is applied, or the element routed
\* through.
RECURSIVE Mapped(_, _)
Mapped(mapper, n) ==
  LET parts == [i \in DOMAIN n.at |-> Mapped(mapper, n.at[i])]
  IN  CASE Accepts(mapper, n)                             -> Apply(mapper, n)
        [] n.is = "container" /\ Entered(mapper, n)       ->
             RemapContainer(Mapped(mapper, n.of), parts)
        [] n.is \in {"tuple", "array"} /\ Entered(mapper, n) -> FlatTo(n.is, parts)
        [] OTHER                                          -> n

\* try_match for strategy_traverse_tag: the elements the visitor is called with.
RECURSIVE Traversed(_, _)
Traversed(mapper, n) ==
  CASE Accepts(mapper, n)                    -> <<n>>
    [] Aggregate(n) /\ Entered(mapper, n)    ->
         FlattenSeq([i \in DOMAIN n.at |-> Traversed(mapper, n.at[i])])
    [] OTHER                                 -> <<>>

\* init_traverse: several arguments make a tuple.
MapPack(mapper, pack) ==
  LET parts  == [i \in DOMAIN pack |-> Mapped(mapper, pack[i])]
      mapped == IF Len(pack) = 1 THEN parts[1] ELSE Spread(MapSpread(parts))
  IN  IF mapped = EmptySpread THEN Void ELSE Unpacked(mapped)
-------------------------------------------------------------------------------
\* The packs a program may come with.  Arrays and containers hold elements of one
\* type; here, these are alike.
Repeated(n, count) == [i \in 1 .. count |-> n]

RECURSIVE Packs(_)
Packs(depth) ==
  {Plain} \cup {Child(n) : n \in 0 .. MaxYields} \cup
  (IF depth = 0 THEN {} ELSE
     LET inner == Packs(depth - 1)
     IN  {Tuple(parts) : parts \in UNION {[1 .. k -> inner] : k \in 0 .. Width}} \cup
         {Array(Repeated(n, k)) : n \in inner, k \in 1 .. Width} \cup
         {Container(n, Repeated(n, k)) : n \in inner, k \in 0 .. Width})

\* Each element gets the position it has in the arguments.
RECURSIVE Labelled(_, _)
Labelled(n, id) ==
  LET parts == [i \in DOMAIN n.at |-> Labelled(n.at[i], Append(id, i))]
  IN  CASE n.is = "container"            -> Container(Labelled(n.of, Append(id, 0)), parts)
        [] n.is \in {"tuple", "array"}   -> [is |-> n.is, at |-> parts]
        [] n.is = "plain"                -> [is |-> "plain", id |-> id]
        [] n.is = "child"                -> [is |-> "child", yields |-> n.yields, id |-> id]

RECURSIVE HasArray(_)
HasArray(n) ==
  \/ n.is = "array"
  \/ n.is = "container" /\ HasArray(n.of)
  \/ n.is = "tuple" /\ \E i \in DOMAIN n.at : HasArray(n.at[i])

Arguments ==
  {<<Labelled(n, <<1>>)>> : n \in Packs(Depth)} \cup
  {<<Labelled(n, <<1>>), Labelled(o, <<2>>)>> : n, o \in Packs(IF Depth = 0 THEN 0 ELSE 1)}

\* when_all does not compile if traverse_pack has to enter an array.
Init == /\ args \in Arguments
        /\ call \in {"map", "all", "seq"}
        /\ call = "all" => ~HasArray(Tuple(args))
        /\ phase = "called"
        /\ head = Void
        /\ started = <<>>
        /\ filled = {}
        /\ result = Void

\* The program calls map_pack itself.
MapDirectly == /\ phase = "called" /\ call = "map"
               /\ result' = MapPack("program", args)
               /\ phase' = "returned"
               /\ UNCHANGED <<args, call, head, started, filled>>

\* Fault: the arguments are boxed as they are.
ConnectUnwrapped == /\ phase = "called" /\ call # "map"
                    /\ head' = MapPack("packer", args)
                    /\ phase' = "boxed"
                    /\ UNCHANGED <<args, call, started, filled, result>>

\* apply_connection and finalize: the arguments make a tuple, which is boxed.
Connect == /\ phase = "called" /\ call # "map"
           /\ head' = MapPack("packer", <<Tuple(args)>>)
           /\ phase' = "boxed"
           /\ UNCHANGED <<args, call, started, filled, result>>

\* traverse_pack: the next box of the head is visited.  The visitor of when_seq
\* goes on when the child has delivered.
Visit == /\ phase = "boxed"
         /\ call = "seq" => Len(started) = Cardinality(filled)
         /\ LET boxes == Traversed("unpacker", head)
            IN  /\ Len(started) < Len(boxes)
                /\ started' = Append(started, boxes[Len(started) + 1].id)
         /\ UNCHANGED <<args, call, phase, head, filled, result>>

\* continuable_box::assign
Assign(id) == /\ phase = "boxed"
              /\ id \in ToSet(started) \ filled
              /\ filled' = filled \cup {id}
              /\ UNCHANGED <<args, call, phase, head, started, result>>

\* finalize_data: the callback is invoked with the elements of the unboxed tuple,
\* or with nothing if the tuple has disappeared.
Finalize == /\ phase = "boxed"
            /\ Len(Traversed("unpacker", head)) = Cardinality(filled)
            /\ result' = MapPack("unpacker", <<head>>)
            /\ phase' = "returned"
            /\ UNCHANGED <<args, call, head, started, filled>>

Finished == phase = "returned" /\ UNCHANGED vars

Next == \/ MapDirectly \/ Connect \/ Visit \/ Finalize
        \/ \E id \in ToSet(started) : Assign(id)
        \/ Finished

Spec == Init /\ [][Next]_vars
-------------------------------------------------------------------------------
\* The elements of a pack from left to right.
RECURSIVE Elements(_)
Elements(n) ==
  IF n.is = "void" THEN <<>> ELSE
  IF Aggregate(n) THEN FlattenSeq([i \in DOMAIN n.at |-> Elements(n.at[i])]) ELSE <<n>>

Given    == Elements(Tuple(args))
Children == {e \in ToSet(Given) : e.is = "child"}
Left     == ToSet(Elements(result)) \cap Children

\* The result holds what the arguments held, in the same order and nothing twice: a
\* continuable that was reached is replaced by all its values, one that was not and
\* a plain element are still there, and no box is left (map_pack, unbox_continuables).
\* A connection has started those that were reached, from left to right and once each.
ValuesInPlace ==
  phase = "returned" =>
    LET Reached(e) == e \in Children \ Left
        reached    == SelectSeq(Given, Reached)
    IN  /\ Elements(result) = FlattenSeq([i \in DOMAIN Given |->
             IF Reached(Given[i]) THEN Values(Given[i].id, Given[i].yields) ELSE <<Given[i]>>])
        /\ call # "map" => started = [i \in DOMAIN reached |-> reached[i].id]

\* Something that is not a continuable is in the type of n.
RECURSIVE Foreign(_)
Foreign(n) ==
  CASE n.is = "container" -> Foreign(n.of)
    [] n.is = "array"     -> Foreign(Head(n.at))
    [] n.is = "tuple"     -> n.at = <<>> \/ \E i \in DOMAIN n.at : Foreign(n.at[i])
    [] OTHER              -> n.is # "child"

\* The elements inside of n that are in a pack all of whose parts are foreign.
RECURSIVE Hidden(_)
Hidden(n) ==
  IF ~Aggregate(n) THEN {} ELSE
  IF IF n.is = "container" THEN Foreign(n.of) ELSE \A i \in DOMAIN n.at : Foreign(n.at[i])
    THEN ToSet(Elements(n))
    ELSE UNION {Hidden(n.at[i]) : i \in DOMAIN n.at}

\* "Tries to visit all plain elements" (continuable-traverse.hpp): a continuable is
\* passed by only inside of a pack none of whose parts consists of continuables alone.
LeftBehind ==
  phase = "returned" =>
    LET packs == IF call = "map" THEN ToSet(args) ELSE {Tuple(args)}
    IN  Left = Children \cap UNION {Hidden(n) : n \in packs}

\* What the callback of a connection is invoked with is what map_pack would make of
\* the arguments if it had the values at once; boxing leaves no trace (box_continuables,
\* unbox_continuables, and hint_of_data, which takes the signature from it).
BoxingLeavesNoTrace ==
  phase = "returned" /\ call # "map" => result = MapPack("program", <<Tuple(args)>>)

\* Every continuable that is, or could be, in n is resolved with one value.
RECURSIVE Single(_)
Single(n) ==
  CASE n.is = "container"          -> Single(n.of)
    [] n.is \in {"tuple", "array"} -> \A i \in DOMAIN n.at : Single(n.at[i])
    [] OTHER                       -> n.is = "child" => n.yields = 1

\* Two trees of the same shape, whatever the elements are.
RECURSIVE SameShape(_, _)
SameShape(n, o) ==
  IF Aggregate(n) /\ Aggregate(o)
    THEN /\ n.is = o.is /\ Len(n.at) = Len(o.at)
         /\ \A i \in DOMAIN n.at : SameShape(n.at[i], o.at[i])
    ELSE ~Aggregate(n) /\ ~Aggregate(o)

\* A mapping of each element to one element keeps the hierarchy (re-assembles the
\* pack); only several arguments become a tuple.
ShapeKept ==
  phase = "returned" /\ Single(Tuple(args)) =>
    SameShape(result, IF call = "map" /\ Len(args) = 1 THEN args[1] ELSE Tuple(args))
===============================================================================
