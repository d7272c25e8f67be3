------------------------------ MODULE ResultVariant ------------------------------
(***************************************************************************)
(* result<...> of continuable-result.hpp on result_variant of              *)
(* detail/utility/result-variant.hpp: raw memory in which a value or an    *)
(* exception is constructed by hand, and a slot that says which.  Any      *)
(* number of results are made, set, moved, emptied of their content and    *)
(* destroyed in any order.                                                 *)
(*                                                                         *)
(* The memory of a variant holds at most one object.  Moving an object     *)
(* constructs another one from it and leaves the old one alive, without    *)
(* its content.  A cancellation is the exception without a content, the    *)
(* value of result<> a value without one.                                  *)
(***************************************************************************)
EXTENDS Naturals

CONSTANTS Variant,    \* places for result_variant objects
          Content,    \* what values and exceptions contain
          MoveThrows  \* whether the move constructor of values may throw

ASSUME VariantAssumption == MoveThrows \in BOOLEAN /\ "moved" \notin Content

VARIABLES exists,   \* the variants that are constructed
          slot,     \* slot_
          memory,   \* the object in storage_, if any
          unused,   \* the contents the program has not made a result of yet
          taken,    \* the contents it has moved out of a result
          threw,    \* whether a set_value or an assignment threw
          misuse    \* whether an object was destroyed or overwritten that is not
                    \* there, or still is

resultVars == <<exists, slot, memory, unused, taken, threw, misuse>>

Raw    == [is |-> "nothing", with |-> "moved"]
Object == [is : {"value", "exception"}, with : Content \cup {"moved"}]
Slot   == {"empty", "value", "exception"}

ResultInit == /\ exists = {}
              /\ slot = [v \in Variant |-> "empty"]
              /\ memory = [v \in Variant |-> Raw]
              /\ unused = Content
              /\ taken = {}
              /\ threw = FALSE
              /\ misuse = FALSE

\* destroy() runs the destructor that the slot asks for.
Destroyed(v)   == IF slot[v] = "empty" THEN memory[v] ELSE Raw
BadDestroy(v)  == slot[v] # "empty" /\ memory[v].is # slot[v]
BadConstruct(m) == m # Raw

Moved(o) == IF o = Raw THEN Raw ELSE [o EXCEPT !.with = "moved"]
-------------------------------------------------------------------------------
\* is_empty(), is_value() and is_exception(); accessors are called as they allow.
Is(v, s) == v \in exists /\ slot[v] = s

\* The constructors, with a value, with an exception, or with nothing.
Construct(v, s, c) ==
  /\ v \notin exists
  /\ exists' = exists \cup {v}
  /\ slot' = [slot EXCEPT ![v] = s]
  /\ memory' = [memory EXCEPT ![v] = IF s = "empty" THEN Raw ELSE [is |-> s, with |-> c]]
  /\ unused' = IF s = "empty" THEN unused ELSE unused \ {c}
  /\ UNCHANGED <<taken, threw, misuse>>

\* A result is made of values, of an exception, of an exceptional_result, of a
\* cancellation_result or of an empty_result.
Make(v) == \E s \in Slot, c \in unused \cup {"moved"} : Construct(v, s, c)

\* Fault: only the slot is emptied.
SetEmptyLeaks(v) == /\ v \in exists
                    /\ slot' = [slot EXCEPT ![v] = "empty"]
                    /\ UNCHANGED <<exists, memory, unused, taken, threw, misuse>>

\* set_empty
SetEmpty(v) == /\ v \in exists
               /\ slot' = [slot EXCEPT ![v] = "empty"]
               /\ memory' = [memory EXCEPT ![v] = Destroyed(v)]
               /\ misuse' = (misuse \/ BadDestroy(v))
               /\ UNCHANGED <<exists, unused, taken, threw>>

\* set_value, set_exception: destroy, construct, and then the slot.
Set(v, s, c) ==
  /\ v \in exists
  /\ unused' = unused \ {c}
  /\ memory' = [memory EXCEPT ![v] = [is |-> s, with |-> c]]
  /\ slot' = [slot EXCEPT ![v] = s]
  /\ misuse' = (misuse \/ BadDestroy(v) \/ BadConstruct(Destroyed(v)))
  /\ UNCHANGED <<exists, taken, threw>>

\* The assignments to a result, and its set_empty, set_value, set_exception and
\* set_canceled.
Change(v) == \/ SetEmpty(v)
             \/ \E s \in Slot \ {"empty"}, c \in unused \cup {"moved"} : Set(v, s, c)

\* What get_value() or get_exception() of an rvalue refers to is moved from: the
\* result still says that it holds a value, or an exception.
Take(v) == /\ Is(v, "value") \/ Is(v, "exception")
           /\ memory' = [memory EXCEPT ![v] = Moved(@)]
           /\ taken' = taken \cup ({memory[v].with} \cap Content)
           /\ UNCHANGED <<exists, slot, unused, threw, misuse>>

\* The construction throws: the slot is still the old one.
SetThrows(v, c) ==
  /\ MoveThrows
  /\ v \in exists /\ c \in unused
  /\ unused' = unused \ {c}
  /\ memory' = [memory EXCEPT ![v] = Destroyed(v)]
  /\ misuse' = (misuse \/ BadDestroy(v) \/ BadConstruct(Destroyed(v)))
  /\ threw' = TRUE
  /\ UNCHANGED <<exists, slot, taken>>

\* The move constructor; if it throws, there is no new variant.  The object it was
\* moving may or may not have its content then.
MoveConstruct(v, w) ==
  /\ v \notin exists /\ w \in exists
  /\ exists' = exists \cup {v}
  /\ slot' = [slot EXCEPT ![v] = slot[w], ![w] = "empty"]
  /\ memory' = [memory EXCEPT ![v] = memory[w], ![w] = Destroyed(w)]
  /\ misuse' = (misuse \/ BadDestroy(w))
  /\ UNCHANGED <<unused, taken, threw>>

MoveConstructThrows(v, w) ==
  /\ MoveThrows
  /\ v \notin exists /\ w \in exists /\ slot[w] = "value"
  /\ \E o \in {memory[w], Moved(memory[w])} : memory' = [memory EXCEPT ![w] = o]
  /\ UNCHANGED <<exists, slot, unused, taken, threw, misuse>>

\* Fault: the slot of the other variant is left as it is.
MoveAssignKeepsSlot(v, w) ==
  /\ v # w /\ {v, w} \subseteq exists
  /\ slot' = [slot EXCEPT ![v] = slot[w]]
  /\ memory' = [memory EXCEPT ![v] = memory[w], ![w] = Destroyed(w)]
  /\ misuse' = (misuse \/ BadDestroy(v) \/ BadConstruct(Destroyed(v)) \/ BadDestroy(w))
  /\ UNCHANGED <<exists, unused, taken, threw>>

\* The move assignment: destroy, the slot, construct, and the other one is emptied.
MoveAssign(v, w) ==
  /\ v # w /\ {v, w} \subseteq exists
  /\ slot' = [slot EXCEPT ![v] = slot[w], ![w] = "empty"]
  /\ memory' = [memory EXCEPT ![v] = memory[w], ![w] = Destroyed(w)]
  /\ misuse' = (misuse \/ BadDestroy(v) \/ BadConstruct(Destroyed(v)) \/ BadDestroy(w))
  /\ UNCHANGED <<exists, unused, taken, threw>>

\* The construction throws: the slot is the new one already.
MoveAssignThrows(v, w) ==
  /\ MoveThrows
  /\ v # w /\ {v, w} \subseteq exists /\ slot[w] = "value"
  /\ slot' = [slot EXCEPT ![v] = slot[w]]
  /\ \E o \in {memory[w], Moved(memory[w])} :
       memory' = [memory EXCEPT ![v] = Destroyed(v), ![w] = o]
  /\ misuse' = (misuse \/ BadDestroy(v) \/ BadConstruct(Destroyed(v)))
  /\ threw' = TRUE
  /\ UNCHANGED <<exists, unused, taken>>

\* The destructor.
Destruct(v) == /\ v \in exists
               /\ exists' = exists \ {v}
               /\ slot' = [slot EXCEPT ![v] = "empty"]
               /\ memory' = [memory EXCEPT ![v] = Raw]
               /\ misuse' = (misuse \/ BadDestroy(v) \/ BadConstruct(Destroyed(v)))
               /\ UNCHANGED <<unused, taken, threw>>

ResultNext == \E v \in Variant :
                \/ Make(v) \/ Change(v) \/ Take(v) \/ Destruct(v)
                \/ \E c \in Content : SetThrows(v, c)
                \/ \E w \in Variant : \/ MoveConstruct(v, w) \/ MoveConstructThrows(v, w)
                                      \/ MoveAssign(v, w) \/ MoveAssignThrows(v, w)

ResultSpec == ResultInit /\ [][ResultNext]_resultVars
-------------------------------------------------------------------------------
\* is_empty(), is_value() and is_exception() tell the truth about the memory, every
\* object is destroyed once, and none is constructed over another one, unless an
\* assignment threw.
SlotTruthful ==
  ~threw => /\ \A v \in exists : /\ Is(v, "empty") => memory[v] = Raw
                                /\ \A s \in {"value", "exception"} :
                                     Is(v, s) => memory[v].is = s
            /\ ~misuse

\* Whatever throws, an object lies only where the slot of an existing variant says
\* so, and no content is in two places, nor in one and in the hands of the program:
\* nothing is leaked, and nothing copied.
NothingLeaks ==
  /\ \A v \in Variant : memory[v] # Raw => v \in exists /\ memory[v].is = slot[v]
  /\ \A v \in exists : memory[v].with \notin taken \cup unused
  /\ \A v, w \in exists :
       v # w /\ memory[v].with \in Content => memory[v].with # memory[w].with
===============================================================================
