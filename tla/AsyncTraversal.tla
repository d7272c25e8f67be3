----------------------------- MODULE AsyncTraversal -----------------------------
(***************************************************************************)
(* The asynchronous traversal of a nested pack                             *)
(* (detail/traversal/traverse-async.hpp).  The visitor is asked about      *)
(* every element it accepts, in order.  If it does not let the traversal   *)
(* go on, the traversal detaches: the visitor gets a callable that resumes *)
(* it, the current call returns, and whoever calls the callable, on        *)
(* whatever thread, walks on from there.                                   *)
(*                                                                         *)
(* A call of such a callable is an activation, named after the element it  *)
(* was made for; Begin is the first one.  The hierarchy of an activation   *)
(* is the sequence of the positions it is at, the innermost first.  Static *)
(* and dynamic ranges differ in types only.                                *)
(***************************************************************************)
EXTENDS SequencesExt

CONSTANTS Leaf,     \* the elements the visitor accepts
          Node,     \* the tuples and containers
          Top,      \* the pack itself
          Sub,      \* what each node contains
          Written,  \* the elements the visitor accepts, in the order they are written
          Before,   \* for each place in a node, how many of them are written before it
          Begin,    \* the activation that starts the traversal
          Nobody    \* the bottom of a call stack

ASSUME TraversalAssumption ==
  /\ Top \in Node
  /\ Leaf \cap Node = {}
  /\ DOMAIN Sub = Node
  /\ \A n \in Node : Sub[n] \in Seq(Range(Sub[n]))
  /\ Begin \notin Leaf
  /\ Nobody \notin Leaf \cup {Begin}

\* A pack is a tree: what is written in a node is written where the node is.
ASSUME WrittenAssumption ==
  /\ Written \in Seq(Leaf) /\ IsInjective(Written) /\ ToSet(Written) = Leaf
  /\ DOMAIN Before = Node
  /\ \A n \in Node : Before[n] \in [1 .. Len(Sub[n]) + 1 -> 0 .. Len(Written)]
  /\ Before[Top][1] = 0 /\ Before[Top][Len(Sub[Top]) + 1] = Len(Written)
  /\ \A n \in Node : \A i \in 1 .. Len(Sub[n]) :
       LET e == Sub[n][i]
       IN  /\ e \in Leaf => /\ Written[Before[n][i] + 1] = e
                            /\ Before[n][i + 1] = Before[n][i] + 1
           /\ e \in Node => /\ Before[e][1] = Before[n][i]
                            /\ Before[n][i + 1] = Before[e][Len(Sub[e]) + 1]
           /\ e \notin Leaf \cup Node => Before[n][i + 1] = Before[n][i]

VARIABLES pc,         \* where each activation is
          hierarchy,  \* its positions
          detached,   \* its flag detached_
          under,      \* the activation it is nested in
          callable,   \* what became of the resume callable of each element
          visited,    \* the elements the visitor was asked about, in order
          completed   \* how often the visitor was told that the traversal ended

traversalVars == <<pc, hierarchy, detached, under, callable, visited, completed>>

Activation == Leaf \cup {Begin}

Position == [in : Node, at : Nat \ {0}]

TraversalTypeOK ==
  /\ pc \in [Activation -> {"idle", "walking", "visitor", "done"}]
  /\ hierarchy \in [Activation -> Seq(Position)]
  /\ detached \in [Activation -> BOOLEAN]
  /\ under \in [Activation -> Activation \cup {Nobody}]
  /\ callable \in [Leaf -> {"none", "held", "called", "dropped"}]
  /\ visited \in Seq(Leaf)
  /\ completed \in Nat

\* apply_pack_transform_async: the first callable is made and called.
TraversalInit ==
  /\ pc = [a \in Activation |-> IF a = Begin THEN "walking" ELSE "idle"]
  /\ hierarchy = [a \in Activation |-> IF a = Begin THEN <<[in |-> Top, at |-> 1]>> ELSE <<>>]
  /\ detached = [a \in Activation |-> FALSE]
  /\ under = [a \in Activation |-> Nobody]
  /\ callable = [e \in Leaf |-> "none"]
  /\ visited = <<>>
  /\ completed = 0

Innermost(a) == Head(hierarchy[a])
AtEnd(a)     == Innermost(a).at > Len(Sub[Innermost(a).in])
Element(a)   == Sub[Innermost(a).in][Innermost(a).at]

\* The hierarchy h, one element further.
Onward(h) == <<[Head(h) EXCEPT !.at = @ + 1]>> \o Tail(h)

\* Fault: the flag is not tested on the way out.
WalksRegardless(a) == pc[a] = "walking"

Walks(a) == pc[a] = "walking" /\ ~detached[a]

MoveOn(a, h) == /\ hierarchy' = [hierarchy EXCEPT ![a] = h]
                /\ UNCHANGED <<pc, detached, under, callable>>
-------------------------------------------------------------------------------
\* The element is a container or a tuple: its elements come first.
Fork(a) == /\ Walks(a) /\ ~AtEnd(a)
           /\ Element(a) \in Node
           /\ MoveOn(a, <<[in |-> Element(a), at |-> 1]>> \o hierarchy[a])
           /\ UNCHANGED <<visited, completed>>

\* The visitor does not accept the element.
Ignore(a) == /\ Walks(a) /\ ~AtEnd(a)
             /\ Element(a) \notin Node \cup Leaf
             /\ MoveOn(a, Onward(hierarchy[a]))
             /\ UNCHANGED <<visited, completed>>

\* The visitor accepts the element and lets the traversal go on.
Visit(a) == /\ Walks(a) /\ ~AtEnd(a)
            /\ Element(a) \in Leaf
            /\ visited' = Append(visited, Element(a))
            /\ MoveOn(a, Onward(hierarchy[a]))
            /\ UNCHANGED completed

\* Fault: the flag is not set.
DetachUnset(a) ==
  /\ Walks(a) /\ ~AtEnd(a)
  /\ Element(a) \in Leaf
  /\ visited' = Append(visited, Element(a))
  /\ callable' = [callable EXCEPT ![Element(a)] = "held"]
  /\ hierarchy' = [hierarchy EXCEPT ![Element(a)] = Onward(hierarchy[a]),
                                    ![a] = Onward(hierarchy[a])]
  /\ pc' = [pc EXCEPT ![a] = "visitor"]
  /\ UNCHANGED <<detached, under, completed>>

\* The visitor does not: the flag is set, and async_continue hands a callable to
\* the visitor that resumes behind the element.
Detach(a) ==
  /\ Walks(a) /\ ~AtEnd(a)
  /\ Element(a) \in Leaf
  /\ visited' = Append(visited, Element(a))
  /\ detached' = [detached EXCEPT ![a] = TRUE]
  /\ callable' = [callable EXCEPT ![Element(a)] = "held"]
  /\ hierarchy' = [hierarchy EXCEPT ![Element(a)] = Onward(hierarchy[a])]
  /\ pc' = [pc EXCEPT ![a] = "visitor"]
  /\ UNCHANGED <<under, completed>>

\* Fault: the position in the parent is not advanced.
AscendInPlace(a) == /\ Walks(a) /\ AtEnd(a)
                    /\ Len(hierarchy[a]) > 1
                    /\ MoveOn(a, Tail(hierarchy[a]))
                    /\ UNCHANGED <<visited, completed>>

\* The innermost range is finished: on with its parent.
Ascend(a) == /\ Walks(a) /\ AtEnd(a)
             /\ Len(hierarchy[a]) > 1
             /\ MoveOn(a, Onward(Tail(hierarchy[a])))
             /\ UNCHANGED <<visited, completed>>

\* async_complete
Complete(a) == /\ Walks(a) /\ AtEnd(a)
               /\ Len(hierarchy[a]) = 1
               /\ completed' = completed + 1
               /\ pc' = [pc EXCEPT ![a] = "done"]
               /\ UNCHANGED <<hierarchy, detached, under, callable, visited>>

\* The visitor returns, after the calls that it made.
LeaveVisitor(a) ==
  /\ pc[a] = "visitor"
  /\ \A b \in Activation : under[b] = a => pc[b] = "done"
  /\ pc' = [pc EXCEPT ![a] = "walking"]
  /\ UNCHANGED <<hierarchy, detached, under, callable, visited, completed>>

\* Every loop on the way out sees the flag.
Unwind(a) == /\ pc[a] = "walking" /\ detached[a]
             /\ pc' = [pc EXCEPT ![a] = "done"]
             /\ UNCHANGED <<hierarchy, detached, under, callable, visited, completed>>

\* The callable is called, once: inside the visitor that got it, or elsewhere.
Resume(e) ==
  /\ callable[e] = "held"
  /\ callable' = [callable EXCEPT ![e] = "called"]
  /\ pc' = [pc EXCEPT ![e] = "walking"]
  /\ \E a \in {Nobody} \cup {b \in Activation : /\ pc[b] = "visitor"
                                                /\ Element(b) = e} :
       under' = [under EXCEPT ![e] = a]
  /\ UNCHANGED <<hierarchy, detached, visited, completed>>

\* The callable is destroyed without being called.
Forget(e) == /\ callable[e] = "held"
             /\ callable' = [callable EXCEPT ![e] = "dropped"]
             /\ UNCHANGED <<pc, hierarchy, detached, under, visited, completed>>

\* What the traversal does without the visitor.
Walk(a) == Fork(a) \/ Ignore(a) \/ Ascend(a) \/ Unwind(a)

AllReturned == \A a \in Activation : pc[a] \in {"idle", "done"}
-------------------------------------------------------------------------------
\* However deep an element is nested, and whoever resumes the traversal, the
\* visitor is asked about each element once and in order, and is told about the
\* end once, when there is none left (the assertion on finished_).
InOrder == /\ IsPrefix(visited, Written)
           /\ completed <= 1
           /\ completed = 1 => visited = Written

\* At most one thread is in the pack at any time, and none while a callable is
\* waiting to be called: an activation that detached only finds its way out.
OneWalker ==
  /\ \A a, b \in Activation :
       /\ pc[a] = "walking" /\ ~detached[a]
       /\ pc[b] = "walking" /\ ~detached[b]
       => a = b
  /\ \A e \in Leaf, a \in Activation :
       ~(callable[e] = "held" /\ pc[a] = "walking" /\ ~detached[a])
===============================================================================
