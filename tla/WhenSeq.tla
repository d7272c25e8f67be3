-------------------------------- MODULE WhenSeq --------------------------------
(***************************************************************************)
(* when_seq: sequential_dispatch_visitor of                                *)
(* detail/connection/connection-seq.hpp on the asynchronous traversal.  A  *)
(* child that is ready is taken as it is; any other child is started, and  *)
(* its result resumes the traversal.  A child that fails ends it.          *)
(*                                                                         *)
(* The value a child settles with is represented by the child.  ReadyKinds *)
(* is what the ready children of the program may hold: a value, or a       *)
(* failure (make_exceptional_continuable, make_cancelling_continuable).    *)
(***************************************************************************)
EXTENDS AsyncTraversal, Naturals

CONSTANT ReadyKinds

VARIABLES ready,     \* the children that are ready
          settled,   \* what each child settled with
          box,       \* what the box of each child holds
          aborting,  \* the child whose failure is on its way to the callback
          calls,     \* how often the callback of the connection was invoked
          verdict    \* what it was invoked with

seqVars == <<ready, settled, box, aborting, calls, verdict>>
vars    == <<pc, hierarchy, detached, under, callable, visited, completed,
             ready, settled, box, aborting, calls, verdict>>

Child   == Leaf
Failure == {"exception", "cancellation"}
Kind    == {"value"} \cup Failure

ASSUME WhenSeqAssumption == ReadyKinds \subseteq Kind

NoVerdict == [kind |-> "none", of |-> {}]

TypeOK ==
  /\ TraversalTypeOK
  /\ ready \subseteq Child
  /\ settled \in [Child -> Kind \cup {"pending", "dropped"}]
  /\ box \in [Child -> {"empty", "value", "garbage"}]
  /\ aborting \subseteq Child
  /\ calls \in Nat
  /\ verdict \in [kind : {"none", "values"} \cup Kind, of : SUBSET Child]

Init == /\ TraversalInit
        /\ ready \in SUBSET Child
        /\ settled = [c \in Child |-> "pending"]
        /\ box = [c \in Child |-> "empty"]
        /\ aborting = {}
        /\ calls = 0
        /\ verdict = NoVerdict

Deliver(v) == /\ calls' = calls + 1
              /\ verdict' = v
-------------------------------------------------------------------------------
\* async_traverse_visit_tag, ready child: its result is unpacked into the box.
\* Nobody looks at what kind of result it is: what was no value is read as one.
Take(a) ==
  /\ Visit(a)
  /\ Element(a) \in ready
  /\ \E k \in ReadyKinds :
       /\ settled' = [settled EXCEPT ![Element(a)] = k]
       /\ box' = [box EXCEPT ![Element(a)] = IF k = "value" THEN "value" ELSE "garbage"]
  /\ UNCHANGED <<ready, aborting, calls, verdict>>

\* async_traverse_detach_tag: the child is started.
Start(a) == /\ Detach(a)
            /\ Element(a) \notin ready
            /\ UNCHANGED seqVars

\* The child is resolved with a value: it goes to the box, then next() is called.
Arrive(c) == /\ Resume(c)
             /\ settled' = [settled EXCEPT ![c] = "value"]
             /\ box' = [box EXCEPT ![c] = "value"]
             /\ UNCHANGED <<ready, aborting, calls, verdict>>

\* Fault: the traversal goes on behind a child that failed.
FailResumes(c) ==
  /\ Resume(c)
  /\ \E k \in Failure : settled' = [settled EXCEPT ![c] = k]
  /\ aborting' = aborting \cup {c}
  /\ UNCHANGED <<ready, box, calls, verdict>>

\* It failed: the result handler, and next with it, are passed by.
Fail(c) == /\ Forget(c)
           /\ \E k \in Failure : settled' = [settled EXCEPT ![c] = k]
           /\ aborting' = aborting \cup {c}
           /\ UNCHANGED <<ready, box, calls, verdict>>

\* Fault: the failure is not handed on.
AbortSilently(c) == /\ c \in aborting
                    /\ aborting' = aborting \ {c}
                    /\ UNCHANGED <<ready, settled, box, calls, verdict>>
                    /\ UNCHANGED traversalVars

\* The fail handler hands the failure to the callback of the connection.
Abort(c) == /\ c \in aborting
            /\ aborting' = aborting \ {c}
            /\ Deliver([kind |-> settled[c], of |-> {c}])
            /\ UNCHANGED <<ready, settled, box>>
            /\ UNCHANGED traversalVars

\* The promise of the child is dropped: the handlers are destroyed.
Drop(c) == /\ Forget(c)
           /\ settled' = [settled EXCEPT ![c] = "dropped"]
           /\ UNCHANGED <<ready, box, aborting, calls, verdict>>

\* async_traverse_complete_tag: finalize_data.
Finalize(a) == /\ Complete(a)
               /\ Deliver([kind |-> "values", of |-> {c \in Child : box[c] # "empty"}])
               /\ UNCHANGED <<ready, settled, box, aborting>>

Step(a) == \/ Take(a) \/ Start(a) \/ Finalize(a)
           \/ (Walk(a) \/ LeaveVisitor(a)) /\ UNCHANGED seqVars

Finished == /\ AllReturned /\ aborting = {} /\ \A c \in Child : callable[c] # "held"
            /\ UNCHANGED vars

Next == \/ \E a \in Activation : Step(a)
        \/ \E c \in Child : Arrive(c) \/ Fail(c) \/ Abort(c) \/ Drop(c)
        \/ Finished

Spec == Init /\ [][Next]_vars

\* A thread inside the library keeps running.  Nothing obliges a child to be
\* resolved: Arrive, Fail and Drop are left out.
Fairness == /\ \A a \in Activation : WF_vars(Step(a))
            /\ \A c \in Child : WF_vars(Abort(c))

FairSpec == Spec /\ Fairness
-------------------------------------------------------------------------------
\* A child is started, or taken, only when all children before it in the pack
\* have settled with a value ("as soon as the previous one was resolved").
InSequence == \A i \in 1 .. Len(visited) - 1 : settled[visited[i]] = "value"

\* The callback is invoked at most once, with all values only if every child
\* settled with one and all boxes hold them, and otherwise with the failure of
\* the last child that was started.
VerdictJustified ==
  /\ calls <= 1
  /\ verdict.kind = "values" =>
       \A c \in Child : settled[c] = "value" /\ box[c] = "value"
  /\ verdict.kind \in Failure =>
       verdict = [kind |-> settled[Last(visited)], of |-> {Last(visited)}]

\* Every call into the connection returns: the traversal comes to the end of empty
\* and of nested ranges, and the threads that resolve a child are not kept by it for
\* longer.
CallsReturn == \A a \in Activation : pc[a] # "idle" ~> pc[a] = "done"

\* when_seq implements the abstract connection in mode "all", liveness included:
\* it makes the same promises as when_all.
Abs == INSTANCE Resolution WITH Mode <- "all"
ImplementsAll == Abs!FairSpec
===============================================================================
