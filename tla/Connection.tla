------------------------------ MODULE Connection ------------------------------
(***************************************************************************)
(* What when_all and when_any have in common: the thread that starts the   *)
(* connection (Main) walks over the children and starts each of them, and  *)
(* every child c is resolved at most once by a call into the callback the  *)
(* connection attached to it.  That call is an activation of its own,      *)
(* named after the child; it runs either on a thread of its own            *)
(* (under[c] = Nobody) or synchronously inside another activation          *)
(* (under[c] = a), which cannot take a step before the call returned.      *)
(* The pointers `under' are the call stacks.                               *)
(*                                                                         *)
(* The callback of the connection runs inside std::call_once.  Reentrant   *)
(* says whether it may itself resolve a sibling synchronously.             *)
(***************************************************************************)
EXTENDS Naturals, FiniteSets, OnceFlag

CONSTANTS Child,      \* the continuables of the connection
          Main,       \* the activation that runs the connection's continuation
          Nobody,     \* the bottom of a call stack
          Reentrant   \* whether the callback may resolve a child synchronously

ASSUME ConnectionAssumption ==
  /\ IsFiniteSet(Child)
  /\ Main \notin Child
  /\ Nobody \notin Child \cup {Main}
  /\ Reentrant \in BOOLEAN

VARIABLES pc,        \* where each activation is
          settled,   \* what each child was resolved with
          under,     \* the activation a child's resolution is nested in
          calls,     \* how often the callback of the connection was invoked
          verdict    \* what it was invoked with

Actor   == Child \cup {Main}
Failure == {"exception", "cancellation"}
Kind    == {"value"} \cup Failure

NoVerdict == [kind |-> "none", of |-> {}]

Label == {"boxed", "attached", "started", "traverse", "assign", "complete",
          "once", "callback", "leave", "done"}

ConnectionTypeOK ==
  /\ pc \in [Actor -> Label]
  /\ settled \in [Child -> Kind \cup {"pending", "dropped"}]
  /\ under \in [Child -> Actor \cup {Nobody}]
  /\ flag \in FlagState
  /\ calls \in Nat
  /\ verdict \in [kind : {"none", "values"} \cup Kind, of : SUBSET Child]

ConnectionInit ==
  /\ pc = [a \in Actor |-> IF a = Main THEN "traverse" ELSE "boxed"]
  /\ settled = [c \in Child |-> "pending"]
  /\ under = [c \in Child |-> Nobody]
  /\ OnceInit
  /\ calls = 0
  /\ verdict = NoVerdict

\* No synchronous call that a made is still running.
Returned(a) == \A c \in Child : under[c] = a => pc[c] = "done"

Goto(a, from, to) == /\ pc[a] = from
                     /\ Returned(a)
                     /\ pc' = [pc EXCEPT ![a] = to]

\* Main calls done() on a child, which invokes the child's continuation.
Launch(c, from) == /\ pc[Main] = "traverse"
                   /\ Returned(Main)
                   /\ pc[c] = from
                   /\ pc' = [pc EXCEPT ![c] = "started"]

\* Whose stack a child may be resolved on: a fresh one, the one of Main while
\* it starts the children, and the one of the activation inside the callback.
Callers ==
  {Nobody} \cup
  {a \in Actor : /\ Returned(a)
                 /\ \/ a = Main /\ pc[a] = "traverse"
                    \/ Reentrant /\ pc[a] = "leave"}

\* A child is resolved with k, and the activation for it begins at label to.
Resolve(c, k, to) ==
  /\ pc[c] = "started"
  /\ pc' = [pc EXCEPT ![c] = to]
  /\ settled' = [settled EXCEPT ![c] = k]
  /\ \E a \in Callers : under' = [under EXCEPT ![c] = a]
  /\ UNCHANGED <<flag, calls, verdict>>

\* The promise of a child is destroyed unresolved, and its callback with it.
Drop(c) ==
  /\ pc[c] = "started"
  /\ pc' = [pc EXCEPT ![c] = "done"]
  /\ settled' = [settled EXCEPT ![c] = "dropped"]
  /\ UNCHANGED <<under, flag, calls, verdict>>

EnterOnce(a) == /\ Goto(a, "once", "callback")
                /\ OnceEnter
                /\ UNCHANGED <<settled, under, calls, verdict>>

\* Faults: a loser does not wait for the winner, or never stops to wait.
PassOnceNoWait(a) == /\ Goto(a, "once", "done")
                     /\ flag # "idle"
                     /\ UNCHANGED <<settled, under, flag, calls, verdict>>
PassOnceSpins(a) == /\ pc[a] = "once"
                    /\ flag # "idle"
                    /\ UNCHANGED <<pc, settled, under, flag, calls, verdict>>

PassOnce(a) == /\ Goto(a, "once", "done")
               /\ OncePassive
               /\ UNCHANGED <<settled, under, calls, verdict>>

LeaveOnce(a) == /\ Goto(a, "leave", "done")
                /\ OnceExit
                /\ UNCHANGED <<settled, under, calls, verdict>>

\* The callback of the connection is invoked with v.
Deliver(a, v) == /\ Goto(a, "callback", "leave")
                 /\ calls' = calls + 1
                 /\ verdict' = v
                 /\ UNCHANGED <<settled, under, flag>>

\* What child c settled with, handed on as it is.
Single(c) == [kind |-> settled[c], of |-> {c}]

AllDone == \A a \in Actor : pc[a] = "done"

\* The callback, which runs inside call_once, resolved a sibling synchronously, and
\* the sibling wants to enter the same call_once: it waits for its own caller.
Entangled ==
  \E c \in Child : pc[c] = "once" /\ under[c] # Nobody /\ pc[under[c]] = "leave"
===============================================================================
