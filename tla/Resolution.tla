------------------------------ MODULE Resolution ------------------------------
(***************************************************************************)
(* What a connection of continuables promises to whoever attaches a        *)
(* callback to it.  Children settle in any order and at any time; from     *)
(* the settled children one verdict is drawn, once, and never revised.     *)
(*                                                                         *)
(* Mode = "all": the verdict is the values of every child, or the failure  *)
(*   of one child that failed.                                             *)
(* Mode = "any": the verdict is what one settled child settled with.       *)
(***************************************************************************)
EXTENDS Naturals

CONSTANTS Child, Mode

VARIABLES settled,   \* what each child settled with
          verdict    \* what the callback of the connection was called with

Failure == {"exception", "cancellation"}
Kind    == {"value"} \cup Failure

NoVerdict == [kind |-> "none", of |-> {}]

\* The verdict that hands on what child c settled with.
Single(c) == [kind |-> settled[c], of |-> {c}]

Everything == [kind |-> "values", of |-> Child]

Allowed ==
  IF Mode = "all"
  THEN {Single(c) : c \in {d \in Child : settled[d] \in Failure}}
         \cup {v \in {Everything} : \A c \in Child : settled[c] = "value"}
  ELSE {Single(c) : c \in {d \in Child : settled[d] \in Kind}}

Init == /\ settled = [c \in Child |-> "pending"]
        /\ verdict = NoVerdict

\* A child is resolved, or its promise is dropped without being resolved.
Settle(c) == /\ settled[c] = "pending"
             /\ \E k \in Kind \cup {"dropped"} : settled' = [settled EXCEPT ![c] = k]
             /\ UNCHANGED verdict

Decide == /\ verdict = NoVerdict
          /\ verdict' \in Allowed
          /\ UNCHANGED settled

Next == Decide \/ \E c \in Child : Settle(c)

vars == <<settled, verdict>>

Safety   == Init /\ [][Next]_vars
FairSpec == Safety /\ WF_vars(Decide)
===============================================================================
