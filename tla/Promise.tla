-------------------------------- MODULE Promise --------------------------------
(***************************************************************************)
(* The promises of several waiting continuables: promise_base over a type  *)
(* erased callback, split (detail/operations/split.hpp) with the class of  *)
(* its documentation that lets waiters join a promise and resolves all of  *)
(* them, the resolvers of promisify and of the asio adapter, and the       *)
(* std::promise that is behind a future transform.                         *)
(*                                                                         *)
(* Everything runs on one thread, but in the callback of a waiter the      *)
(* program may do anything it may do elsewhere: wait again, resolve again. *)
(* calls is the stack of the running calls of a split.                     *)
(***************************************************************************)
EXTENDS Naturals, SequencesExt

CONSTANTS Waiter,  \* continuables that are started once each
          Future,  \* those with a future behind their promise, not a chain
          Outward, \* bound: those that may be given to a foreign operation
          MaxCalls \* bound: calls of the split that run inside of each other

ASSUME PromiseAssumption == Future \cup Outward \subseteq Waiter /\ MaxCalls \in Nat

VARIABLES place,   \* who has the promise of each waiter
          data,    \* data_ of the promise_base of each waiter
          promise, \* the promises in promise_, in the order a call visits them
          calls,   \* the running calls, the innermost one first
          got,     \* what each waiter was told
          cause,   \* what was to become of each waiter
          excused  \* waiters nobody has promised anything to

vars == <<place, data, promise, calls, got, cause, excused>>

Signal  == {"value", "exception", "canceled"}
Mapper  == {"map_default", "map_none", "map_ignore"}
Foreign == Mapper \cup {"promisify"}
Place   == Foreign \cup {"unstarted", "program", "split", "destroyed"}

\* The error code a foreign operation completes with: none, operation_aborted, or
\* another one; map_ignore lists some of the latter two.
Code == {"none", "aborted", "failed", "ignored", "aborted_ignored"}

\* data_ is a callable until its call has returned.
Data == {"callback", "calling", "null"}

\* The values the variables may have; no promise is in promise_ twice.
TypeOK == /\ place \in [Waiter -> Place]
          /\ data \in [Waiter -> Data]
          /\ promise \in Seq(Waiter) /\ IsInjective(promise)
          /\ calls \in Seq([todo : Seq(Waiter), all : Seq(Waiter), signal : Signal,
                            whole : BOOLEAN, serving : SUBSET Waiter, inPlace : BOOLEAN])
          /\ Len(calls) <= MaxCalls
          /\ \A w \in Waiter : Len(cause[w]) <= 1 /\ ToSet(cause[w]) \subseteq Signal
          /\ excused \subseteq Waiter

Valid(w) == data[w] # "null"

Init == /\ place = [w \in Waiter |-> "unstarted"]
        /\ data = [w \in Waiter |-> "callback"]
        /\ promise = <<>>
        /\ calls = <<>>
        /\ got = [w \in Waiter |-> <<>>]
        /\ cause = [w \in Waiter |-> <<>>]
        /\ excused = {}

\* promise_callback: a std::promise is fulfilled.  A cancellation is a null
\* exception_ptr, with which set_exception is undefined.
FutureOutcome(signal) == IF signal = "canceled" THEN "undefined" ELSE signal

\* An argument that was moved from is a husk; an exception then is no more than a
\* cancellation.
Damaged(signal) == IF signal = "value" THEN "husk" ELSE "canceled"

Told(w, signal, whole) ==
  LET s == IF whole THEN signal ELSE Damaged(signal)
  IN  IF w \in Future THEN FutureOutcome(s) ELSE s

Tell(w, outcome) == got' = [got EXCEPT ![w] = Append(@, outcome)]

\* A promise that is destroyed with its callback: a chain is silent, a future broken.
Dropped(w) == IF w \in Future THEN "broken" ELSE "dropped"

DropAll(ws) ==
  /\ got' = [w \in Waiter |->
              IF w \in ws /\ Valid(w) THEN Append(got[w], Dropped(w)) ELSE got[w]]
  /\ data' = [w \in Waiter |-> IF w \in ws THEN "null" ELSE data[w]]
  /\ place' = [w \in Waiter |-> IF w \in ws THEN "destroyed" ELSE place[w]]
-------------------------------------------------------------------------------
\* A continuation is invoked with the promise of w, which p gets.
Begin(w, p) ==
  /\ place[w] = "unstarted"
  /\ place' = [place EXCEPT ![w] = p]
  /\ UNCHANGED <<data, promise, calls, got, cause, excused>>

\* The continuation keeps the promise; a future is made of the continuable, or not.
Start(w) == Begin(w, "program")

\* promisify_helper::from: the promise goes into the callback of a foreign function.
Promisify(w) == w \in Outward /\ Begin(w, "promisify")

\* initiate_make_continuable and promise_resolver_handler: into the handler of an
\* operation of asio.
Initiate(w, mapper) == w \in Outward /\ Begin(w, mapper)

\* promise_base::set_value, set_exception, set_canceled
Resolve(w, signal) ==
  /\ Tell(w, Told(w, signal, TRUE))
  /\ data' = [data EXCEPT ![w] = "null"]

\* The program resolves a promise itself; it may give it to split all the same.
ResolveDirectly(w, signal) ==
  /\ place[w] = "program" /\ Valid(w)
  /\ Resolve(w, signal)
  /\ cause' = [cause EXCEPT ![w] = <<signal>>]
  /\ UNCHANGED <<place, promise, calls, excused>>

\* default_resolver
DefaultResolver(code) == IF code = "none" THEN "value" ELSE "exception"

IsIgnored(mapper, code) ==
  mapper = "map_ignore" /\ code \in {"ignored", "aborted_ignored"}

IsCancellation(mapper, code) ==
  mapper \in {"map_default", "map_ignore"} /\ code \in {"aborted", "aborted_ignored"}

\* promise_resolver::operator()
PromiseResolver(mapper, code) ==
  IF code = "none" \/ IsIgnored(mapper, code) THEN "value"
  ELSE IF IsCancellation(mapper, code) THEN "canceled"
  ELSE "exception"

\* What the error codes mean, in a table: a listed code is no error to map_ignore, and
\* operation_aborted is a cancellation to everybody but map_none and promisify.
Meant(mapper, code) ==
  LET fine == {"none"} \cup IF mapper = "map_ignore" THEN {"ignored", "aborted_ignored"} ELSE {}
      aborting == {"aborted", "aborted_ignored"} \ fine
  IN  CASE code \in fine -> "value"
        [] code \in aborting /\ mapper \notin {"map_none", "promisify"} -> "canceled"
        [] OTHER -> "exception"

\* The foreign operation calls its handler, once, and destroys it.
Complete(w, code) ==
  /\ place[w] \in Foreign
  /\ Resolve(w, IF place[w] = "promisify" THEN DefaultResolver(code)
                                          ELSE PromiseResolver(place[w], code))
  /\ cause' = [cause EXCEPT ![w] = <<Meant(place[w], code)>>]
  /\ place' = [place EXCEPT ![w] = "destroyed"]
  /\ UNCHANGED <<promise, calls, excused>>

\* The program, or the foreign operation, destroys the promise.
Abandon(w) ==
  /\ place[w] \in Foreign \cup {"program"}
  /\ DropAll({w})
  /\ excused' = excused \cup {w}
  /\ UNCHANGED <<promise, calls, cause>>

InPlace == \E i \in DOMAIN calls : calls[i].inPlace

\* promise_ = split(std::move(promise_), promise): the new promise is visited first.
\* A running call goes on in the split that has become a part of the new one; it
\* will not come to the new promise.
Join(w) ==
  /\ place[w] = "program"
  /\ place' = [place EXCEPT ![w] = "split"]
  /\ promise' = <<w>> \o promise
  /\ excused' = IF InPlace THEN excused \cup {w} ELSE excused
  /\ UNCHANGED <<data, calls, got, cause>>

\* split_promise::operator bool
AnyValid == \E w \in ToSet(promise) : Valid(w)

\* promise_.set_value() and its relatives, or the same for a promise that promise_
\* was moved to.  promise_ may not be resolved again while it is being resolved, and
\* not while it is empty.
Call(signal, inPlace) ==
  /\ AnyValid /\ Len(calls) < MaxCalls /\ ~InPlace
  /\ calls' = <<[todo |-> promise, all |-> promise, signal |-> signal, whole |-> TRUE,
                 serving |-> {}, inPlace |-> inPlace]>> \o calls
  /\ promise' = IF inPlace THEN promise ELSE <<>>
  /\ cause' = [w \in Waiter |->
                IF w \in ToSet(promise) /\ cause[w] = <<>> THEN <<signal>> ELSE cause[w]]
  /\ UNCHANGED <<place, data, got, excused>>

Top == calls[1]
SetTop(frame) == calls' = <<frame>> \o Tail(calls)

Serving == calls # <<>> /\ Top.serving = {} /\ Top.todo # <<>>

\* The promise of w is called, or passed by because it is empty; rest is still to be
\* visited, and whole tells whether the arguments are.
CallNext(w, rest, whole) ==
  /\ Tell(w, Told(w, Top.signal, Top.whole))
  /\ data' = [data EXCEPT ![w] = "calling"]
  /\ SetTop([Top EXCEPT !.todo = rest, !.serving = {w}, !.whole = whole])

PassNext(rest) == SetTop([Top EXCEPT !.todo = rest]) /\ UNCHANGED <<got, data>>

\* Faults: the arguments are forwarded to every promise; the promise that was split
\* first is forgotten; an empty promise ends the call.
ServeForwards ==
  /\ Serving
  /\ IF Valid(Head(Top.todo)) THEN CallNext(Head(Top.todo), Tail(Top.todo), FALSE)
                              ELSE PassNext(Tail(Top.todo))
  /\ UNCHANGED <<place, promise, cause, excused>>
ServeRestOnly ==
  /\ Serving
  /\ IF Valid(Head(Top.todo)) /\ Len(Top.todo) > 1
       THEN CallNext(Head(Top.todo), Tail(Top.todo), TRUE)
       ELSE PassNext(Tail(Top.todo))
  /\ UNCHANGED <<place, promise, cause, excused>>
ServeUntilEmpty ==
  /\ Serving
  /\ IF Valid(Head(Top.todo)) THEN CallNext(Head(Top.todo), Tail(Top.todo), Len(Top.todo) > 1)
                              ELSE PassNext(<<>>)
  /\ UNCHANGED <<place, promise, cause, excused>>

\* split_promise::operator(): the next promise is called, unless it is empty.  All
\* of them get copies of the arguments but the last, first_, that they are moved to.
Serve ==
  /\ Serving
  /\ IF Valid(Head(Top.todo)) THEN CallNext(Head(Top.todo), Tail(Top.todo), Len(Top.todo) > 1)
                              ELSE PassNext(Tail(Top.todo))
  /\ UNCHANGED <<place, promise, cause, excused>>

\* The callback of the waiter returns, and its promise is reset.
Return ==
  /\ calls # <<>> /\ Top.serving # {}
  /\ data' = [w \in Waiter |-> IF w \in Top.serving THEN "null" ELSE data[w]]
  /\ SetTop([Top EXCEPT !.serving = {}])
  /\ UNCHANGED <<place, promise, got, cause, excused>>

\* The call returns.  data_ = nullptr then destroys whatever promise_ holds by now.
EndCall ==
  /\ calls # <<>> /\ Top.serving = {} /\ Top.todo = <<>>
  /\ DropAll(ToSet(IF Top.inPlace THEN promise ELSE Top.all))
  /\ promise' = IF Top.inPlace THEN <<>> ELSE promise
  /\ calls' = Tail(calls)
  /\ UNCHANGED <<cause, excused>>

\* The object promise_ is a member of is destroyed, but not in one of its functions.
DestroyOwner ==
  /\ promise # <<>> /\ ~InPlace
  /\ DropAll(ToSet(promise))
  /\ excused' = excused \cup ToSet(promise)
  /\ promise' = <<>>
  /\ UNCHANGED <<calls, cause>>

\* Nothing is left to do for the program.
Finished == /\ calls = <<>> /\ \A w \in Waiter : place[w] = "destroyed"
            /\ UNCHANGED vars

Next ==
  \/ \E w \in Waiter :
       \/ Start(w) \/ Promisify(w) \/ \E m \in Mapper : Initiate(w, m)
       \/ \E s \in Signal : ResolveDirectly(w, s)
       \/ \E c \in Code : Complete(w, c)
       \/ Abandon(w) \/ Join(w)
  \/ \E s \in Signal, b \in BOOLEAN : Call(s, b)
  \/ Serve \/ Return \/ EndCall
  \/ DestroyOwner
  \/ Finished

Spec == Init /\ [][Next]_vars

\* The library goes on, and the callbacks return.
FairSpec == Spec /\ WF_vars(Serve) /\ WF_vars(Return) /\ WF_vars(EndCall)
-------------------------------------------------------------------------------
\* A waiter is told once, and what it is told is what the promise was resolved with,
\* or that it was dropped: no promise of a split takes the arguments away from the
\* next one, no promise is used twice, and no error code is taken for another.  A
\* future cannot be told of a cancellation (detail/transforms/future.hpp:84).
OutcomeJustified ==
  \A w \in Waiter :
    /\ Len(got[w]) <= 1
    /\ got[w] # <<>> /\ got[w][1] # Dropped(w) =>
         /\ \/ got[w] = cause[w]
            \/ got[w] = <<"undefined">> /\ w \in Future /\ cause[w] = <<"canceled">>

\* Nobody who waits is forgotten: a promise dies with its callback only if the program,
\* or the foreign operation, destroys it, or if it joined promise_ inside of a call of
\* promise_, which resets it in the end (continuable-promise-base.hpp:159-162).
NobodyForgotten ==
  \A w \in Waiter : got[w] # <<>> /\ got[w][1] = Dropped(w) => w \in excused

\* "Resolves all waiting promises" (operations/split.hpp): whoever is in the split when
\* it is called is told of something else than the end of its promise.
Served ==
  \A w \in Waiter :
    (calls # <<>> /\ w \in ToSet(Top.all)) ~> (got[w] # <<>> /\ got[w][1] # Dropped(w))
===============================================================================
