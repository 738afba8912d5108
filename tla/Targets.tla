------------------------------ MODULE Targets ------------------------------
(***************************************************************************)
(* The contracts that steps are aimed at in the repository's own runs:     *)
(* echo, router, wild-router and pathological-router.  Each method answers *)
(* its caller; what the answer says of the work behind it differs from     *)
(* method to method, and that is what is modelled: which echo calls a      *)
(* method waits for, which it detaches, and what it keeps in its state.    *)
(***************************************************************************)
EXTENDS Naturals, Sequences, FiniteSets

CONSTANTS
  Flows,    \* calls ever made, from a step or from an adapter
  Numbers,  \* values of n
  Deposits, \* deposits attached to require_one_yocto
  None

RouterMethods == {"route_echo", "route_echo_then", "route_echo_and"}
PathologicalMethods == {"do_honest_work", "burn_gas", "noop_claim_success",
                        "return_decoy_promise", "return_oversized_payload",
                        "require_one_yocto"}
Methods == RouterMethods \union PathologicalMethods \union {"route_echo_fire_and_forget"}

\* arg: n or the attached deposit, where the method takes one.
\* echoes: the outcomes of the echo calls it waits for, in the order they return.
Call == [method: Methods, arg: Nat, state: {"called", "waiting", "ok", "err"},
         echoes: Seq({"ok", "err"})]

VARIABLES
  calls,           \* Flows -> Call, or None
  detached,        \* the detached echo of a flow: None, "sent", "ok", "err", "finished"
  last_finished,   \* wild-router
  calls_completed, \* pathological-router
  finished_after   \* history: pairs <<g, f>>: the detached echo of g reported its
                   \* success after the router had started f

targetVars == <<calls, detached, last_finished, calls_completed, finished_after>>

ASSUME TargetInputs ==
  /\ Numbers \subseteq Nat /\ Deposits \subseteq Nat
  /\ None \notin Nat /\ None \notin Call
  /\ None \notin {"sent", "ok", "err", "finished"}

TargetsTypeOK ==
  /\ calls \in [Flows -> Call \union {None}]
  /\ detached \in [Flows -> {None, "sent", "ok", "err", "finished"}]
  /\ last_finished \in Nat \union {None}
  /\ calls_completed \in Nat
  /\ finished_after \subseteq Flows \X Flows

TargetsInit ==
  /\ calls = [f \in Flows |-> None]
  /\ detached = [f \in Flows |-> None]
  /\ last_finished = None
  /\ calls_completed = 0
  /\ finished_after = {}

\* A function call of a method arrives.
Called(method, arg) ==
  [method |-> method, arg |-> arg, state |-> "called", echoes |-> <<>>]

Answered(f) == calls[f] # None /\ calls[f].state \in {"ok", "err"}

Answer(f, state) == calls' = [calls EXCEPT ![f].state = state]
Waits(f) == calls' = [calls EXCEPT ![f].state = "waiting"]
RunsNow(f, method) == calls[f] # None /\ calls[f].state = "called" /\ calls[f].method = method

----------------------------------------------------------------------------
(* echo, and the callbacks that wait for it.                               *)

\* How many echo calls the answer of a method waits for.
Awaited(method) ==
  CASE method \in {"route_echo", "route_echo_then", "return_decoy_promise"} -> 1
    [] method = "route_echo_and" -> 2
    [] OTHER -> 0

\* An echo call returns, or fails (no such contract, out of gas).
echo(f, outcome) ==
  /\ calls[f] # None /\ calls[f].state = "waiting"
  /\ Len(calls[f].echoes) < Awaited(calls[f].method)
  /\ calls' = [calls EXCEPT ![f].echoes = Append(@, outcome)]
  /\ UNCHANGED <<detached, last_finished, calls_completed, finished_after>>

EchoesIn(f) ==
  /\ calls[f] # None /\ calls[f].state = "waiting"
  /\ Len(calls[f].echoes) = Awaited(calls[f].method)

\* route_echo and return_decoy_promise return the promise itself; on_echo unwraps
\* its result, so that it panics with it.
EchoIsTheAnswer(f) ==
  /\ EchoesIn(f)
  /\ calls[f].method \in {"route_echo", "route_echo_then", "return_decoy_promise"}
  /\ Answer(f, calls[f].echoes[1])
  /\ UNCHANGED <<detached, last_finished, calls_completed, finished_after>>

\* A failed echo counts as the value 0.
on_echo_and(f) ==
  /\ EchoesIn(f)
  /\ calls[f].method = "route_echo_and"
  /\ Answer(f, "ok")
  /\ UNCHANGED <<detached, last_finished, calls_completed, finished_after>>

----------------------------------------------------------------------------
(* The methods.                                                            *)

route_echo(f) ==
  /\ \E method \in RouterMethods : RunsNow(f, method)
  /\ Waits(f)
  /\ UNCHANGED <<detached, last_finished, calls_completed, finished_after>>

Bad_fire_keeps_last_finished(f) ==
  /\ RunsNow(f, "route_echo_fire_and_forget")
  /\ detached' = [detached EXCEPT ![f] = "sent"]
  /\ Answer(f, "ok")
  /\ UNCHANGED <<last_finished, calls_completed, finished_after>>

route_echo_fire_and_forget(f) ==
  /\ RunsNow(f, "route_echo_fire_and_forget")
  /\ last_finished' = None
  /\ detached' = [detached EXCEPT ![f] = "sent"]
  /\ Answer(f, "ok")
  /\ UNCHANGED <<calls_completed, finished_after>>

\* The detached echo returns.
DetachedEcho(f, outcome) ==
  /\ detached[f] = "sent"
  /\ detached' = [detached EXCEPT ![f] = outcome]
  /\ UNCHANGED <<calls, last_finished, calls_completed, finished_after>>

Started == {f \in Flows : detached[f] # None}

on_echo_finished(f) ==
  /\ detached[f] \in {"ok", "err"}
  /\ calls[f].method = "route_echo_fire_and_forget"
  /\ last_finished' = IF detached[f] = "ok" THEN calls[f].arg ELSE None
  /\ finished_after' = IF detached[f] = "ok"
                       THEN finished_after \union ({f} \X Started) ELSE finished_after
  /\ detached' = [detached EXCEPT ![f] = "finished"]
  /\ UNCHANGED <<calls, calls_completed>>

do_honest_work(f) ==
  /\ RunsNow(f, "do_honest_work")
  /\ calls_completed' = calls_completed + 1
  /\ Answer(f, "ok")
  /\ UNCHANGED <<detached, last_finished, finished_after>>

burn_gas(f) ==
  /\ RunsNow(f, "burn_gas")
  /\ Answer(f, "err")
  /\ UNCHANGED <<detached, last_finished, calls_completed, finished_after>>

noop_claim_success(f) ==
  /\ RunsNow(f, "noop_claim_success")
  /\ Answer(f, "ok")
  /\ UNCHANGED <<detached, last_finished, calls_completed, finished_after>>

return_decoy_promise(f) ==
  /\ RunsNow(f, "return_decoy_promise")
  /\ detached' = [detached EXCEPT ![f] = "sent"]
  /\ Waits(f)
  /\ UNCHANGED <<last_finished, calls_completed, finished_after>>

\* The answer is a success here; from 16 kb on it is too long for
\* promise_result_checked, so the sequencer takes it for a failure.
return_oversized_payload(f) ==
  /\ RunsNow(f, "return_oversized_payload")
  /\ Answer(f, "ok")
  /\ UNCHANGED <<detached, last_finished, calls_completed, finished_after>>

Bad_require_at_least_one_yocto(f) ==
  /\ RunsNow(f, "require_one_yocto")
  /\ calls_completed' = calls_completed + calls[f].arg
  /\ Answer(f, "ok")
  /\ UNCHANGED <<detached, last_finished, finished_after>>

require_one_yocto(f) ==
  /\ RunsNow(f, "require_one_yocto")
  /\ IF calls[f].arg = 1
     THEN Answer(f, "ok") /\ calls_completed' = calls_completed + 1
     ELSE Answer(f, "err") /\ UNCHANGED calls_completed
  /\ UNCHANGED <<detached, last_finished, finished_after>>

\* What the runtime runs next for a flow.
TargetRuns(f) ==
  \/ route_echo(f) \/ route_echo_fire_and_forget(f) \/ do_honest_work(f)
  \/ burn_gas(f) \/ noop_claim_success(f) \/ return_decoy_promise(f)
  \/ return_oversized_payload(f) \/ require_one_yocto(f)
  \/ \E outcome \in {"ok", "err"} : echo(f, outcome)
  \/ EchoIsTheAnswer(f) \/ on_echo_and(f)

DetachedRuns(f) ==
  \/ \E outcome \in {"ok", "err"} : DetachedEcho(f, outcome)
  \/ on_echo_finished(f)

\* A Direct step calls a method.
DirectCalls ==
  [method: RouterMethods \union {"route_echo_fire_and_forget"}, arg: Numbers]
  \union [method: {"do_honest_work", "burn_gas", "noop_claim_success",
                   "return_decoy_promise", "return_oversized_payload"}, arg: {0}]
  \union [method: {"require_one_yocto"}, arg: Deposits]

----------------------------------------------------------------------------
(* Properties.                                                             *)

\* calls_completed lets an observer tell work claimed from work done: once no call
\* is under way, it is the number of successes of the two methods that count, and
\* no other method's success is in it.
CompletedIsWorkDone ==
  (\A f \in Flows : calls[f] = None \/ Answered(f)) =>
    calls_completed =
      Cardinality({f \in Flows : calls[f] # None /\ calls[f].state = "ok"
                     /\ \/ calls[f].method = "do_honest_work"
                        \/ calls[f].method = "require_one_yocto" /\ calls[f].arg = 1})
=============================================================================
