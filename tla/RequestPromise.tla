---------------------------- MODULE RequestPromise ----------------------------
(***************************************************************************)
(* What gatewayd promises to the client of a model request, and to the     *)
(* telemetry, whatever happens upstream: one answer, at most one event, a  *)
(* bounded number of upstream calls, none of them once the answer has been *)
(* sent, and an end.  The response may be opened early, with a header and  *)
(* comments that keep the connection alive, before the answer is known.    *)
(***************************************************************************)
EXTENDS Naturals

CONSTANTS
  Requests,
  MaxCalls  \* how often a request may be tried upstream

VARIABLES
  stage,   \* "new", "open" while the handler runs, "ended"
  wire,    \* what has been written: "nothing", "header" or the "answer"
  events,  \* the number of telemetry events
  calls    \* the number of upstream calls

vars == <<stage, wire, events, calls>>

Init ==
  /\ stage = [r \in Requests |-> "new"]
  /\ wire = [r \in Requests |-> "nothing"]
  /\ events = [r \in Requests |-> 0]
  /\ calls = [r \in Requests |-> 0]

Begin(r) ==
  /\ stage[r] = "new"
  /\ stage' = [stage EXCEPT ![r] = "open"]
  /\ UNCHANGED <<wire, events, calls>>

KeepAlive(r) ==
  /\ stage[r] = "open" /\ wire[r] = "nothing"
  /\ wire' = [wire EXCEPT ![r] = "header"]
  /\ UNCHANGED <<stage, events, calls>>

TryUpstream(r) ==
  /\ stage[r] = "open" /\ wire[r] # "answer" /\ calls[r] < MaxCalls
  /\ calls' = [calls EXCEPT ![r] = @ + 1]
  /\ UNCHANGED <<stage, wire, events>>

Answer(r) ==
  /\ stage[r] = "open" /\ wire[r] # "answer"
  /\ wire' = [wire EXCEPT ![r] = "answer"]
  /\ UNCHANGED <<stage, events, calls>>

Emit(r) ==
  /\ stage[r] = "open" /\ events[r] = 0
  /\ events' = [events EXCEPT ![r] = 1]
  /\ UNCHANGED <<stage, wire, calls>>

End(r) ==
  /\ stage[r] = "open" /\ wire[r] = "answer"
  /\ stage' = [stage EXCEPT ![r] = "ended"]
  /\ UNCHANGED <<wire, events, calls>>

Next == \E r \in Requests : 
  Begin(r) \/ KeepAlive(r) \/ TryUpstream(r) \/ Answer(r) \/ Emit(r) \/ End(r)

Spec == Init /\ [][Next]_vars
=============================================================================
