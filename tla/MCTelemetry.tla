----------------------------- MODULE MCTelemetry -----------------------------
(***************************************************************************)
(* The two ends of the telemetry plane, which share nothing but a socket:  *)
(* gatewayd's client with the log it writes to, and telemetryd with the    *)
(* batches it receives.  The initial state chooses which of them runs; the *)
(* other stays at rest.                                                    *)
(***************************************************************************)
EXTENDS TelemetryLog, TLC

CONSTANTS
  e1, e2, k1,
  Loop, Flushers, Callers, BatchSize, QueueSize, MaxAttempts, AskCap, MaxEvents, MaxDials, MaxOutages

VARIABLES
  part,
  emitted, buffer, sender, asks, caller, client, conns, sent, dropped, cancelled, closed, log, up, outages

Client == INSTANCE TelemetryClient

ASSUME ClientsAssumption == Client!ClientAssumption

(* An attempt and an event of another kind, and an old database of at most    *)
(* two rows, synthetic ones.                                                  *)
Plain == [attempt |-> TRUE, synthetic |-> FALSE, key |-> k1]
MCShape == e1 :> Plain @@ e2 :> [Plain EXCEPT !.attempt = FALSE]
MCRowShape == [Plain EXCEPT !.synthetic = TRUE]
MCBatches == {<<e1>>, <<e2, e1>>}

atClient == <<emitted, buffer, sender, asks, caller, client, conns, sent, dropped, cancelled,
              closed, log, up, outages>>

(* At rest telemetryd has started and nothing comes; the client always begins *)
(* at rest.                                                                   *)
LogAtRest ==
  /\ events = <<>> /\ facts = {} /\ aggs = [k \in Keys |-> 0] /\ checkpoint = 0
  /\ proj = [p \in Projectors |-> IF p = "run" THEN [Off EXCEPT !.at = "idle"] ELSE Off]
  /\ rows = 0 /\ import = NoImport /\ saved = [print |-> None, last |-> 0] /\ lost = {} /\ crashes = 0

MCInit ==
  /\ Client!Init
  /\ \/ part = "client" /\ LogAtRest
     \/ part = "log" /\ Init

MCNext ==
  \/ part = "client" /\ Client!Next /\ UNCHANGED <<part, vars>>
  \/ part = "log" /\ Next /\ UNCHANGED <<part, atClient>>

MCSpec ==
  /\ MCInit /\ [][MCNext]_<<part, vars, atClient>>
  /\ Client!Fairness /\ Fairness

(* One type invariant for both. *)
TypesOK == TypeOK /\ Client!TypeOK

EventsAccounted == Client!EventsAccounted
(* Nothing waits for ever: neither a caller of the client nor an event that  *)
(* is in the log.                                                          *)
NothingWaits == Client!CallersReturn /\ EverythingProjected
RedialsAfterLoss == Client!RedialsAfterLoss
=============================================================================
