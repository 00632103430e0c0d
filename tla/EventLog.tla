------------------------------- MODULE EventLog -------------------------------
(***************************************************************************)
(* telemetryd's table of events (internal/telemetry/eventlog/log.go), to   *)
(* which batches are appended, each in a transaction of its own.           *)
(***************************************************************************)
EXTENDS Naturals, Sequences

(* Append inserts the events of a batch one after another.  Any error of an   *)
(* insert makes the event one of the dropped, and the others are committed:   *)
(* its id is in the table, perhaps from this batch, or it is at one of the    *)
(* places where the insert failed for another reason.                         *)
Appended(table, batch, failed) ==
  LET after[n \in 0..Len(batch)] ==
        IF n = 0 THEN table
        ELSE IF n \in failed \/ \E i \in DOMAIN after[n - 1] : after[n - 1][i] = batch[n] THEN after[n - 1]
        ELSE Append(after[n - 1], batch[n])
  IN after[Len(batch)]
===============================================================================
