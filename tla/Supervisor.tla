----------------------------- MODULE Supervisor -----------------------------
(***************************************************************************)
(* aigw supervise (cmd/aigw/supervisor.go): checks the bundle, starts the  *)
(* daemons one after another, waits until a signal comes or one of them    *)
(* exits with an error, and stops them.  The result of a daemon's exit     *)
(* arrives on a channel of one place that two readers compete for: the     *)
(* watcher goroutine started with the daemon, and whoever waits for it to  *)
(* settle or to stop.                                                      *)
(***************************************************************************)
EXTENDS Naturals, Sequences

CONSTANT Daemons   \* in the order superviseProcessSpecs lists them

Daemon == {Daemons[i] : i \in DOMAIN Daemons}

SuperviseAssumption ==
  /\ Daemons \in Seq(Daemon) /\ Daemons # << >>
  /\ \A i, j \in DOMAIN Daemons : Daemons[i] = Daemons[j] => i = j

VARIABLES
  boss,     \* what runSupervise is doing
  at,       \* the daemon it starts, or reaps, as an index
  signalled,\* the context of NotifyContext is done
  process,
  sigterm, sigkill, \* the daemons a signal has been sent to
  done,     \* the channel of each daemon
  watcher,  \* those whose watcher goroutine still waits
  childExited

superviseVars == <<boss, at, signalled, process, sigterm, sigkill, done, watcher, childExited>>

Exit == {"ok", "error"}

SuperviseTypeOK ==
  /\ boss \in {"verify", "start", "settle", "health", "wait", "term", "reap", "gone"}
  /\ at \in 0..Len(Daemons) + 1 /\ signalled \in BOOLEAN
  /\ process \in [Daemon -> {"none", "running"} \cup Exit]
  /\ sigterm \subseteq Daemon /\ sigkill \subseteq Daemon
  /\ done \in [Daemon -> {"empty"} \cup Exit]
  /\ watcher \subseteq Daemon /\ childExited \in BOOLEAN

SuperviseInit ==
  /\ boss = "verify" /\ at = 1 /\ signalled = FALSE
  /\ process = [d \in Daemon |-> "none"] /\ sigterm = {} /\ sigkill = {}
  /\ done = [d \in Daemon |-> "empty"] /\ watcher = {} /\ childExited = FALSE

Started == {d \in Daemon : process[d] # "none"}
Running == {d \in Daemon : process[d] = "running"}

------------------------------------------------------------------------------
(* verifyLocalBundle and verifyDaemonBinaryVersions refuse a mixed bundle     *)
(* before anything is started.                                                *)
Verify ==
  /\ boss = "verify"
  /\ boss' \in {"start", "gone"}
  /\ UNCHANGED <<at, signalled, process, sigterm, sigkill, done, watcher, childExited>>

StopAll == boss' = "term" /\ at' = 0

(* No binary, no config, no log file, or a failed exec, which a context that  *)
(* is already done makes certain: what was started is stopped.                *)
StartFails ==
  /\ boss = "start" /\ StopAll
  /\ UNCHANGED <<signalled, process, sigterm, sigkill, done, watcher, childExited>>

Start ==
  /\ boss = "start" /\ ~signalled /\ boss' = "settle"
  /\ process' = [process EXCEPT ![Daemons[at]] = "running"]
  /\ watcher' = watcher \cup {Daemons[at]}
  /\ UNCHANGED <<at, signalled, sigterm, sigkill, done, childExited>>

(* waitAfterStart: 400 ms in which the daemon must not exit, with an error or *)
(* without, unless the watcher sees it first.                                 *)
Settle ==
  /\ boss = "settle"
  /\ \/ /\ signalled /\ StopAll /\ UNCHANGED done
     \/ /\ done[Daemons[at]] # "empty" /\ StopAll
        /\ done' = [done EXCEPT ![Daemons[at]] = "empty"]
     \/ /\ IF at < Len(Daemons) THEN boss' = "start" /\ at' = at + 1
                                ELSE boss' = "health" /\ UNCHANGED at
        /\ UNCHANGED done
  /\ UNCHANGED <<signalled, process, sigterm, sigkill, watcher, childExited>>

(* waitForHTTP ends when controld answers, at the timeout or with the         *)
(* context; either way supervise says that it is ready.                       *)
Health ==
  /\ boss = "health" /\ boss' = "wait"
  /\ UNCHANGED <<at, signalled, process, sigterm, sigkill, done, watcher, childExited>>

Wait ==
  /\ boss = "wait" /\ StopAll
  /\ \/ signalled /\ UNCHANGED <<signalled, childExited>>
     \/ childExited /\ childExited' = FALSE /\ signalled' = TRUE   \* stop()
  /\ UNCHANGED <<process, sigterm, sigkill, done, watcher>>

(* stopProcesses: SIGTERM to all, last first, then for each its result or     *)
(* five seconds and SIGKILL.                                                  *)
Terminate ==
  /\ boss = "term" /\ boss' = "reap" /\ at' = Len(Daemons)
  /\ sigterm' = Running
  /\ UNCHANGED <<signalled, process, sigkill, done, watcher, childExited>>

(* Mutant: a daemon that outlives the timeout is left.                        *)
BugReap ==
  /\ boss = "reap"
  /\ IF at = 0 THEN boss' = "gone" /\ UNCHANGED at ELSE at' = at - 1 /\ UNCHANGED boss
  /\ UNCHANGED <<signalled, process, sigterm, sigkill, done, watcher, childExited>>

Reap ==
  /\ boss = "reap"
  /\ \/ /\ at = 0 /\ boss' = "gone"
        /\ UNCHANGED <<at, sigkill, done>>
     \/ /\ at > 0 /\ at' = at - 1 /\ UNCHANGED boss
        /\ LET d == Daemons[at]
           IN \/ d \notin Started /\ UNCHANGED <<sigkill, done>>
              \/ d \in Started /\ done[d] # "empty"
                   /\ done' = [done EXCEPT ![d] = "empty"] /\ UNCHANGED sigkill
              \/ d \in Started /\ sigkill' = sigkill \cup {d} /\ UNCHANGED done
  /\ UNCHANGED <<signalled, process, sigterm, watcher, childExited>>

------------------------------------------------------------------------------
Signal ==
  /\ boss # "gone" /\ ~signalled /\ signalled' = TRUE
  /\ UNCHANGED <<boss, at, process, sigterm, sigkill, done, watcher, childExited>>

(* exec.CommandContext kills its process when the context is done.            *)
ContextKills(d) ==
  /\ boss # "gone" /\ signalled /\ d \in Running /\ d \notin sigkill
  /\ sigkill' = sigkill \cup {d}
  /\ UNCHANGED <<boss, at, signalled, process, sigterm, done, watcher, childExited>>

(* A daemon exits by itself, or because of a signal; cmd.Wait passes that on  *)
(* while there is a supervisor.                                               *)
Exits(d) ==
  /\ d \in Running
  /\ \E code \in IF d \in sigkill THEN {"error"} ELSE Exit :
       /\ process' = [process EXCEPT ![d] = code]
       /\ done' = IF boss = "gone" THEN done ELSE [done EXCEPT ![d] = code]
  /\ UNCHANGED <<boss, at, signalled, sigterm, sigkill, watcher, childExited>>

(* The watcher forwards an error, once, and keeps silent about a clean exit.  *)
Watch(d) ==
  /\ boss # "gone" /\ d \in watcher /\ done[d] # "empty"
  /\ watcher' = watcher \ {d} /\ done' = [done EXCEPT ![d] = "empty"]
  /\ childExited' = (childExited \/ done[d] = "error")
  /\ UNCHANGED <<boss, at, signalled, process, sigterm, sigkill>>

Boss == Verify \/ StartFails \/ Start \/ Settle \/ Health \/ Wait \/ Terminate \/ Reap

SuperviseNext ==
  \/ Boss \/ Signal
  \/ \E d \in Daemon : ContextKills(d) \/ Exits(d) \/ Watch(d)

(* Its timers fire and its goroutines run; a killed process ends.  Each does  *)
(* so once, so that fairness to all is fairness to each.  Nothing is assumed  *)
(* of a daemon that was only asked to stop.                                   *)
SuperviseFairness ==
  /\ WF_superviseVars(Boss)
  /\ WF_superviseVars(\E d \in Daemon : Watch(d))
  /\ WF_superviseVars(\E d \in sigkill : Exits(d))

------------------------------------------------------------------------------
(* When aigw returns, however it came to that, every daemon it started has    *)
(* exited or has been sent a SIGKILL: none is left holding the ports and the  *)
(* sockets of the next start.                                                 *)
NoOrphans == boss = "gone" => \A d \in Running : d \in sigkill

(* A daemon that dies with an error, at any point, brings the others down.    *)
ErrorStopsAll ==
  (\E d \in Daemon : process[d] = "error") ~> (boss = "gone" /\ Running = {})
=============================================================================
