------------------------------- MODULE Updater -------------------------------
(***************************************************************************)
(* The updater (internal/updater/updater.go) as controld's API and aigw    *)
(* call it: fetch the bundle of the latest release, apply a bundle to the  *)
(* install directory, roll back to the last backup.  There is no lock: the *)
(* calls share the download directory, the backups, the install directory  *)
(* and the status file, which each reads first and writes whole at its     *)
(* end.  Every file that is backed up, installed or put back is truncated  *)
(* before it is written; the process may die at any step.                  *)
(***************************************************************************)
EXTENDS Naturals, Sequences, FiniteSets

CONSTANTS
  Files,     \* the payload, in copying order: manifest, binaries, admin dist
  Old,       \* contents of the installed release
  New,       \* contents of the latest release
  Torn,      \* a file cut short, or not what its manifest says
  Absent,
  MaxTime,   \* bound: the seconds that name backup directories
  MaxCalls   \* bound: how many calls are made

Payload == {Files[i] : i \in DOMAIN Files}
Content == {Old, New, Torn, Absent}
Tree == [Payload -> Content]
Empty == [f \in Payload |-> Absent]

(* What the instance makes true: no file is copied twice. *)
UpdaterAssumption ==
  /\ Files \in Seq(Payload) /\ \A i, j \in DOMAIN Files : Files[i] = Files[j] => i = j
  /\ Absent \notin {Old, New, Torn}
  /\ MaxTime \in Nat /\ MaxCalls \in Nat

(* The calls of the update API, in the order in which they begin.             *)
Callers == 1..MaxCalls

VARIABLES
  install,   \* the install directory
  bundle,    \* the download directory of the latest release
  backups,   \* by the second in their names
  replaced,  \* ghost: what the apply replaced that finished the backup, if known
  cached,    \* the status file names that download as CachedBundleDir
  call,      \* see Call
  now,
  calls      \* the calls made so far

vars == <<install, bundle, backups, replaced, cached, call, now, calls>>

Time == 0..MaxTime

(* next: the file it is at.  before: the install directory when the call began*)
(* to copy.  alone: no other call has been running since it began, and no     *)
(* earlier backup has its name.  truncated: the file it is at is cut short.   *)
Call ==
  [at        : {"none", "extract", "backup", "copy", "restore", "rollback", "save"},
   next      : 1..Len(Files) + 1,
   stamp     : Time,
   before    : Tree,
   cached    : BOOLEAN,     \* CachedBundleDir of the status it will save
   applies   : BOOLEAN,     \* it fetches in order to apply
   truncated : BOOLEAN,
   alone     : BOOLEAN,
   result    : {"none", "fetched", "applied", "restored", "unrestored", "rolledback", "failed"}]

NoCall == [at |-> "none", next |-> 1, stamp |-> 0, before |-> Empty, cached |-> FALSE,
           applies |-> FALSE, truncated |-> FALSE, alone |-> FALSE, result |-> "none"]

UpdaterTypeOK ==
  /\ install \in Tree /\ bundle \in Tree
  /\ backups \in [Time -> Tree] /\ replaced \in [Time -> Tree] /\ cached \in BOOLEAN
  /\ call \in [Callers -> Call]
  /\ now \in Time /\ calls \in 0..MaxCalls

(* The old release may lack files that the new one brings; the new one may    *)
(* have been fetched before.                                                  *)
UpdaterInit ==
  /\ install \in [Payload -> {Old, Absent}]
  /\ cached \in BOOLEAN /\ bundle = [f \in Payload |-> IF cached THEN New ELSE Absent]
  /\ backups = [t \in Time |-> Empty] /\ replaced = backups
  /\ call = [c \in Callers |-> NoCall] /\ now = 0 /\ calls = 0

File(c) == Files[call[c].next]
More(c) == call[c].next <= Len(Files)
To(c, where) == [call EXCEPT ![c].at = where, ![c].next = 1, ![c].truncated = FALSE]
End(c, result) == [call EXCEPT ![c].at = "save", ![c].next = 1, ![c].applies = FALSE, ![c].truncated = FALSE,
                               ![c].result = result]
NextFile(c) == [call EXCEPT ![c].next = @ + 1, ![c].truncated = FALSE]

(* Another call begins: whoever is running is no longer alone.                *)
Begin(c, r) ==
  /\ c = calls + 1 /\ calls' = c
  /\ LET others == {d \in Callers : call[d].at # "none"}
     IN call' = [d \in Callers |->
                   IF d = c THEN [r EXCEPT !.alone = others = {} /\ (r.at = "backup" => backups[r.stamp] = Empty)]
                   ELSE [call[d] EXCEPT !.alone = FALSE]]

------------------------------------------------------------------------------
(* FetchLatest, of Fetch or of an Apply that downloads: asks for the release, *)
(* removes the download directory, then downloads, extracts file by file and  *)
(* verifies.                                                                  *)
Fetch(c) ==
  /\ \/ /\ \E applies \in BOOLEAN :
             Begin(c, [NoCall EXCEPT !.at = "extract", !.cached = cached, !.applies = applies])
        /\ bundle' = Empty
     \/ /\ Begin(c, [NoCall EXCEPT !.at = "save", !.cached = cached, !.result = "failed"])
        /\ UNCHANGED bundle
  /\ UNCHANGED <<install, backups, replaced, cached, now>>

Extract(c) ==
  /\ call[c].at = "extract" /\ More(c)
  /\ \/ \E content \in {New, Torn} : bundle' = [bundle EXCEPT ![File(c)] = content] /\ call' = NextFile(c)
     \/ call' = End(c, "failed") /\ UNCHANGED bundle
  /\ UNCHANGED <<install, backups, replaced, cached, now, calls>>

Verified == \A f \in Payload : bundle[f] = New

FetchEnds(c) ==
  /\ call[c].at = "extract" /\ ~More(c) /\ ~(Verified /\ call[c].applies)
  /\ call' = IF Verified THEN [End(c, "fetched") EXCEPT ![c].cached = TRUE] ELSE End(c, "failed")
  /\ UNCHANGED <<install, bundle, backups, replaced, cached, now, calls>>

(* A backup made in the second of an earlier one is written over it.          *)
Reuses(t) == replaced' = [replaced EXCEPT ![t] = Empty]

(* What was downloaded for Apply goes to ApplyBundle at once.                 *)
ApplyFetched(c) ==
  /\ call[c].at = "extract" /\ ~More(c) /\ Verified /\ call[c].applies
  /\ call' = [call EXCEPT ![c] =
                [NoCall EXCEPT !.at = "backup", !.stamp = now, !.before = install, !.cached = TRUE,
                               !.alone = call[c].alone /\ backups[now] = Empty]]
  /\ Reuses(now)
  /\ UNCHANGED <<install, bundle, backups, cached, now, calls>>

(* ApplyBundle verifies the bundle again, whatever the status file says.      *)
MayApply == cached /\ Verified

Apply(c) ==
  /\ Begin(c, [NoCall EXCEPT !.at = IF MayApply THEN "backup" ELSE "save", !.stamp = now,
                             !.before = install, !.cached = cached,
                             !.result = IF MayApply THEN "none" ELSE "failed"])
  /\ IF MayApply THEN Reuses(now) ELSE UNCHANGED replaced
  /\ UNCHANGED <<install, bundle, backups, cached, now>>

(* The three uses of copyFile: backupInstallPayload, copyBundlePayload and    *)
(* restoreInstallPayload.  (The admin dist is swapped by a rename instead:    *)
(* between the removal and the rename it counts as cut short.)                *)
Copying == {"backup", "copy", "restore", "rollback"}

Source(c) == IF call[c].at = "backup" THEN install
             ELSE IF call[c].at = "copy" THEN bundle ELSE backups[call[c].stamp]

Write(c, content) ==
  IF call[c].at = "backup"
    THEN backups' = [backups EXCEPT ![call[c].stamp][File(c)] = content] /\ UNCHANGED install
    ELSE install' = [install EXCEPT ![File(c)] = content] /\ UNCHANGED backups

Truncate(c) ==
  /\ call[c].at \in Copying /\ More(c) /\ ~call[c].truncated /\ Source(c)[File(c)] # Absent
  /\ Write(c, Torn)
  /\ call' = [call EXCEPT ![c].truncated = TRUE]
  /\ UNCHANGED <<bundle, replaced, cached, now, calls>>

Copy(c) ==
  /\ call[c].at \in Copying /\ More(c) /\ call[c].truncated
  /\ Write(c, IF Source(c)[File(c)] = Absent THEN Torn ELSE Source(c)[File(c)])
  /\ call' = NextFile(c)
  /\ UNCHANGED <<bundle, replaced, cached, now, calls>>

(* What the installation lacks is not backed up, what the backup lacks is not *)
(* put back: what the new release added stays.                                *)
Skip(c) ==
  /\ call[c].at \in Copying \ {"copy"} /\ More(c) /\ ~call[c].truncated /\ Source(c)[File(c)] = Absent
  /\ call' = NextFile(c)
  /\ UNCHANGED <<install, bundle, backups, replaced, cached, now, calls>>

(* Mutant: what was copied before the error is left as it is.                 *)
BugCopyFails(c) ==
  /\ call[c].at \in Copying /\ More(c)
  /\ call' = End(c, IF call[c].at = "copy" THEN "restored" ELSE "failed")
  /\ UNCHANGED <<install, bundle, backups, replaced, cached, now, calls>>

(* An error, with the file cut short or before it is opened.  One while       *)
(* installing puts the backup back, any other ends the call.                  *)
CopyFails(c) ==
  /\ call[c].at \in Copying /\ More(c)
  /\ call' = IF call[c].at = "copy" THEN To(c, "restore")
             ELSE End(c, IF call[c].at = "restore" THEN "unrestored" ELSE "failed")
  /\ UNCHANGED <<install, bundle, backups, replaced, cached, now, calls>>

BackupEnds(c) ==
  /\ call[c].at = "backup" /\ ~More(c)
  /\ call' = To(c, "copy")
  /\ replaced' = IF call[c].alone THEN [replaced EXCEPT ![call[c].stamp] = call[c].before] ELSE replaced
  /\ UNCHANGED <<install, bundle, backups, cached, now, calls>>

ApplyEnds(c) ==
  /\ call[c].at = "copy" /\ ~More(c)
  /\ call' = [End(c, "applied") EXCEPT ![c].cached = TRUE]
  /\ UNCHANGED <<install, bundle, backups, replaced, cached, now, calls>>

RestoreEnds(c) ==
  /\ call[c].at \in {"restore", "rollback"} /\ ~More(c)
  /\ call' = End(c, IF call[c].at = "rollback" THEN "rolledback" ELSE "restored")
  /\ UNCHANGED <<install, bundle, backups, replaced, cached, now, calls>>

(* Rollback takes the backup with the last name, finished or not.             *)
Kept == {t \in Time : backups[t] # Empty}

Rollback(c) ==
  /\ Kept # {}
  /\ LET last == CHOOSE t \in Kept : \A u \in Kept : u <= t
     IN Begin(c, [NoCall EXCEPT !.at = "rollback", !.stamp = last, !.before = install, !.cached = cached])
  /\ UNCHANGED <<install, bundle, backups, replaced, cached, now>>

(* saveStatus writes the status that was read when the call began, changed.   *)
Save(c) ==
  /\ call[c].at = "save"
  /\ cached' = call[c].cached
  /\ call' = [call EXCEPT ![c] = NoCall]
  /\ UNCHANGED <<install, bundle, backups, replaced, now, calls>>

Tick ==
  /\ now < MaxTime /\ now' = now + 1
  /\ UNCHANGED <<install, bundle, backups, replaced, cached, call, calls>>

(* The daemon dies; the directories stay as they are.                         *)
Dies ==
  /\ \E c \in Callers : call[c].at # "none"
  /\ call' = [c \in Callers |-> NoCall]
  /\ UNCHANGED <<install, bundle, backups, replaced, cached, now, calls>>

UpdaterNext ==
  \/ \E c \in Callers :
       \/ Fetch(c) \/ Extract(c) \/ FetchEnds(c) \/ ApplyFetched(c)
       \/ Apply(c) \/ Truncate(c) \/ Copy(c) \/ Skip(c) \/ CopyFails(c)
       \/ BackupEnds(c) \/ ApplyEnds(c) \/ RestoreEnds(c) \/ Rollback(c) \/ Save(c)
  \/ Tick \/ Dies

------------------------------------------------------------------------------
Had(c) == {f \in Payload : call[c].before[f] # Absent}

(* An apply that no other call overlapped installs the release that was       *)
(* verified or puts back every file there was, and holds a copy of all of     *)
(* them from the first byte it overwrites.  No later call, failure or death   *)
(* cuts that backup short unless it is made in the same second; a rollback to *)
(* it brings back what was replaced.  (A backup that a death or an error      *)
(* ended has no such promise, and a rollback takes it all the same when it is *)
(* the last: it then installs files cut short and reports RolledBack.  Calls  *)
(* that overlap promise nothing: there is no lock.)                           *)
UpdateSafe ==
  /\ \A c \in Callers : call[c].alone =>
       /\ call[c].result = "applied" => \A f \in Payload : install[f] = New
       /\ call[c].result = "restored" => \A f \in Had(c) : install[f] = call[c].before[f]
       /\ call[c].at \in {"copy", "restore"} =>
            \A f \in Had(c) : backups[call[c].stamp][f] = call[c].before[f]
       /\ call[c].result = "rolledback" =>
            \A f \in Payload : replaced[call[c].stamp][f] \in {Absent, install[f]}
  /\ \A t \in Time, f \in Payload : replaced[t][f] \in {Absent, backups[t][f]}
==============================================================================
