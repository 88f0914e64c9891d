----------------------------- MODULE DaemonLock -----------------------------
(***************************************************************************)
(* The daemon's operation lock: src/src/daemon/supervisor.ts,              *)
(* withDaemonLock() and recoverLock().                                     *)
(*                                                                         *)
(* Commands (start, stop, restart) and a gateway the App starts are each a *)
(* process, and take turns by a directory: mkdir is the lock, owner.json   *)
(* in it says whose.  A lock left by a killed process is removed by a      *)
(* waiter, one at a time behind a second directory, the marker.  Every     *)
(* call to the file system is a step of its own, and a process can be      *)
(* killed between any two.                                                 *)
(***************************************************************************)
EXTENDS Naturals, FiniteSets

CONSTANTS
  Procs,       \* the processes that take the lock; one killed or ended does not come back (its start time is part of its name)
  Racing,      \* others take several steps while a recovery is between what it reads and what it does about it
  Suspending,  \* START_TIMEOUT_MS pass while a process is between two of its synchronous steps (the machine sleeps)
  None         \* no process

ASSUME NoneIsNoProc == None \notin Procs
ASSUME SwitchesAreBoolean == {Racing, Suspending} \subseteq BOOLEAN

VARIABLES
  pc,      \* where each process is in withDaemonLock() or recoverLock()
  lock,    \* the lock's directory, the owner.json in it, and whether it is START_TIMEOUT_MS old
  marker,  \* the recovery's marker
  seen     \* the owner a recovery read

vars == <<pc, lock, marker, seen>>

\* A process that made or is removing the lock, and one that is inside a recovery.
Holding == {"own", "critical", "release", "unlink", "rmdir"}
Recovering == {"read", "judge", "drop", "dropdir", "unmark"}
Points == {"idle", "try", "recover", "stale", "wait", "dead"} \cup Holding \cup Recovering

NoLock == [dir |-> FALSE, owner |-> None, old |-> FALSE]
NoMarker == [dir |-> FALSE, old |-> FALSE]

TypeOK ==
  /\ pc \in [Procs -> Points]
  /\ lock \in [dir: BOOLEAN, owner: Procs \cup {None}, old: BOOLEAN]
  /\ marker \in [dir: BOOLEAN, old: BOOLEAN]
  /\ seen \in [Procs -> Procs \cup {None}]
  /\ ~lock.dir => lock = NoLock
  /\ ~marker.dir => marker = NoMarker

Init ==
  /\ pc = [p \in Procs |-> "idle"]
  /\ lock = NoLock
  /\ marker = NoMarker
  /\ seen = [p \in Procs |-> None]

At(points) == {p \in Procs : pc[p] \in points}
Goes(p, point) == pc' = [pc EXCEPT ![p] = point]

-----------------------------------------------------------------------------
(* withDaemonLock() *)

Call(p) ==
  /\ pc[p] = "idle"
  /\ Goes(p, "try")
  /\ UNCHANGED <<lock, marker, seen>>

\* mkdir: the lock is this process's, or somebody has it.
Try(p) ==
  /\ pc[p] = "try"
  /\ IF lock.dir THEN Goes(p, "recover") /\ UNCHANGED lock
     ELSE Goes(p, "own") /\ lock' = [NoLock EXCEPT !.dir = TRUE]
  /\ UNCHANGED <<marker, seen>>

\* atomicWrite() of owner.json: it makes the directory if it is gone, and its rename makes the directory new.
WriteOwner(p) ==
  /\ pc[p] = "own"
  /\ Goes(p, "critical")
  /\ lock' = [dir |-> TRUE, owner |-> p, old |-> FALSE]
  /\ UNCHANGED <<marker, seen>>

\* atomicWrite() throws (a full disk): the call fails and leaves the directory with no owner in it.
FailOwner(p) ==
  /\ pc[p] = "own"
  /\ Goes(p, "idle")
  /\ UNCHANGED <<lock, marker, seen>>

\* The operation is over, or threw.
EndOperation(p) ==
  /\ pc[p] = "critical"
  /\ Goes(p, "release")
  /\ UNCHANGED <<lock, marker, seen>>

\* Only a lock with this call's token is removed.
ReadToken(p) ==
  /\ pc[p] = "release"
  /\ Goes(p, IF lock.owner = p THEN "unlink" ELSE "idle")
  /\ UNCHANGED <<lock, marker, seen>>

\* rmSync, recursive: nothing when the directory is gone, else the file, then the directory with what is in it.
\* Mutant: the directory first.
DirFirst == [lock EXCEPT !.dir = FALSE]
Emptied == IF lock.dir THEN [lock EXCEPT !.owner = None, !.old = FALSE] ELSE lock
Removed == NoLock

Unlink(p) ==
  /\ pc[p] = "unlink"
  /\ Goes(p, IF lock.dir THEN "rmdir" ELSE "idle")
  /\ lock' = Emptied
  /\ UNCHANGED <<marker, seen>>

Rmdir(p) ==
  /\ pc[p] = "rmdir"
  /\ Goes(p, "idle")
  /\ lock' = Removed
  /\ UNCHANGED <<marker, seen>>

\* sleep(POLL_MS), and again; or the deadline passed.
Retry(p) ==
  /\ pc[p] = "wait"
  /\ Goes(p, "try")
  /\ UNCHANGED <<lock, marker, seen>>

GiveUp(p) ==
  /\ pc[p] = "wait"
  /\ Goes(p, "idle")
  /\ UNCHANGED <<lock, marker, seen>>

-----------------------------------------------------------------------------
(* recoverLock() *)

\* Mutants: any marker is an old one; none is.
AnyMarker == TRUE
NoMarkerIsOld == FALSE
MarkerIsOld == marker.old

\* mkdir of the marker: the recovery is this process's, or the marker is looked at and, old, removed; unless Racing, before
\* another is made.
Mark(p) ==
  /\ pc[p] = "recover"
  /\ Racing \/ At({"stale"}) = {}
  /\ IF ~marker.dir THEN Goes(p, "read") /\ marker' = [NoMarker EXCEPT !.dir = TRUE]
     ELSE Goes(p, IF MarkerIsOld THEN "stale" ELSE "wait") /\ UNCHANGED marker
  /\ UNCHANGED <<lock, seen>>

RemoveStaleMarker(p) ==
  /\ pc[p] = "stale"
  /\ Goes(p, "wait")
  /\ marker' = NoMarker
  /\ UNCHANGED <<lock, seen>>

ReadOwner(p) ==
  /\ pc[p] = "read"
  /\ Goes(p, "judge")
  /\ seen' = [seen EXCEPT ![p] = lock.owner]
  /\ UNCHANGED <<lock, marker>>

\* Mutant: a lock with no owner in it is abandoned, however new.
AbandonedAtOnce(owner) == IF owner = None THEN lock.dir ELSE pc[owner] = "dead"
\* No owner for START_TIMEOUT_MS, or an owner that processMatches() no longer finds.
Abandoned(owner) == IF owner = None THEN lock.old ELSE pc[owner] = "dead"

Judge(p) ==
  /\ pc[p] = "judge"
  /\ Goes(p, IF Abandoned(seen[p]) THEN "drop" ELSE "unmark")
  /\ UNCHANGED <<lock, marker, seen>>

\* rmSync of the lock, then of the marker (the finally).
Drop(p) ==
  /\ pc[p] = "drop"
  /\ Goes(p, IF lock.dir THEN "dropdir" ELSE "unmark")
  /\ lock' = Emptied
  /\ UNCHANGED <<marker, seen>>

DropDir(p) ==
  /\ pc[p] = "dropdir"
  /\ Goes(p, "unmark")
  /\ lock' = Removed
  /\ UNCHANGED <<marker, seen>>

Unmark(p) ==
  /\ pc[p] = "unmark"
  /\ Goes(p, "wait")
  /\ marker' = NoMarker
  /\ UNCHANGED <<lock, seen>>

-----------------------------------------------------------------------------
(* Processes end, and time passes. *)

JudgedBy(q, p) == pc[q] = "judge" /\ seen[q] = p

\* Killed at any step, or ended once it let go; unless Racing, not both let go and gone within the moment a recovery
\* takes between reading it as the owner and looking for it.
Die(p) ==
  /\ pc[p] # "dead"
  /\ Racing \/ pc[p] \in Holding \/ \A q \in Procs : ~JudgedBy(q, p)
  /\ Goes(p, "dead")
  /\ UNCHANGED <<lock, marker, seen>>

\* START_TIMEOUT_MS pass; unless Suspending, not while a process is between two synchronous steps on the directory.
AgeLock ==
  /\ lock.dir
  /\ lock.owner = None
  /\ ~lock.old
  /\ Suspending \/ At({"own", "rmdir", "dropdir"}) = {}
  /\ lock' = [lock EXCEPT !.old = TRUE]
  /\ UNCHANGED <<pc, marker, seen>>

AgeMarker ==
  /\ marker.dir
  /\ ~marker.old
  /\ Suspending \/ At(Recovering) = {}
  /\ marker' = [marker EXCEPT !.old = TRUE]
  /\ UNCHANGED <<pc, lock, seen>>

-----------------------------------------------------------------------------

Operation(p) ==
  \/ Try(p) \/ WriteOwner(p) \/ FailOwner(p)
  \/ EndOperation(p) \/ ReadToken(p) \/ Unlink(p) \/ Rmdir(p)
  \/ Retry(p) \/ GiveUp(p)
Recovery(p) ==
  \/ Mark(p) \/ RemoveStaleMarker(p)
  \/ ReadOwner(p) \/ Judge(p) \/ Drop(p) \/ DropDir(p) \/ Unmark(p)

Next ==
  \/ \E p \in Procs : Call(p) \/ Operation(p) \/ Recovery(p) \/ Die(p)
  \/ AgeLock
  \/ AgeMarker

\* A process that runs goes on, and time passes; calls, deaths and the deadline come as they like.
Fairness ==
  /\ \A p \in Procs : WF_vars(Operation(p) \/ Recovery(p))
  /\ WF_vars(AgeLock)
  /\ WF_vars(AgeMarker)

Spec == Init /\ [][Next]_vars
FairSpec == Spec /\ Fairness

-----------------------------------------------------------------------------

\* Operations on the daemon run one at a time, whoever is killed wherever: withDaemonLock() "serializes concurrent operations".
MutualExclusion == \A p, q \in At({"critical"}) : p = q

\* One process at a time recovers the lock, and the marker stands while it does: what it read of the lock stays true until
\* it acts on it (recoverLock).
OneRecovery ==
  /\ \A p, q \in At(Recovering) : p = q
  /\ At(Recovering) # {} => marker.dir

\* A lock nobody alive holds does not keep those who wait out for ever: it is removed, or they all gave up or were killed
\* (the deadline, LOCK_TIMEOUT_MS, leaves time for both ages to pass).
Left == lock.dir /\ At(Holding) = {}
Waiters == At({"try", "recover", "stale", "wait"} \cup Recovering)
LockFreed == Left ~> (~lock.dir \/ Waiters = {})
=============================================================================
