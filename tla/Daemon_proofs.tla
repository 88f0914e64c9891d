---------------------------- MODULE Daemon_proofs ----------------------------
(* The daemon and the App's way to it: DaemonLock keeps operations apart for  *)
(* every set of processes, killed wherever they are, while neither Racing nor *)
(* Suspending (a recovery acts on what it read before others go on, and       *)
(* START_TIMEOUT_MS do not pass between two synchronous steps); of Endpoint,  *)
(* a daemon that runs is on record, what is no app server is not signalled,   *)
(* and an endpoint that is reachable stays so, for any number of processes    *)
(* and commands; and StdioFrontend keeps its count of the lines.              *)
EXTENDS MCDaemon, TLAPS

-----------------------------------------------------------------------------
(* DaemonLock *)


\* A process that holds the lock has its directory, with its owner.json in it but while it makes or removes it.
HoldersLock ==
  \A p \in Procs :
    /\ pc[p] \in Holding => lock.dir
    /\ pc[p] \in {"critical", "release", "unlink"} => lock.owner = p
    /\ pc[p] \in {"own", "rmdir"} => lock.owner = None /\ ~lock.old

OneHolder == \A p, q \in Procs : pc[p] \in Holding /\ pc[q] \in Holding => p = q

\* The owner named in the lock holds it, or was killed; a lock is only old with no owner in it.
OwnerHolds ==
  /\ \A p \in Procs : lock.owner = p => pc[p] = "dead" \/ pc[p] \in {"critical", "release", "unlink"}
  /\ lock.old => lock.owner = None

NobodyHolds == lock.dir /\ \A p \in Procs : pc[p] \notin Holding

\* What a recovery found to be left stays left until it acts: nobody takes a lock whose directory is there.
VerdictStands ==
  \A q \in Procs :
    /\ pc[q] = "judge" /\ seen[q] # None => (pc[seen[q]] = "dead" => NobodyHolds)
    /\ pc[q] = "drop" => NobodyHolds
    /\ pc[q] = "dropdir" => NobodyHolds /\ lock.owner = None /\ ~lock.old

OneRecoverer ==
  /\ \A p, q \in Procs : pc[p] \in Recovering /\ pc[q] \in Recovering => p = q
  /\ \A p \in Procs : pc[p] \in Recovering => marker.dir /\ ~marker.old
  /\ \A p, q \in Procs : pc[p] = "stale" => pc[q] \notin Recovering

IInv == TypeOK /\ HoldersLock /\ OneHolder /\ OwnerHolds /\ VerdictStands /\ OneRecoverer

\* The steps do what they do when each process is careful, and time is.
Careful == ~Racing /\ ~Suspending

USE DEF Holding, Recovering, Points

LEMMA InitIInv == Init => IInv
BY NoneIsNoProc DEF Init, IInv, TypeOK, HoldersLock, OneHolder, OwnerHolds, VerdictStands, OneRecoverer, NoLock, NoMarker, NobodyHolds

-----------------------------------------------------------------------------
(* The lock's own steps: they touch no marker. *)

\* A step of one process that changes nothing but where it is, outside the lock and the recovery or leaving them.
LEMMA LeaveKeeps ==
  ASSUME IInv, NEW p \in Procs, NEW point \in {"idle", "try", "recover", "wait"},
         pc[p] \in {"idle", "try", "recover", "wait"}, Goes(p, point), UNCHANGED <<lock, marker, seen>>
  PROVE IInv'
<1>1. TypeOK'
  BY DEF IInv, TypeOK, Goes, NoLock, NoMarker
<1>2. HoldersLock' /\ OneHolder' /\ OwnerHolds'
  BY DEF IInv, TypeOK, HoldersLock, OneHolder, OwnerHolds, Goes
<1>3. VerdictStands'
  BY DEF IInv, TypeOK, VerdictStands, NobodyHolds, Goes
<1>4. OneRecoverer'
  BY DEF IInv, TypeOK, OneRecoverer, Goes
<1> QED  BY <1>1, <1>2, <1>3, <1>4 DEF IInv

LEMMA TryKeeps == ASSUME IInv, NEW p \in Procs, Try(p) PROVE IInv'
<1>1. CASE lock.dir
  BY <1>1, LeaveKeeps DEF Try
<1>2. CASE ~lock.dir
  <2>1. /\ pc' = [pc EXCEPT ![p] = "own"] /\ lock' = [dir |-> TRUE, owner |-> None, old |-> FALSE]
        /\ UNCHANGED <<marker, seen>> /\ pc[p] = "try"
    BY <1>2 DEF Try, Goes, NoLock
  <2>2. \A q \in Procs : pc[q] \notin Holding
    BY <1>2 DEF IInv, HoldersLock
  <2>3. TypeOK'
    BY <2>1, NoneIsNoProc DEF IInv, TypeOK, NoLock, NoMarker
  <2>4. HoldersLock' /\ OneHolder' /\ OwnerHolds'
    BY <2>1, <2>2, NoneIsNoProc DEF IInv, TypeOK, HoldersLock, OneHolder, OwnerHolds
  <2>5. VerdictStands'
    BY <1>2, <2>1 DEF IInv, TypeOK, VerdictStands, NobodyHolds
  <2>6. OneRecoverer'
    BY <2>1 DEF IInv, TypeOK, OneRecoverer
  <2> QED  BY <2>3, <2>4, <2>5, <2>6 DEF IInv
<1> QED  BY <1>1, <1>2

LEMMA WriteOwnerKeeps == ASSUME IInv, NEW p \in Procs, WriteOwner(p) PROVE IInv'
<1>1. /\ pc' = [pc EXCEPT ![p] = "critical"] /\ lock' = [dir |-> TRUE, owner |-> p, old |-> FALSE]
      /\ UNCHANGED <<marker, seen>> /\ pc[p] = "own"
  BY DEF WriteOwner, Goes
<1>2. ~NobodyHolds /\ \A q \in Procs : pc[q] \in Holding => q = p
  BY <1>1 DEF IInv, OneHolder, NobodyHolds
<1>3. TypeOK'
  BY <1>1 DEF IInv, TypeOK, NoLock, NoMarker
<1>4. HoldersLock' /\ OneHolder' /\ OwnerHolds'
  BY <1>1, <1>2, NoneIsNoProc DEF IInv, TypeOK, HoldersLock, OneHolder, OwnerHolds
<1>5. VerdictStands'
  BY <1>1, <1>2 DEF IInv, TypeOK, VerdictStands
<1>6. OneRecoverer'
  BY <1>1 DEF IInv, TypeOK, OneRecoverer
<1> QED  BY <1>3, <1>4, <1>5, <1>6 DEF IInv

LEMMA FailOwnerKeeps == ASSUME IInv, NEW p \in Procs, FailOwner(p) PROVE IInv'
<1>1. pc' = [pc EXCEPT ![p] = "idle"] /\ UNCHANGED <<lock, marker, seen>> /\ pc[p] = "own"
  BY DEF FailOwner, Goes
<1>2. ~NobodyHolds
  BY <1>1 DEF NobodyHolds
<1>3. TypeOK'
  BY <1>1 DEF IInv, TypeOK, NoLock, NoMarker
<1>4. HoldersLock' /\ OneHolder' /\ OwnerHolds'
  BY <1>1 DEF IInv, TypeOK, HoldersLock, OneHolder, OwnerHolds
<1>5. VerdictStands'
  BY <1>1, <1>2 DEF IInv, TypeOK, VerdictStands
<1>6. OneRecoverer'
  BY <1>1 DEF IInv, TypeOK, OneRecoverer
<1> QED  BY <1>3, <1>4, <1>5, <1>6 DEF IInv

LEMMA EndOperationKeeps ==
  ASSUME IInv, NEW p \in Procs, EndOperation(p) \/ ReadToken(p) PROVE IInv'
<1>1. PICK point \in {"release", "unlink"} :
        /\ pc' = [pc EXCEPT ![p] = point] /\ UNCHANGED <<lock, marker, seen>>
        /\ pc[p] \in {"critical", "release"} /\ lock.owner = p
  BY DEF EndOperation, ReadToken, Goes, IInv, HoldersLock
<1>2. ~NobodyHolds
  BY <1>1 DEF NobodyHolds
<1>3. TypeOK'
  BY <1>1 DEF IInv, TypeOK, NoLock, NoMarker
<1>4. HoldersLock' /\ OneHolder' /\ OwnerHolds'
  BY <1>1, NoneIsNoProc DEF IInv, TypeOK, HoldersLock, OneHolder, OwnerHolds
<1>5. VerdictStands'
  BY <1>1, <1>2 DEF IInv, TypeOK, VerdictStands
<1>6. OneRecoverer'
  BY <1>1 DEF IInv, TypeOK, OneRecoverer
<1> QED  BY <1>3, <1>4, <1>5, <1>6 DEF IInv

LEMMA UnlinkKeeps == ASSUME IInv, NEW p \in Procs, Unlink(p) PROVE IInv'
<1>1. lock.dir /\ pc[p] = "unlink" /\ lock.owner = p
  BY DEF Unlink, IInv, HoldersLock
<1>2. /\ pc' = [pc EXCEPT ![p] = "rmdir"] /\ lock' = [lock EXCEPT !.owner = None, !.old = FALSE]
      /\ UNCHANGED <<marker, seen>>
  BY <1>1 DEF Unlink, Goes, Emptied
<1>3. ~NobodyHolds /\ \A q \in Procs : pc[q] \in Holding => q = p
  BY <1>1 DEF IInv, OneHolder, NobodyHolds
<1>4. TypeOK'
  BY <1>1, <1>2 DEF IInv, TypeOK, NoLock, NoMarker
<1>5. HoldersLock' /\ OneHolder' /\ OwnerHolds'
  BY <1>1, <1>2, <1>3, NoneIsNoProc DEF IInv, TypeOK, HoldersLock, OneHolder, OwnerHolds
<1>6. VerdictStands'
  BY <1>1, <1>2, <1>3 DEF IInv, TypeOK, VerdictStands
<1>7. OneRecoverer'
  BY <1>1, <1>2 DEF IInv, TypeOK, OneRecoverer
<1> QED  BY <1>4, <1>5, <1>6, <1>7 DEF IInv

LEMMA RmdirKeeps == ASSUME IInv, NEW p \in Procs, Rmdir(p) PROVE IInv'
<1>1. /\ pc' = [pc EXCEPT ![p] = "idle"] /\ lock' = [dir |-> FALSE, owner |-> None, old |-> FALSE]
      /\ UNCHANGED <<marker, seen>> /\ pc[p] = "rmdir"
  BY DEF Rmdir, Goes, Removed, NoLock
<1>2. ~NobodyHolds /\ \A q \in Procs : pc[q] \in Holding => q = p
  BY <1>1 DEF IInv, OneHolder, NobodyHolds
<1>3. TypeOK'
  BY <1>1, NoneIsNoProc DEF IInv, TypeOK, NoLock, NoMarker
<1>4. HoldersLock' /\ OneHolder' /\ OwnerHolds'
  BY <1>1, <1>2, NoneIsNoProc DEF IInv, TypeOK, HoldersLock, OneHolder, OwnerHolds
<1>5. VerdictStands'
  BY <1>1, <1>2 DEF IInv, TypeOK, VerdictStands
<1>6. OneRecoverer'
  BY <1>1 DEF IInv, TypeOK, OneRecoverer
<1> QED  BY <1>3, <1>4, <1>5, <1>6 DEF IInv

-----------------------------------------------------------------------------
(* The recovery's steps. *)

LEMMA MarkKeeps == ASSUME Careful, IInv, NEW p \in Procs, Mark(p) PROVE IInv'
<1>1. At({"stale"}) = {} /\ pc[p] = "recover" /\ UNCHANGED <<lock, seen>>
  BY DEF Mark, Careful
<1>2. \A q \in Procs : pc[q] # "stale"
  BY <1>1 DEF At
<1>3. CASE ~marker.dir
  <2>1. pc' = [pc EXCEPT ![p] = "read"] /\ marker' = [dir |-> TRUE, old |-> FALSE]
    BY <1>3 DEF Mark, Goes, NoMarker
  <2>2. \A q \in Procs : pc[q] \notin Recovering
    BY <1>3 DEF IInv, OneRecoverer
  <2>3. TypeOK'
    BY <1>1, <2>1 DEF IInv, TypeOK, NoLock, NoMarker
  <2>4. HoldersLock' /\ OneHolder' /\ OwnerHolds'
    BY <1>1, <2>1 DEF IInv, TypeOK, HoldersLock, OneHolder, OwnerHolds
  <2>5. VerdictStands'
    BY <1>1, <2>1 DEF IInv, TypeOK, VerdictStands, NobodyHolds
  <2>6. OneRecoverer'
    BY <1>2, <2>1, <2>2 DEF IInv, TypeOK, OneRecoverer
  <2> QED  BY <2>3, <2>4, <2>5, <2>6 DEF IInv
<1>4. CASE marker.dir /\ ~MarkerIsOld
  BY <1>1, <1>4, LeaveKeeps DEF Mark
<1>5. CASE marker.dir /\ MarkerIsOld
  <2>1. pc' = [pc EXCEPT ![p] = "stale"] /\ UNCHANGED marker /\ marker.old
    BY <1>5 DEF Mark, Goes, MarkerIsOld
  <2>2. \A q \in Procs : pc[q] \notin Recovering
    BY <2>1 DEF IInv, OneRecoverer
  <2>3. TypeOK'
    BY <1>1, <2>1 DEF IInv, TypeOK, NoLock, NoMarker
  <2>4. HoldersLock' /\ OneHolder' /\ OwnerHolds'
    BY <1>1, <2>1 DEF IInv, TypeOK, HoldersLock, OneHolder, OwnerHolds
  <2>5. VerdictStands'
    BY <1>1, <2>1 DEF IInv, TypeOK, VerdictStands, NobodyHolds
  <2>6. OneRecoverer'
    BY <2>1, <2>2 DEF IInv, TypeOK, OneRecoverer
  <2> QED  BY <2>3, <2>4, <2>5, <2>6 DEF IInv
<1> QED  BY <1>3, <1>4, <1>5

LEMMA UnmarkKeeps ==
  ASSUME IInv, NEW p \in Procs, RemoveStaleMarker(p) \/ Unmark(p) PROVE IInv'
<1>1. /\ pc' = [pc EXCEPT ![p] = "wait"] /\ marker' = [dir |-> FALSE, old |-> FALSE]
      /\ UNCHANGED <<lock, seen>> /\ pc[p] \in {"stale", "unmark"}
  BY DEF RemoveStaleMarker, Unmark, Goes, NoMarker
<1>2. \A q \in Procs : pc[q] \in Recovering => q = p
  BY <1>1 DEF IInv, OneRecoverer
<1>3. TypeOK'
  BY <1>1 DEF IInv, TypeOK, NoLock, NoMarker
<1>4. HoldersLock' /\ OneHolder' /\ OwnerHolds'
  BY <1>1 DEF IInv, TypeOK, HoldersLock, OneHolder, OwnerHolds
<1>5. VerdictStands'
  BY <1>1 DEF IInv, TypeOK, VerdictStands, NobodyHolds
<1>6. OneRecoverer'
  BY <1>1, <1>2 DEF IInv, TypeOK, OneRecoverer
<1> QED  BY <1>3, <1>4, <1>5, <1>6 DEF IInv

LEMMA ReadOwnerKeeps == ASSUME IInv, NEW p \in Procs, ReadOwner(p) PROVE IInv'
<1>1. /\ pc' = [pc EXCEPT ![p] = "judge"] /\ seen' = [seen EXCEPT ![p] = lock.owner]
      /\ UNCHANGED <<lock, marker>> /\ pc[p] = "read"
  BY DEF ReadOwner, Goes
<1>2. lock.owner # None /\ pc[lock.owner] = "dead" => NobodyHolds
  <2> SUFFICES ASSUME lock.owner # None, pc[lock.owner] = "dead" PROVE NobodyHolds
    OBVIOUS
  <2>1. lock.dir
    BY DEF IInv, TypeOK, NoLock
  <2> QED  BY <2>1 DEF IInv, HoldersLock, NobodyHolds
<1>3. TypeOK'
  BY <1>1 DEF IInv, TypeOK, NoLock, NoMarker
<1>4. HoldersLock' /\ OneHolder' /\ OwnerHolds'
  BY <1>1 DEF IInv, TypeOK, HoldersLock, OneHolder, OwnerHolds
<1>5. VerdictStands'
  <2> SUFFICES ASSUME NEW q \in Procs
               PROVE /\ pc'[q] = "judge" /\ seen'[q] # None => (pc'[seen'[q]] = "dead" => NobodyHolds')
                     /\ pc'[q] = "drop" => NobodyHolds'
                     /\ pc'[q] = "dropdir" => NobodyHolds' /\ lock'.owner = None /\ ~lock'.old
    BY DEF VerdictStands
  <2>1. NobodyHolds => NobodyHolds'
    BY <1>1 DEF IInv, TypeOK, NobodyHolds
  <2>2. CASE q = p
    <3>1. pc'[q] = "judge" /\ seen'[q] = lock.owner
      BY <1>1, <2>2 DEF IInv, TypeOK
    <3>2. lock.owner # None /\ pc'[lock.owner] = "dead" => pc[lock.owner] = "dead"
      BY <1>1 DEF IInv, TypeOK
    <3> QED  BY <3>1, <3>2, <1>2, <2>1
  <2>3. CASE q # p
    <3>1. pc'[q] = pc[q] /\ seen'[q] = seen[q]
      BY <1>1, <2>3 DEF IInv, TypeOK
    <3>2. seen[q] # None => (pc'[seen[q]] = "dead" => pc[seen[q]] = "dead")
      BY <1>1 DEF IInv, TypeOK
    <3> QED  BY <1>1, <3>1, <3>2, <2>1 DEF IInv, VerdictStands
  <2> QED  BY <2>2, <2>3
<1>6. OneRecoverer'
  BY <1>1 DEF IInv, TypeOK, OneRecoverer
<1> QED  BY <1>3, <1>4, <1>5, <1>6 DEF IInv

LEMMA JudgeKeeps == ASSUME IInv, NEW p \in Procs, Judge(p) PROVE IInv'
<1>1. PICK point \in {"drop", "unmark"} :
        /\ pc' = [pc EXCEPT ![p] = point] /\ UNCHANGED <<lock, marker, seen>>
        /\ pc[p] = "judge" /\ (point = "drop" => Abandoned(seen[p]))
  BY DEF Judge, Goes
<1>2. Abandoned(seen[p]) => NobodyHolds
  <2>1. CASE seen[p] = None
    <3>1. lock.old => lock.dir /\ lock.owner = None
      BY DEF IInv, TypeOK, NoLock, OwnerHolds
    <3> QED  BY <2>1, <3>1, NoneIsNoProc DEF Abandoned, IInv, HoldersLock, NobodyHolds
  <2>2. CASE seen[p] # None
    BY <1>1, <2>2 DEF Abandoned, IInv, VerdictStands
  <2> QED  BY <2>1, <2>2
<1>3. TypeOK'
  BY <1>1 DEF IInv, TypeOK, NoLock, NoMarker
<1>4. HoldersLock' /\ OneHolder' /\ OwnerHolds'
  BY <1>1 DEF IInv, TypeOK, HoldersLock, OneHolder, OwnerHolds
<1>5. NobodyHolds => NobodyHolds'
  BY <1>1 DEF IInv, TypeOK, NobodyHolds
<1>6. VerdictStands'
  BY <1>1, <1>2, <1>5 DEF IInv, TypeOK, VerdictStands
<1>7. OneRecoverer'
  BY <1>1 DEF IInv, TypeOK, OneRecoverer
<1> QED  BY <1>3, <1>4, <1>6, <1>7 DEF IInv

LEMMA DropKeeps == ASSUME IInv, NEW p \in Procs, Drop(p) PROVE IInv'
<1>1. NobodyHolds /\ pc[p] = "drop"
  BY DEF Drop, IInv, VerdictStands
<1>2. /\ pc' = [pc EXCEPT ![p] = "dropdir"] /\ lock' = [lock EXCEPT !.owner = None, !.old = FALSE]
      /\ UNCHANGED <<marker, seen>>
  BY <1>1 DEF Drop, Goes, Emptied, NobodyHolds
<1>3. NobodyHolds'
  BY <1>1, <1>2 DEF IInv, TypeOK, NobodyHolds
<1>4. TypeOK'
  BY <1>1, <1>2 DEF IInv, TypeOK, NoLock, NoMarker, NobodyHolds
<1>5. HoldersLock' /\ OneHolder' /\ OwnerHolds'
  BY <1>1, <1>2, <1>3, NoneIsNoProc DEF IInv, TypeOK, HoldersLock, OneHolder, OwnerHolds, NobodyHolds
<1>6. VerdictStands'
  BY <1>2, <1>3 DEF IInv, TypeOK, VerdictStands
<1>7. OneRecoverer'
  BY <1>1, <1>2 DEF IInv, TypeOK, OneRecoverer
<1> QED  BY <1>4, <1>5, <1>6, <1>7 DEF IInv

LEMMA DropDirKeeps == ASSUME IInv, NEW p \in Procs, DropDir(p) PROVE IInv'
<1>1. NobodyHolds /\ pc[p] = "dropdir"
  BY DEF DropDir, IInv, VerdictStands
<1>2. /\ pc' = [pc EXCEPT ![p] = "unmark"] /\ lock' = [dir |-> FALSE, owner |-> None, old |-> FALSE]
      /\ UNCHANGED <<marker, seen>>
  BY DEF DropDir, Goes, Removed, NoLock
<1>3. \A q \in Procs : pc'[q] \notin {"judge", "drop", "dropdir"}
  BY <1>1, <1>2 DEF IInv, TypeOK, OneRecoverer
<1>4. TypeOK'
  BY <1>2, NoneIsNoProc DEF IInv, TypeOK, NoLock, NoMarker
<1>5. HoldersLock' /\ OneHolder' /\ OwnerHolds'
  BY <1>1, <1>2, NoneIsNoProc DEF IInv, TypeOK, HoldersLock, OneHolder, OwnerHolds, NobodyHolds
<1>6. VerdictStands'
  BY <1>3 DEF VerdictStands
<1>7. OneRecoverer'
  BY <1>1, <1>2 DEF IInv, TypeOK, OneRecoverer
<1> QED  BY <1>4, <1>5, <1>6, <1>7 DEF IInv

-----------------------------------------------------------------------------
(* Processes end, and time passes. *)

LEMMA DieKeeps == ASSUME Careful, IInv, NEW p \in Procs, Die(p) PROVE IInv'
<1>1. /\ pc' = [pc EXCEPT ![p] = "dead"] /\ UNCHANGED <<lock, marker, seen>>
      /\ pc[p] \in Holding \/ \A q \in Procs : ~JudgedBy(q, p)
  BY DEF Die, Goes, Careful
<1>2. TypeOK'
  BY <1>1 DEF IInv, TypeOK, NoLock, NoMarker
<1>3. HoldersLock' /\ OneHolder' /\ OwnerHolds'
  BY <1>1 DEF IInv, TypeOK, HoldersLock, OneHolder, OwnerHolds
<1>4. NobodyHolds => NobodyHolds'
  BY <1>1 DEF IInv, TypeOK, NobodyHolds
<1>5. pc[p] \in Holding => NobodyHolds'
  BY <1>1 DEF IInv, TypeOK, HoldersLock, OneHolder, NobodyHolds
<1>6. VerdictStands'
  <2> SUFFICES ASSUME NEW q \in Procs, pc'[q] \in {"judge", "drop", "dropdir"}
               PROVE /\ pc[q] = "judge" /\ seen[q] # None => (pc'[seen[q]] = "dead" => NobodyHolds')
                     /\ pc[q] = "drop" => NobodyHolds'
                     /\ pc[q] = "dropdir" => NobodyHolds' /\ lock.owner = None /\ ~lock.old
    BY <1>1 DEF IInv, TypeOK, VerdictStands
  <2>1. pc[q] = pc'[q]
    BY <1>1 DEF IInv, TypeOK
  <2>2. ASSUME pc[q] = "judge", seen[q] # None, pc'[seen[q]] = "dead" PROVE NobodyHolds'
    <3>1. CASE seen[q] = p
      BY <1>1, <1>5, <2>2, <3>1 DEF JudgedBy
    <3>2. CASE seen[q] # p
      <4>1. pc[seen[q]] = "dead"
        BY <1>1, <2>2, <3>2 DEF IInv, TypeOK
      <4> QED  BY <1>4, <2>2, <4>1 DEF IInv, VerdictStands
    <3> QED  BY <3>1, <3>2
  <2> QED  BY <1>4, <2>2 DEF IInv, VerdictStands
<1>7. OneRecoverer'
  BY <1>1 DEF IInv, TypeOK, OneRecoverer
<1> QED  BY <1>2, <1>3, <1>6, <1>7 DEF IInv

LEMMA AgeKeeps == ASSUME Careful, IInv, AgeLock \/ AgeMarker PROVE IInv'
<1>1. CASE AgeLock
  <2>1. /\ lock' = [lock EXCEPT !.old = TRUE] /\ UNCHANGED <<pc, marker, seen>>
        /\ lock.dir /\ lock.owner = None
    BY <1>1 DEF AgeLock
  <2>2. \A p \in Procs : pc[p] \notin {"own", "rmdir", "dropdir"}
    BY <1>1 DEF AgeLock, At, Careful
  <2>3. TypeOK'
    BY <2>1 DEF IInv, TypeOK, NoLock, NoMarker
  <2>4. HoldersLock' /\ OneHolder' /\ OwnerHolds'
    BY <2>1, <2>2, NoneIsNoProc DEF IInv, TypeOK, HoldersLock, OneHolder, OwnerHolds
  <2>5. VerdictStands'
    BY <2>1, <2>2 DEF IInv, TypeOK, VerdictStands, NobodyHolds
  <2>6. OneRecoverer'
    BY <2>1 DEF IInv, OneRecoverer
  <2> QED  BY <2>3, <2>4, <2>5, <2>6 DEF IInv
<1>2. CASE AgeMarker
  <2>1. marker' = [marker EXCEPT !.old = TRUE] /\ UNCHANGED <<pc, lock, seen>> /\ marker.dir
    BY <1>2 DEF AgeMarker
  <2>2. \A p \in Procs : pc[p] \notin Recovering
    BY <1>2 DEF AgeMarker, At, Careful
  <2>3. TypeOK'
    BY <2>1 DEF IInv, TypeOK, NoLock, NoMarker
  <2>4. HoldersLock' /\ OneHolder' /\ OwnerHolds' /\ VerdictStands'
    BY <2>1 DEF IInv, HoldersLock, OneHolder, OwnerHolds, VerdictStands, NobodyHolds
  <2>5. OneRecoverer'
    BY <2>1, <2>2 DEF OneRecoverer
  <2> QED  BY <2>3, <2>4, <2>5 DEF IInv
<1> QED  BY <1>1, <1>2

-----------------------------------------------------------------------------

LEMMA StepKeeps == ASSUME Careful, IInv, Next PROVE IInv'
<1>1. ASSUME NEW p \in Procs, Call(p) \/ Retry(p) \/ GiveUp(p) PROVE IInv'
  BY <1>1, LeaveKeeps DEF Call, Retry, GiveUp
<1>2. ASSUME NEW p \in Procs, Operation(p) PROVE IInv'
  BY <1>1, <1>2, TryKeeps, WriteOwnerKeeps, FailOwnerKeeps, EndOperationKeeps, UnlinkKeeps, RmdirKeeps DEF Operation
<1>3. ASSUME NEW p \in Procs, Recovery(p) PROVE IInv'
  BY <1>3, MarkKeeps, UnmarkKeeps, ReadOwnerKeeps, JudgeKeeps, DropKeeps, DropDirKeeps DEF Recovery
<1> QED  BY <1>1, <1>2, <1>3, DieKeeps, AgeKeeps DEF Next

LEMMA StutterKeeps == IInv /\ UNCHANGED vars => IInv'
BY DEF IInv, TypeOK, HoldersLock, OneHolder, OwnerHolds, VerdictStands, NobodyHolds, OneRecoverer, vars, NoLock, NoMarker

LEMMA Invariant == Careful => (Spec => []IInv)
<1> SUFFICES ASSUME Careful PROVE Spec => []IInv
  OBVIOUS
<1>1. IInv /\ [Next]_vars => IInv'
  BY StepKeeps, StutterKeeps
<1> QED  BY InitIInv, <1>1, PTL DEF Spec

\* Operations on the daemon never run together (withDaemonLock), for any number of processes killed anywhere.
THEOREM OperationsTakeTurns == Careful => (Spec => []MutualExclusion)
<1>1. IInv => MutualExclusion
  BY DEF IInv, OneHolder, MutualExclusion, At
<1> QED  BY <1>1, Invariant, PTL

\* One process at a time recovers the lock, behind the marker (recoverLock).
THEOREM RecoveriesTakeTurns == Careful => (Spec => []OneRecovery)
<1>1. IInv => OneRecovery
  BY DEF IInv, OneRecoverer, OneRecovery, At
<1> QED  BY <1>1, Invariant, PTL

\* The directories and what a process remembers of them keep their types; a directory that is gone has nothing in it.
THEOREM LockTypeCorrect == Careful => (Spec => []TypeOK)
<1>1. IInv => TypeOK
  BY DEF IInv
<1> QED  BY <1>1, Invariant, PTL

-----------------------------------------------------------------------------
(* Endpoint *)


Ops == {"none", "start", "switch", "restart", "settings", "stop", "app"}
CmdPoints == {"idle", "launch", "probe", "decide", "wait", "settings", "serving", "replace", "stop", "ending", "owner", "confirm",
           "confirmed", "evict", "spawn", "await", "ready", "undoing", "retry", "reown",
           "running", "failed", "saved", "stopped", "notManaged"}

CommandRecords == [op : Ops, pc : CmdPoints, target : Processes \cup {Nobody}, attempt : Nat, answered : BOOLEAN]
PidRecords == [is : {"none", "reserved", "record"}, p : Processes \cup {Nobody}, old : BOOLEAN]

States == {"none", "born", "read", "starting", "probed", "prepared", "serving", "closed", "stranded", "dead"}

EndpointShape ==
    /\ kind \in [Processes -> {"daemon", "app", "stock", "other"}]
    /\ state \in [Processes -> States]
    /\ bound \subseteq { p \in Processes : state[p] = "serving" }
    /\ pidFile \in PidRecords
    /\ cmd \in CommandRecords /\ overtaken \in BOOLEAN

Running == { p \in Processes : kind[p] = "daemon" /\ state[p] \in {"starting", "probed", "prepared", "serving"} }

\* A process that never came to publish itself.
Unpublished == {"none", "born", "read"}

\* Only a reservation grows old, and a record is of a process that has published itself.
RecordsHold ==
    /\ pidFile.old => pidFile.is = "reserved"
    /\ pidFile.is = "record" => pidFile.p \in Processes /\ state[pidFile.p] \notin Unpublished

AllOnRecord == ~overtaken => \A p \in Running : pidFile.is = "record" /\ pidFile.p = p

\* Past the end of the daemon on record, and until it has a child of its own,
\* a command has no daemon beside it; while it ends one or awaits its child, no other.
NoneBeside == ~overtaken =>
    /\ cmd.pc \in {"owner", "confirm", "confirmed", "evict", "spawn", "reown", "stopped"} => Running = {}
    /\ cmd.pc \in {"ending", "undoing", "await"} => Running \subseteq {cmd.target}

\* A child that has seen its reservation still has it; no command runs but its own.
Reading == ~overtaken =>
    \A p \in Processes : state[p] = "read" =>
        /\ pidFile.is = "reserved" /\ pidFile.p = p
        /\ cmd.pc \in {"idle", "launch"} \/ (cmd.pc = "await" /\ cmd.target = p)

\* A command waits for a child that has not published itself, and for no other such process.
BornAwaited ==
    cmd.pc # "idle" /\ cmd.target # Nobody /\ state[cmd.target] \in Unpublished => cmd.pc = "await"

EndpointInv == EndpointShape /\ RecordsHold /\ AllOnRecord /\ NoneBeside /\ Reading /\ BornAwaited

\* No child is between its look at the reservation and its record.
NobodyReads == ~overtaken => \A p \in Processes : state[p] # "read"
NoDaemon == ~overtaken => Running = {}

LEMMA NobodyIsNoProcess == Nobody \notin Processes
BY DEF Nobody, Processes

USE NobodyIsNoProcess DEF CommandRecords, PidRecords, States, Unpublished

LEMMA EndpointStarts == EndpointInit => EndpointInv
<1> SUFFICES ASSUME EndpointInit PROVE EndpointInv
  OBVIOUS
<1>1. NoCommand \in CommandRecords /\ NoRecord \in PidRecords /\ NoRecord.is = "none" /\ ~NoRecord.old /\ NoCommand.pc = "idle"
  BY DEF NoRecord, NoCommand, Ops, CmdPoints
<1>2. EndpointShape /\ \A p \in Processes : state[p] = "none"
  BY <1>1 DEF EndpointInit, EndpointShape
<1>3. Running = {} /\ pidFile = NoRecord /\ cmd = NoCommand
  BY <1>2 DEF EndpointInit, Running
<1> QED  BY <1>1, <1>2, <1>3 DEF EndpointInv, RecordsHold, AllOnRecord, NoneBeside, Reading, BornAwaited

\* The daemon on record, if one runs.
LEMMA ManagedRuns ==
  ASSUME EndpointInv
  PROVE /\ Managed \in Processes \cup {Nobody}
        /\ ~overtaken => Running \subseteq {Managed}
        /\ Managed # Nobody => state[Managed] \notin Unpublished \cup {"dead"}
        /\ Managed = Nobody => NoDaemon
BY DEF EndpointInv, EndpointShape, RecordsHold, AllOnRecord, Running, Managed, Alive, NoDaemon

-----------------------------------------------------------------------------
(* Processes *)

LEMMA OtherBindsKeeps ==
  ASSUME EndpointInv, NEW p \in Processes, NEW k \in {"stock", "other"}, OtherBinds(p, k) PROVE EndpointInv'
<1>1. /\ state[p] = "none" /\ kind' = [kind EXCEPT ![p] = k] /\ state' = [state EXCEPT ![p] = "serving"]
      /\ bound' = bound \cup {p} /\ UNCHANGED <<pidFile, cmd, overtaken>>
  BY DEF OtherBinds, Fresh
<1>2. Running' = Running
  BY <1>1 DEF EndpointInv, EndpointShape, Running
<1> QED
  BY <1>1, <1>2 DEF EndpointInv, EndpointShape, RecordsHold, AllOnRecord, NoneBeside, Reading, BornAwaited

LEMMA AppLaunchesKeeps == ASSUME EndpointInv, NEW p \in Processes, AppLaunches(p) PROVE EndpointInv'
<1>1. /\ state[p] = "none" /\ kind' = [kind EXCEPT ![p] = "app"] /\ state' = [state EXCEPT ![p] = "starting"]
      /\ cmd' = [NoCommand EXCEPT !.op = "app", !.pc = "launch", !.target = p] /\ cmd.pc = "idle"
      /\ UNCHANGED <<bound, pidFile, overtaken>>
  BY DEF AppLaunches, Fresh, CmdAt
<1>2. cmd' \in CommandRecords /\ cmd'.pc = "launch" /\ cmd'.target = p
  BY <1>1 DEF NoCommand, Ops, CmdPoints
<1>3. Running' = Running
  BY <1>1 DEF EndpointInv, EndpointShape, Running
<1> QED
  BY <1>1, <1>2, <1>3 DEF EndpointInv, EndpointShape, RecordsHold, AllOnRecord, NoneBeside, Reading, BornAwaited

\* A process that ends, or goes on, takes nothing but its own record away.
LEMMA ProcessKeeps ==
  ASSUME EndpointInv, NEW p \in Processes, NEW s \in {"probed", "prepared", "serving", "closed", "stranded", "dead"},
         state[p] # "none", state[p] \notin {"born", "read"} \/ s = "dead",
         s \in {"probed", "prepared", "serving"} => state[p] \in {"starting", "probed", "prepared"},
         state' = [state EXCEPT ![p] = s], bound' \subseteq bound \cup {p},
         s # "serving" => p \notin bound', UNCHANGED <<kind, cmd, overtaken>>,
         pidFile' = pidFile \/ (s \in {"closed", "stranded", "dead"} /\ pidFile' = RemovedFor(p))
  PROVE EndpointInv'
<1>1. /\ state' \in [Processes -> States]
      /\ state'[p] = s /\ \A q \in Processes \ {p} : state'[q] = state[q]
  BY DEF EndpointInv, EndpointShape
<1>2. Running' \subseteq Running /\ (s \in {"closed", "stranded", "dead"} => p \notin Running')
  BY <1>1 DEF Running
<1>3. pidFile' \in PidRecords /\ bound' \subseteq { q \in Processes : state'[q] = "serving" }
  <2>1. pidFile \in PidRecords /\ NoRecord \in PidRecords /\ (pidFile' = pidFile \/ pidFile' = NoRecord)
    BY DEF RemovedFor, NoRecord, EndpointInv, EndpointShape
  <2>2. bound' \subseteq { q \in Processes : state'[q] = "serving" }
    BY <1>1 DEF EndpointInv, EndpointShape
  <2> QED  BY <2>1, <2>2
<1>4. RecordsHold'
  BY <1>1 DEF RemovedFor, NoRecord, EndpointInv, RecordsHold
<1>5. AllOnRecord'
  BY <1>2 DEF RemovedFor, EndpointInv, AllOnRecord
<1>6. NoneBeside' /\ BornAwaited'
  BY <1>1, <1>2 DEF EndpointInv, EndpointShape, NoneBeside, BornAwaited
<1>7. Reading'
  BY <1>1 DEF RemovedFor, EndpointInv, Reading
<1> QED  BY <1>1, <1>3, <1>4, <1>5, <1>6, <1>7 DEF EndpointInv, EndpointShape

LEMMA ReadKeeps == ASSUME EndpointInv, NEW p \in Processes, ReadReservation(p) PROVE EndpointInv'
<1>0. p \notin bound /\ state[p] = "born" /\ overtaken \in BOOLEAN /\ UNCHANGED <<kind, bound, pidFile, cmd>>
  BY DEF ReadReservation, EndpointInv, EndpointShape
<1>1. CASE ~(pidFile.is = "reserved" /\ pidFile.p = p)
  <2>1. state' = [state EXCEPT ![p] = "dead"] /\ overtaken' = overtaken
    BY <1>0, <1>1 DEF ReadReservation
  <2> QED  BY <1>0, <2>1, ProcessKeeps
<1>2. CASE pidFile.is = "reserved" /\ pidFile.p = p
  <2>1. state' = [state EXCEPT ![p] = "read"] /\ overtaken' = (overtaken \/ Overtakes(p))
    BY <1>2 DEF ReadReservation
  <2>2. state'[p] = "read" /\ state' \in [Processes -> States] /\ \A q \in Processes \ {p} : state'[q] = state[q]
    BY <2>1 DEF EndpointInv, EndpointShape
  <2>3. Running' = Running
    BY <1>0, <2>2 DEF Running
  <2>4. overtaken' \in BOOLEAN /\ (~overtaken' => ~overtaken /\ ~Overtakes(p))
    BY <1>0, <2>1 DEF Overtakes
  <2>5. EndpointShape' /\ RecordsHold'
    BY <1>0, <1>2, <2>2, <2>4 DEF EndpointInv, EndpointShape, RecordsHold
  <2>6. AllOnRecord' /\ NoneBeside'
    BY <1>0, <2>3, <2>4 DEF EndpointInv, AllOnRecord, NoneBeside
  <2>7. BornAwaited'
    BY <1>0, <2>2 DEF EndpointInv, EndpointShape, BornAwaited
  <2>8. ASSUME ~overtaken', NEW q \in Processes, state'[q] = "read"
        PROVE /\ pidFile'.is = "reserved" /\ pidFile'.p = q
              /\ cmd'.pc \in {"idle", "launch"} \/ (cmd'.pc = "await" /\ cmd'.target = q)
    <3>1. cmd.pc \in {"idle", "launch"} \/ cmd.target = p
      BY <2>4, <2>8 DEF Overtakes
    <3>2. cmd.pc \in {"idle", "launch"} \/ (cmd.pc = "await" /\ cmd.target = p)
      BY <1>0, <3>1 DEF EndpointInv, BornAwaited
    <3>3. q = p
      BY <1>0, <1>2, <2>2, <2>4, <2>8 DEF EndpointInv, Reading
    <3> QED  BY <1>0, <1>2, <3>2, <3>3
  <2>9. Reading'
    BY <2>8 DEF Reading
  <2> QED  BY <2>5, <2>6, <2>7, <2>9 DEF EndpointInv
<1> QED  BY <1>1, <1>2

LEMMA PublishKeeps == ASSUME EndpointInv, NEW p \in Processes, PublishRecord(p) PROVE EndpointInv'
<1>1. /\ state' = [state EXCEPT ![p] = "starting"] /\ pidFile' = [NoRecord EXCEPT !.is = "record", !.p = p]
      /\ UNCHANGED <<kind, bound, cmd, overtaken>> /\ state[p] = "read"
  BY DEF PublishRecord
<1>2. /\ state'[p] = "starting" /\ state' \in [Processes -> States] /\ \A q \in Processes \ {p} : state'[q] = state[q]
      /\ pidFile' \in PidRecords /\ pidFile'.is = "record" /\ pidFile'.p = p /\ ~pidFile'.old
  BY <1>1 DEF NoRecord, EndpointInv, EndpointShape
<1>3. Running' \subseteq Running \cup {p} /\ NoDaemon
  BY <1>1, <1>2 DEF Running, NoDaemon, EndpointInv, Reading, AllOnRecord
<1>4. EndpointShape' /\ RecordsHold'
  BY <1>1, <1>2 DEF EndpointInv, EndpointShape, RecordsHold
<1>5. AllOnRecord' /\ NoneBeside'
  BY <1>1, <1>2, <1>3 DEF NoDaemon, EndpointInv, Reading, AllOnRecord, NoneBeside
<1>6. Reading' /\ BornAwaited'
  BY <1>1, <1>2 DEF EndpointInv, Reading, BornAwaited
<1> QED  BY <1>4, <1>5, <1>6 DEF EndpointInv

LEMMA StartingKeeps ==
  ASSUME EndpointInv, NEW p \in Processes,
         ProbePath(p) \/ NotStarted(p) \/ Prepare(p) \/ Listen(p) \/ ListenFails(p)
  PROVE EndpointInv'
<1>1. p \notin bound
  BY DEF ProbePath, NotStarted, Prepare, Listen, ListenFails, EndpointInv, EndpointShape
<1>2. CASE ProbePath(p) \/ NotStarted(p)
  BY <1>1, <1>2, ProcessKeeps DEF ProbePath, NotStarted
<1>3. CASE Prepare(p) \/ Listen(p)
  BY <1>1, <1>3, ProcessKeeps DEF Prepare, Listen
<1>4. CASE ListenFails(p)
  BY <1>1, <1>4, ProcessKeeps DEF ListenFails
<1> QED  BY <1>2, <1>3, <1>4

LEMMA LeavingKeeps ==
  ASSUME EndpointInv, NEW p \in Processes, StopsItself(p) \/ CloseServer(p) \/ Leave(p) \/ Ends(p)
  PROVE EndpointInv'
<1>4. CASE StopsItself(p)
  BY <1>4 DEF StopsItself, Term, EndpointInv, EndpointShape, RecordsHold, AllOnRecord, NoneBeside, Reading, BornAwaited, Running
<1>1. CASE CloseServer(p)
  BY <1>1, ProcessKeeps DEF CloseServer
<1>2. CASE Leave(p)
  <2>1. p \notin bound
    BY <1>2 DEF Leave, EndpointInv, EndpointShape
  <2> QED  BY <1>2, <2>1, ProcessKeeps DEF Leave
<1>3. CASE Ends(p)
  BY <1>3, ProcessKeeps DEF Ends, Alive, Kill
<1> QED  BY <1>1, <1>2, <1>3, <1>4

LEMMA ReservationKeeps == ASSUME EndpointInv, Age PROVE EndpointInv'
BY DEF Age, worldVars, EndpointInv, EndpointShape, RecordsHold, AllOnRecord, NoneBeside, Reading, BornAwaited, Running

-----------------------------------------------------------------------------
(* Commands *)

\* A command that goes on, with nothing it must know of other daemons.
Anywhere == CmdPoints \ {"owner", "confirm", "confirmed", "evict", "spawn", "reown", "stopped", "ending", "undoing", "await"}

\* Steps that touch the command only.
LEMMA GoesOnKeeps ==
  ASSUME EndpointInv, UNCHANGED <<kind, state, bound>>, overtaken' \in BOOLEAN, ~overtaken' => ~overtaken,
         cmd' \in CommandRecords,
         pidFile' = pidFile \/ pidFile' = Reconciled \/ (\E p \in Processes : state[p] = "dead" /\ pidFile' = RemovedFor(p)),
         cmd'.pc \in Anywhere \/ NoDaemon,
         cmd'.pc \notin {"ending", "undoing", "await"},
         cmd'.target # Nobody => state[cmd'.target] \notin Unpublished,
         overtaken' \/ NobodyReads \/ (cmd'.pc = "idle" /\ pidFile' = pidFile)
  PROVE EndpointInv'
<1>1. Running' = Running
  BY DEF Running
<1>2. pidFile' \in PidRecords
  <2>1. NoRecord \in PidRecords /\ pidFile \in PidRecords
    BY DEF NoRecord, EndpointInv, EndpointShape
  <2>2. pidFile' = pidFile \/ pidFile' = NoRecord
    BY DEF Reconciled, RemovedFor
  <2> QED  BY <2>1, <2>2
<1>3. RecordsHold' /\ AllOnRecord'
  BY <1>1 DEF Reconciled, RemovedFor, NoRecord, Alive, EndpointInv, EndpointShape, RecordsHold, AllOnRecord, Running
<1>4. NoneBeside'
  BY <1>1 DEF NoneBeside, Anywhere, NoDaemon
<1>5. BornAwaited' /\ Reading'
  BY DEF BornAwaited, Reading, NobodyReads, EndpointInv
<1> QED  BY <1>2, <1>3, <1>4, <1>5 DEF EndpointInv, EndpointShape

LEMMA TargetPublished ==
  ASSUME EndpointInv, cmd.pc \notin {"idle", "await"}
  PROVE /\ cmd.target # Nobody => state[cmd.target] \notin Unpublished
        /\ cmd.pc # "launch" => NobodyReads
BY DEF EndpointInv, BornAwaited, Reading, NobodyReads

LEMMA OvertakenIs == ASSUME EndpointInv PROVE overtaken \in BOOLEAN
BY DEF EndpointInv, EndpointShape

LEMMA QuietStepsKeep ==
  ASSUME EndpointInv,
         \/ \E op \in {"start", "switch", "restart", "settings", "stop"} : Command(op)
         \/ ProbeFirst \/ Decide \/ WaitReady \/ ApplySettings \/ ProbeServing
         \/ Ended \/ FindOwner \/ ProbeOwner \/ Evicted \/ Undone \/ TakeOver \/ Return
  PROVE EndpointInv'
<1>0. cmd \in CommandRecords
  BY DEF EndpointInv, EndpointShape
<1> USE DEF CmdAt, GoesTo, worldVars, CmdPoints, Ops, Anywhere
<1>1. ASSUME NEW op \in {"start", "switch", "restart", "settings", "stop"}, Command(op) PROVE EndpointInv'
  <2>1. /\ cmd' \in CommandRecords /\ cmd'.pc \in Anywhere /\ cmd'.target = Nobody
        /\ cmd'.pc \notin {"ending", "undoing", "await"}
    BY <1>1 DEF Command, NoCommand
  <2>2. overtaken' = (overtaken \/ \E q \in Processes : state[q] = "read") /\ UNCHANGED <<kind, state, bound, pidFile>>
    BY <1>1 DEF Command
  <2>3. overtaken' \in BOOLEAN /\ (~overtaken' => ~overtaken) /\ (overtaken' \/ NobodyReads)
    BY <2>2, OvertakenIs DEF NobodyReads
  <2> QED  BY <2>1, <2>2, <2>3, GoesOnKeeps
<1>2. ASSUME ProbeFirst PROVE EndpointInv'
  BY <1>0, <1>2, GoesOnKeeps, OvertakenIs, TargetPublished DEF ProbeFirst
<1>3. ASSUME Decide PROVE EndpointInv'
  <2>1. \/ cmd'.pc \in {"running", "wait"} /\ cmd'.target = Managed /\ Managed # Nobody
        \/ cmd'.pc \in {"replace", "spawn"} /\ cmd'.target = cmd.target /\ (cmd'.pc = "spawn" => Managed = Nobody)
    BY <1>0, <1>3 DEF Decide
  <2>2. cmd' \in CommandRecords
    <3>1. CASE Managed # Nobody /\ OwnsSocket(Managed) /\ cmd.op = "start"
      <4>1. cmd' = [cmd EXCEPT !.pc = IF cmd.answered THEN "running" ELSE "wait", !.target = Managed]
        BY <1>3, <3>1 DEF Decide
      <4> QED  BY <1>0, <4>1, ManagedRuns
    <3>2. CASE ~(Managed # Nobody /\ OwnsSocket(Managed) /\ cmd.op = "start")
      <4>1. cmd' = [cmd EXCEPT !.pc = "replace"] \/ cmd' = [cmd EXCEPT !.pc = "spawn"]
        BY <1>3, <3>2 DEF Decide
      <4> QED  BY <1>0, <4>1
    <3> QED  BY <3>1, <3>2
  <2> QED  BY <1>3, <2>1, <2>2, GoesOnKeeps, OvertakenIs, TargetPublished, ManagedRuns DEF Decide
<1>4. ASSUME WaitReady \/ ProbeServing PROVE EndpointInv'
  BY <1>0, <1>4, GoesOnKeeps, OvertakenIs, TargetPublished DEF WaitReady, ProbeServing
<1>5. ASSUME ApplySettings PROVE EndpointInv'
  BY <1>0, <1>5, GoesOnKeeps, OvertakenIs, TargetPublished DEF ApplySettings
<1>6. ASSUME Ended PROVE EndpointInv'
  <2>1. NoDaemon
    BY <1>6 DEF Ended, EndpointInv, NoneBeside, NoDaemon, Running, Alive
  <2>2. cmd' \in CommandRecords /\ cmd'.target = cmd.target /\ cmd'.pc \in {"owner", "stopped", "reown"}
    BY <1>0, <1>6 DEF Ended
  <2>3. pidFile' = pidFile \/ \E p \in Processes : state[p] = "dead" /\ pidFile' = RemovedFor(p)
    BY <1>0, <1>6, TargetPublished DEF Ended, Alive, EndpointInv, RecordsHold, RemovedFor
  <2> QED  BY <1>6, <2>1, <2>2, <2>3, GoesOnKeeps, OvertakenIs, TargetPublished DEF Ended
<1>7. ASSUME FindOwner PROVE EndpointInv'
  <2>1. NoDaemon
    BY <1>7 DEF FindOwner, EndpointInv, NoneBeside, NoDaemon
  <2>2. cmd' \in CommandRecords /\ cmd'.pc \in {"spawn", "confirm", "failed"}
        /\ (cmd'.target = cmd.target \/ cmd'.target \in bound)
    <3>1. \/ cmd' = [cmd EXCEPT !.pc = "spawn"] \/ cmd' = [cmd EXCEPT !.pc = "failed"]
          \/ \E p \in bound : cmd' = [cmd EXCEPT !.pc = "confirm", !.target = p]
      BY <1>7 DEF FindOwner
    <3>2. ASSUME NEW p \in bound, cmd' = [cmd EXCEPT !.pc = "confirm", !.target = p]
          PROVE cmd' \in CommandRecords /\ cmd'.pc = "confirm" /\ cmd'.target = p
      BY <1>0, <3>2 DEF EndpointInv, EndpointShape
    <3>3. ASSUME NEW at \in {"spawn", "failed"}, cmd' = [cmd EXCEPT !.pc = at]
          PROVE cmd' \in CommandRecords /\ cmd'.pc = at /\ cmd'.target = cmd.target
      BY <1>0, <3>3
    <3> QED  BY <3>1, <3>2, <3>3
  <2> QED  BY <1>7, <2>1, <2>2, GoesOnKeeps, OvertakenIs, TargetPublished DEF FindOwner, EndpointInv, EndpointShape
<1>8. ASSUME ProbeOwner PROVE EndpointInv'
  BY <1>0, <1>8, GoesOnKeeps, OvertakenIs, TargetPublished DEF ProbeOwner, EndpointInv, NoneBeside, NoDaemon
<1>9. ASSUME Evicted PROVE EndpointInv'
  BY <1>0, <1>9, GoesOnKeeps, OvertakenIs, TargetPublished DEF Evicted, EndpointInv, NoneBeside, NoDaemon
<1>10. ASSUME Undone PROVE EndpointInv'
  <2>1. pidFile' = pidFile \/ \E p \in Processes : state[p] = "dead" /\ pidFile' = RemovedFor(p)
    BY <1>0, <1>10, TargetPublished DEF Undone, Alive, EndpointInv, RecordsHold, RemovedFor
  <2> QED  BY <1>0, <1>10, <2>1, GoesOnKeeps, OvertakenIs, TargetPublished DEF Undone
<1>11. ASSUME TakeOver PROVE EndpointInv'
  <2>1. cmd' \in CommandRecords /\ cmd'.target = cmd.target /\ cmd'.pc \in {"replace", "failed"}
    <3>1. cmd' = [cmd EXCEPT !.pc = "failed"] \/ cmd' = [cmd EXCEPT !.pc = "replace", !.attempt = cmd.attempt + 1]
      BY <1>11 DEF TakeOver
    <3>2. cmd.attempt + 1 \in Nat
      BY <1>0
    <3> QED  BY <1>0, <3>1, <3>2
  <2> QED  BY <1>11, <2>1, GoesOnKeeps, OvertakenIs, TargetPublished DEF TakeOver
<1>12. ASSUME Return PROVE EndpointInv'
  BY <1>12, GoesOnKeeps, OvertakenIs DEF Return, NoCommand
<1> QED  BY <1>1, <1>2, <1>3, <1>4, <1>5, <1>6, <1>7, <1>8, <1>9, <1>10, <1>11, <1>12

\* The daemon on record is ended, gracefully or at once, or there is none.
LEMMA EndingKeeps ==
  ASSUME EndpointInv, cmd.pc \notin {"idle", "launch", "await"}, NEW next \in {"owner", "reown"}, EndManaged(next),
         UNCHANGED <<kind, overtaken>>
  PROVE EndpointInv'
<1> USE DEF EndpointInv, EndpointShape
<1>1. CASE Managed = Nobody
  <2>1. cmd' = [cmd EXCEPT !.target = Nobody, !.pc = next] /\ pidFile' = Reconciled /\ UNCHANGED <<kind, state, bound>>
    BY <1>1 DEF EndManaged
  <2>2. cmd' \in CommandRecords /\ cmd'.pc = next /\ cmd'.target = Nobody
    BY <2>1 DEF CmdPoints
  <2> QED  BY <1>1, <2>1, <2>2, GoesOnKeeps, OvertakenIs, ManagedRuns, TargetPublished
<1>2. CASE Managed # Nobody
  <2>1. /\ cmd' = [cmd EXCEPT !.target = Managed, !.pc = "ending"] /\ Managed \in Processes
        /\ pidFile' = Reconciled /\ pidFile.is = "record" /\ pidFile.p = Managed /\ Alive(Managed)
        /\ (state' = state /\ bound' = bound)
           \/ (state' = [state EXCEPT ![Managed] = "dead"] /\ bound' = bound \ {Managed})
    BY <1>2, ManagedRuns DEF EndManaged, Term, Kill, Managed
  <2>2. cmd' \in CommandRecords /\ cmd'.pc = "ending" /\ cmd'.target = Managed
    BY <2>1 DEF CmdPoints
  <2>3. pidFile' = pidFile
    BY <2>1 DEF Reconciled, RecordsHold
  <2>4. Running' \subseteq Running /\ (~overtaken => Running \subseteq {Managed}) /\ state'[Managed] \notin Unpublished
    BY <1>2, <2>1, ManagedRuns DEF Running
  <2>5. NobodyReads /\ NobodyReads'
    BY <2>1, TargetPublished DEF NobodyReads
  <2> QED
    BY <2>1, <2>2, <2>3, <2>4, <2>5 DEF RecordsHold, AllOnRecord, NoneBeside, Reading, NobodyReads, BornAwaited
<1> QED  BY <1>1, <1>2

LEMMA ForceKeeps == ASSUME EndpointInv, ForceEnd PROVE EndpointInv'
<1>1. cmd.target \in Processes
  BY DEF ForceEnd, Alive, EndpointInv, EndpointShape
<1> QED  BY <1>1, ProcessKeeps, TargetPublished DEF ForceEnd, Kill, Alive, CmdAt

LEMMA SpawnKeeps == ASSUME EndpointInv, Spawn PROVE EndpointInv'
<1>0. PICK c \in Processes :
       /\ Fresh(c) /\ state' = [state EXCEPT ![c] = "born"]
       /\ pidFile' = [is |-> "reserved", p |-> c, old |-> FALSE]
       /\ cmd' = [cmd EXCEPT !.pc = "await", !.target = c]
  BY DEF Spawn
<1>1. NoDaemon /\ NobodyReads /\ state[c] = "none" /\ UNCHANGED <<kind, bound, overtaken>>
  BY <1>0, TargetPublished DEF Spawn, CmdAt, Fresh, EndpointInv, NoneBeside, NoDaemon
<1>2. cmd' \in CommandRecords /\ cmd'.pc = "await" /\ cmd'.target = c
  BY <1>0 DEF EndpointInv, EndpointShape, CmdPoints
<1>3. NoDaemon' /\ NobodyReads'
  BY <1>0, <1>1 DEF NoDaemon, NobodyReads, Running, EndpointInv, EndpointShape
<1> QED
  BY <1>0, <1>1, <1>2, <1>3 DEF EndpointInv, EndpointShape, RecordsHold, AllOnRecord, NoneBeside, Reading, NobodyReads, NoDaemon, BornAwaited

LEMMA PublishedKeeps == ASSUME EndpointInv, Published PROVE EndpointInv'
<1>1. cmd' = [cmd EXCEPT !.pc = "ready"] /\ Managed = cmd.target /\ UNCHANGED <<kind, state, bound, pidFile>>
  BY DEF Published, GoesTo, worldVars
<1>2. cmd' \in CommandRecords /\ cmd'.pc = "ready" /\ cmd'.target = cmd.target
  BY <1>1 DEF EndpointInv, EndpointShape, CmdPoints
<1>3. NobodyReads
  BY <1>1 DEF Published, CmdAt, Managed, EndpointInv, Reading, NobodyReads
<1>4. overtaken' \in BOOLEAN /\ overtaken' = overtaken /\ (cmd'.target # Nobody => state[cmd'.target] \notin Unpublished)
  BY <1>1, <1>2, OvertakenIs, ManagedRuns DEF Published
<1> QED  BY <1>1, <1>2, <1>3, <1>4, GoesOnKeeps DEF Anywhere, CmdPoints

LEMMA NotPublishedKeeps == ASSUME EndpointInv, NotPublished PROVE EndpointInv'
<1>1. /\ cmd' = [cmd EXCEPT !.pc = "retry"] /\ state' = [state EXCEPT ![cmd.target] = "dead"]
      /\ bound' = bound \ {cmd.target} /\ pidFile' = NoRecord /\ kind' = kind /\ overtaken' = overtaken
      /\ (~overtaken => Running \subseteq {cmd.target})
      /\ (~overtaken => \A p \in Processes : state[p] = "read" => p = cmd.target)
  BY DEF NotPublished, GoesTo, Kill, CmdAt, EndpointInv, NoneBeside, Reading
<1>2. cmd' \in CommandRecords /\ cmd'.pc = "retry" /\ cmd'.target = cmd.target
  BY <1>1 DEF EndpointInv, EndpointShape, CmdPoints
<1>3. NoDaemon' /\ NobodyReads'
  BY <1>1 DEF Running, EndpointInv, EndpointShape, NoDaemon, NobodyReads
<1>4. cmd.target # Nobody => state'[cmd.target] = "dead"
  BY <1>1 DEF EndpointInv, EndpointShape
<1> QED
  BY <1>1, <1>2, <1>3, <1>4
     DEF EndpointInv, EndpointShape, NoRecord, RecordsHold, AllOnRecord, NoneBeside, Reading, NoDaemon, NobodyReads, BornAwaited

LEMMA ReadyKeeps == ASSUME EndpointInv, Ready PROVE EndpointInv'
<1> USE DEF EndpointInv, EndpointShape
<1>1. cmd.pc = "ready" /\ kind' = kind /\ overtaken' = overtaken /\ NobodyReads
  BY TargetPublished DEF Ready, CmdAt
<1>2. CASE UNCHANGED <<state, bound>>
  <2>1. CASE cmd' = [cmd EXCEPT !.pc = "running"] \/ cmd' = [cmd EXCEPT !.pc = "retry"]
    <3>1. cmd' \in CommandRecords /\ cmd'.pc \in {"running", "retry"} /\ cmd'.target = cmd.target
      BY <2>1 DEF CmdPoints
    <3>2. pidFile' = pidFile \/ pidFile' = Reconciled
      BY DEF Ready
    <3> QED  BY <1>1, <1>2, <3>1, <3>2, GoesOnKeeps, OvertakenIs, TargetPublished DEF Anywhere, CmdPoints
  <2>2. CASE cmd' = [cmd EXCEPT !.pc = "undoing"] /\ Managed = cmd.target /\ pidFile' = Reconciled
    <3>1. cmd' \in CommandRecords /\ cmd'.pc = "undoing" /\ cmd'.target = cmd.target
      BY <2>2 DEF CmdPoints
    <3>2. pidFile' = Reconciled /\ pidFile' \in PidRecords /\ RecordsHold' /\ AllOnRecord'
      BY <1>1, <1>2, <2>2 DEF Reconciled, NoRecord, Alive, RecordsHold, AllOnRecord, Running
    <3> QED
      BY <1>1, <1>2, <2>2, <3>1, <3>2, ManagedRuns, TargetPublished
         DEF NoneBeside, Reading, NobodyReads, BornAwaited, Running
  <2> QED  BY <1>2, <2>1, <2>2 DEF Ready, GoesTo
<1>3. CASE Managed = cmd.target /\ cmd' = [cmd EXCEPT !.pc = "undoing"] /\ pidFile' = Reconciled
           /\ state' = [state EXCEPT ![cmd.target] = "dead"] /\ bound' = bound \ {cmd.target}
  <2>1. cmd' \in CommandRecords /\ cmd'.pc = "undoing" /\ cmd'.target = cmd.target
    BY <1>3 DEF CmdPoints
  <2>2. Running' \subseteq Running /\ (~overtaken => Running \subseteq {cmd.target}) /\ cmd.target \notin Running'
    BY <1>1, <1>3, ManagedRuns DEF Running
  <2>3. pidFile' \in PidRecords /\ RecordsHold'
    BY <1>1, <1>3 DEF Reconciled, NoRecord, RecordsHold
  <2>4. AllOnRecord' /\ Reading'
    BY <1>1, <1>3, <2>2, ManagedRuns DEF AllOnRecord, Reading, NobodyReads
  <2>5. NoneBeside' /\ BornAwaited'
    BY <1>1, <1>3, <2>1, <2>2 DEF NoneBeside, BornAwaited
  <2>6. EndpointShape'
    BY <1>1, <1>3, <2>1, <2>3
  <2> QED  BY <2>3, <2>4, <2>5, <2>6
<1> QED  BY <1>1, <1>2, <1>3 DEF Ready, GoesTo, Term, Kill

LEMMA StopOwnedKeeps == ASSUME EndpointInv, StopOwned PROVE EndpointInv'
<1>1. NoDaemon /\ cmd.pc = "reown" /\ UNCHANGED <<kind, state, bound, pidFile, overtaken>>
  BY DEF StopOwned, CmdAt, Term, EndpointInv, NoneBeside, NoDaemon
<1>2. \/ cmd' = [cmd EXCEPT !.pc = "evict", !.target = ownerFile] /\ ownerFile \in bound
      \/ \E at \in {"failed", "notManaged", "stopped"} : cmd' = [cmd EXCEPT !.pc = at]
  BY DEF StopOwned, GoesTo
<1>3. cmd' \in CommandRecords /\ cmd'.pc \in {"evict", "failed", "notManaged", "stopped"}
      /\ (cmd'.target = cmd.target \/ cmd'.target \in bound)
  <2>1. CASE cmd' = [cmd EXCEPT !.pc = "evict", !.target = ownerFile] /\ ownerFile \in bound
    BY <2>1 DEF EndpointInv, EndpointShape, CmdPoints
  <2>2. ASSUME NEW at \in {"failed", "notManaged", "stopped"}, cmd' = [cmd EXCEPT !.pc = at]
        PROVE cmd' \in CommandRecords /\ cmd'.pc = at /\ cmd'.target = cmd.target
    BY <2>2 DEF EndpointInv, EndpointShape, CmdPoints
  <2> QED  BY <1>2, <2>1, <2>2
<1> QED  BY <1>1, <1>3, GoesOnKeeps, OvertakenIs, TargetPublished DEF EndpointInv, EndpointShape

LEMMA EvictKeeps == ASSUME EndpointInv, Evict PROVE EndpointInv'
<1>1. NoDaemon /\ cmd.pc = "confirmed" /\ UNCHANGED <<kind, state, bound, pidFile, overtaken>>
  BY DEF Evict, CmdAt, Term, EndpointInv, NoneBeside, NoDaemon
<1>2. PICK at \in {"spawn", "failed", "evict"} : cmd' = [cmd EXCEPT !.pc = at]
  BY DEF Evict, GoesTo
<1>3. cmd' \in CommandRecords /\ cmd'.pc = at /\ cmd'.target = cmd.target
  BY <1>2 DEF EndpointInv, EndpointShape, CmdPoints
<1> QED  BY <1>1, <1>3, GoesOnKeeps, OvertakenIs, TargetPublished

LEMMA EndpointStepKeeps == ASSUME EndpointInv, [EndpointNext]_endpointVars PROVE EndpointInv'
<1>1. ASSUME Replace \/ StopDaemon PROVE EndpointInv'
  BY <1>1, EndingKeeps DEF Replace, StopDaemon, CmdAt
<1>2. ASSUME UNCHANGED endpointVars PROVE EndpointInv'
  BY <1>2 DEF endpointVars, EndpointInv, EndpointShape, RecordsHold, AllOnRecord, NoneBeside, Reading, BornAwaited, Running
<1> QED
  BY <1>1, <1>2, OtherBindsKeeps, AppLaunchesKeeps, ReadKeeps, PublishKeeps, StartingKeeps, LeavingKeeps, ReservationKeeps,
     QuietStepsKeep,
     ForceKeeps, SpawnKeeps, PublishedKeeps, NotPublishedKeeps, ReadyKeeps, StopOwnedKeeps, EvictKeeps
     DEF EndpointNext

\* A daemon that runs is on record, and a stop that reports success leaves
\* none (spawnDetachedGateway, publishDaemonChildRecord, replaceEndpoint,
\* HybridDaemon.stop), for any number of processes and commands, killed or not,
\* until a killed command's child publishes itself in the middle of another;
\* also when other servers come between, or one stops slowly (Slow, Unfenced).
THEOREM DaemonsOnRecord == EndpointSpec => []DaemonOnRecord
<1>1. EndpointInv => DaemonOnRecord
  BY DEF EndpointInv, AllOnRecord, NoneBeside, Running, DaemonOnRecord, CmdAt
<1>2. EndpointInv /\ [EndpointNext]_endpointVars => EndpointInv'
  BY EndpointStepKeeps
<1> QED  BY EndpointStarts, <1>1, <1>2, PTL DEF EndpointSpec

-----------------------------------------------------------------------------
(* Who is signalled, and who has the pathname *)

\* Only a child of a command publishes itself, only a gateway starts and shuts down.
WhoStarts ==
    \A p \in Processes :
        /\ state[p] \in Unpublished => kind[p] = "daemon"
        /\ state[p] \in {"starting", "probed", "prepared", "closed", "stranded"} => kind[p] \in Gateways

RecordsOfGateways ==
    /\ pidFile.is = "record" => kind[pidFile.p] = "daemon"
    /\ path \in Processes \cup {Nobody} /\ ownerFile \in Processes \cup {Nobody}
    /\ ownerFile # Nobody => kind[ownerFile] # "other" /\ state[ownerFile] # "none"

ToldAreServers ==
    /\ told \subseteq { p \in Processes : kind[p] # "other" /\ state[p] \in {"serving", "closed", "dead"} }
    /\ \A p \in Processes : state[p] = "closed" => p \in told

\* What is no gateway has the pathname as long as it has its socket, and only
\* it may have been told to end.
OutsidersAlone ==
    \A p \in bound : kind[p] \notin Gateways => path = p /\ \A q \in told : Alive(q) => q = p

\* One gateway at a time is between its probe and its socket, and what it has
\* found free stays free until it unlinks it.
OneStarts ==
    /\ \A p, q \in Processes : state[p] \in {"probed", "prepared"} /\ state[q] \in {"probed", "prepared"} => p = q
    /\ \A p \in Processes : state[p] = "probed" => path \notin bound

\* Nobody else has the endpoint while a gateway that was told to end goes.
ToldAlone == ~Slow => \A q \in told : Alive(q) => bound \subseteq {q}

\* An owner that has answered is an app server, and still the same process.
TargetsSpared ==
    cmd.target # Nobody =>
        /\ cmd.pc \in {"ending", "undoing", "evict"} => kind[cmd.target] # "other"
        /\ cmd.pc = "confirmed" /\ cmd.answered /\ cmd.target \in bound => kind[cmd.target] # "other"

PathInv ==
    /\ EndpointInv /\ WhoStarts /\ RecordsOfGateways /\ ToldAreServers /\ OutsidersAlone /\ OneStarts /\ ToldAlone
    /\ TargetsSpared

\* A step takes the pathname from nobody who serves.
KeepsPath == \A p \in Processes : path = p /\ p \in bound /\ p \in bound' => path' # Nobody

LEMMA PathStarts == EndpointInit => PathInv
BY EndpointStarts
   DEF EndpointInit, PathInv, WhoStarts, RecordsOfGateways, ToldAreServers, OutsidersAlone, OneStarts, ToldAlone,
       TargetsSpared, NoRecord, NoCommand

LEMMA NobodyLoses == ASSUME PathInv, path' = path \/ path \notin bound \/ path \notin bound' PROVE KeepsPath
BY DEF KeepsPath

LEMMA NobodyUnbound == ASSUME PathInv PROVE Nobody \notin bound /\ bound \subseteq Processes
BY DEF PathInv, EndpointInv, EndpointShape

-----------------------------------------------------------------------------
(* Processes *)

\* A process that appears: another program with its socket, or the App's gateway.
LEMMA OtherBindsSpares ==
  ASSUME ~Unfenced, PathInv, NEW p \in Processes, NEW k \in {"stock", "other"}, OtherBinds(p, k)
  PROVE PathInv' /\ KeepsPath
<1>1. EndpointInv'
  BY OtherBindsKeeps DEF PathInv
<1>2. /\ state[p] = "none" /\ kind' = [kind EXCEPT ![p] = k] /\ state' = [state EXCEPT ![p] = "serving"]
      /\ bound' = bound \cup {p} /\ path' = p /\ UNCHANGED <<told, pidFile, ownerFile, cmd>>
      /\ (path \in bound => kind[path] \in Gateways)
      /\ \A q \in Processes : state[q] # "probed" /\ ~(q \in told /\ Alive(q))
  BY DEF OtherBinds, Fresh
<1>3. /\ kind'[p] = k /\ state'[p] = "serving" /\ p \notin bound /\ p \notin told
      /\ \A q \in Processes \ {p} : kind'[q] = kind[q] /\ state'[q] = state[q]
  BY <1>2 DEF PathInv, EndpointInv, EndpointShape, ToldAreServers
<1>4. WhoStarts'
  BY <1>3 DEF PathInv, WhoStarts
<1>5. RecordsOfGateways'
  BY <1>2, <1>3 DEF PathInv, RecordsOfGateways, EndpointInv, RecordsHold
<1>6. ToldAreServers'
  BY <1>2, <1>3 DEF PathInv, ToldAreServers
<1>7. \A q \in told' : ~Alive(q)'
  BY <1>2, <1>3 DEF PathInv, ToldAreServers, Alive
<1>8. \A r \in bound : kind[r] \in Gateways
  BY <1>2 DEF PathInv, OutsidersAlone
<1>9. OutsidersAlone' /\ ToldAlone'
  BY <1>2, <1>3, <1>7, <1>8, NobodyUnbound DEF OutsidersAlone, ToldAlone
<1>10. OneStarts'
  BY <1>2, <1>3 DEF PathInv, OneStarts
<1>11. TargetsSpared'
  BY <1>2, <1>3 DEF PathInv, TargetsSpared, EndpointInv, EndpointShape, BornAwaited
<1> QED  BY <1>1, <1>2, <1>4, <1>5, <1>6, <1>9, <1>10, <1>11 DEF PathInv, KeepsPath

LEMMA AppLaunchesSpares == ASSUME PathInv, NEW p \in Processes, AppLaunches(p) PROVE PathInv' /\ KeepsPath
<1>1. EndpointInv'
  BY AppLaunchesKeeps DEF PathInv
<1>2. /\ state[p] = "none" /\ kind' = [kind EXCEPT ![p] = "app"] /\ state' = [state EXCEPT ![p] = "starting"]
      /\ cmd' = [NoCommand EXCEPT !.op = "app", !.pc = "launch", !.target = p]
      /\ UNCHANGED <<told, bound, path, pidFile, ownerFile>>
  BY DEF AppLaunches, Fresh
<1>3. /\ kind'[p] = "app" /\ state'[p] = "starting" /\ p \notin bound /\ p \notin told /\ cmd'.pc = "launch"
      /\ \A q \in Processes \ {p} : kind'[q] = kind[q] /\ state'[q] = state[q]
  BY <1>2 DEF PathInv, EndpointInv, EndpointShape, ToldAreServers, NoCommand
<1>4. WhoStarts'
  BY <1>3 DEF PathInv, WhoStarts, Gateways
<1>5. RecordsOfGateways'
  BY <1>2, <1>3 DEF PathInv, RecordsOfGateways, EndpointInv, RecordsHold
<1>6. ToldAreServers'
  BY <1>2, <1>3 DEF PathInv, ToldAreServers
<1>7. OutsidersAlone' /\ ToldAlone'
  BY <1>2, <1>3, NobodyUnbound DEF PathInv, OutsidersAlone, ToldAlone, Alive, ToldAreServers
<1>8. OneStarts' /\ TargetsSpared'
  BY <1>2, <1>3 DEF PathInv, OneStarts, TargetsSpared
<1> QED  BY <1>1, <1>2, <1>4, <1>5, <1>6, <1>7, <1>8, NobodyLoses DEF PathInv

\* The step of one process from `from` to `s`.
Becomes(p, from, s) == state[p] = from /\ state' = [state EXCEPT ![p] = s] /\ UNCHANGED <<kind, told, cmd>>

\* A process that goes on, or ends, keeps to what it has; only one that has
\* taken its socket is in the pathname.
LEMMA ProcessSpares ==
  ASSUME PathInv, EndpointInv', NEW p \in Processes, NEW from, NEW s, Becomes(p, from, s),
         \/ <<from, s>> = <<"born", "read">> \/ <<from, s>> = <<"read", "starting">>
         \/ <<from, s>> = <<"starting", "probed">> /\ path \notin bound /\ ~OthersStart(p)
         \/ <<from, s>> = <<"probed", "prepared">> \/ <<from, s>> = <<"prepared", "stranded">>
         \/ <<from, s>> = <<"prepared", "serving">> /\ path = Nobody /\ (~Slow => \A q \in told : ~Alive(q))
         \/ <<from, s>> = <<"serving", "closed">> /\ p \in told /\ kind[p] \in Gateways
         \/ s = "dead" /\ from # "none",
         bound' = IF s = "serving" THEN bound \cup {p} ELSE bound \ {p},
         path' = (IF s = "serving" THEN p ELSE path) \/ path' = Nobody,
         path' # path => \A r \in bound' : kind[r] \in Gateways,
         ownerFile' = ownerFile \/ ownerFile' = Nobody \/ (ownerFile' = p /\ s = "serving"),
         pidFile'.is = "record" => kind[pidFile'.p] = "daemon"
  PROVE PathInv'
<1>1. state'[p] = s /\ (\A q \in Processes \ {p} : state'[q] = state[q]) /\ UNCHANGED <<kind, told, cmd>> /\ state[p] = from
  BY DEF Becomes, PathInv, EndpointInv, EndpointShape
<1>2. WhoStarts' /\ (s = "serving" => kind[p] \in Gateways /\ p \notin told)
  BY <1>1 DEF PathInv, WhoStarts, ToldAreServers, Gateways
<1>3. RecordsOfGateways'
  BY <1>1, <1>2 DEF PathInv, RecordsOfGateways, Gateways
<1>4. ToldAreServers'
  BY <1>1, <1>2 DEF PathInv, ToldAreServers
<1>5. \A q \in told : Alive(q)' => Alive(q)
  BY <1>1 DEF PathInv, ToldAreServers, Alive
<1>6. OutsidersAlone'
  <2>1. ASSUME NEW r \in bound', kind[r] \notin Gateways PROVE r \in bound /\ path' = r
    BY <1>2, <2>1 DEF PathInv, OutsidersAlone
  <2> QED  BY <1>1, <1>5, <2>1 DEF PathInv, OutsidersAlone
<1>7. OneStarts'
  <2>1. \A q, r \in Processes : state'[q] \in {"probed", "prepared"} /\ state'[r] \in {"probed", "prepared"} => q = r
    BY <1>1 DEF PathInv, OneStarts, OthersStart
  <2>2. ASSUME NEW q \in Processes, state'[q] = "probed" PROVE path' \notin bound'
    <3>1. path \notin bound /\ s # "serving"
      BY <1>1, <2>2 DEF PathInv, OneStarts
    <3> QED  BY <3>1, NobodyUnbound
  <2> QED  BY <2>1, <2>2 DEF OneStarts
<1>8. ToldAlone'
  BY <1>1, <1>5 DEF PathInv, ToldAlone
<1>9. TargetsSpared'
  BY <1>1, <1>2 DEF PathInv, TargetsSpared, Gateways
<1> QED  BY <1>2, <1>3, <1>4, <1>6, <1>7, <1>8, <1>9 DEF PathInv

LEMMA NoRecordNames ==
  ASSUME PathInv
  PROVE /\ pidFile.is = "record" => kind[pidFile.p] = "daemon"
        /\ \A p \in Processes : RemovedFor(p).is = "record" => kind[RemovedFor(p).p] = "daemon"
BY DEF PathInv, RecordsOfGateways, RemovedFor, NoRecord

LEMMA HandshakeSpares ==
  ASSUME PathInv, NEW p \in Processes, ReadReservation(p) \/ PublishRecord(p) PROVE PathInv' /\ KeepsPath
<1>1. EndpointInv'
  BY ReadKeeps, PublishKeeps DEF PathInv
<1>2. p \notin bound /\ kind[p] = "daemon" /\ bound' = bound \ {p} /\ UNCHANGED <<kind, told, cmd, path, ownerFile>>
  BY DEF ReadReservation, PublishRecord, PathInv, WhoStarts, Unpublished, EndpointInv, EndpointShape
<1>3. CASE ReadReservation(p)
  <2>1. PICK s \in {"read", "dead"} : Becomes(p, "born", s)
    BY <1>3 DEF ReadReservation, Becomes
  <2>2. pidFile'.is = "record" => kind[pidFile'.p] = "daemon"
    BY <1>3, NoRecordNames DEF ReadReservation
  <2> QED  BY <1>1, <1>2, <2>1, <2>2, ProcessSpares, NobodyLoses
<1>4. CASE PublishRecord(p)
  <2>1. Becomes(p, "read", "starting")
    BY <1>4 DEF PublishRecord, Becomes
  <2>2. pidFile'.is = "record" => kind[pidFile'.p] = "daemon"
    BY <1>2, <1>4 DEF PublishRecord, NoRecord
  <2> QED  BY <1>1, <1>2, <2>1, <2>2, ProcessSpares, NobodyLoses
<1> QED  BY <1>3, <1>4

LEMMA StartingSpares ==
  ASSUME ~Unfenced, PathInv, NEW p \in Processes,
         ProbePath(p) \/ NotStarted(p) \/ Prepare(p) \/ Listen(p) \/ ListenFails(p)
  PROVE PathInv' /\ KeepsPath
<1>1. EndpointInv'
  BY StartingKeeps DEF PathInv
<1>2. p \notin bound /\ bound = bound \ {p}
  BY DEF ProbePath, NotStarted, Prepare, Listen, ListenFails, PathInv, EndpointInv, EndpointShape
<1>3. CASE ProbePath(p)
  <2>1. Becomes(p, "starting", "probed") /\ path \notin bound /\ ~OthersStart(p) /\ UNCHANGED <<bound, path, ownerFile, pidFile>>
    BY <1>3 DEF ProbePath, Becomes
  <2> QED  BY <1>1, <1>2, <2>1, NoRecordNames, ProcessSpares, NobodyLoses DEF Becomes
<1>4. CASE NotStarted(p)
  <2>1. Becomes(p, "starting", "dead") /\ UNCHANGED <<bound, path, ownerFile>> /\ pidFile' = RemovedFor(p)
    BY <1>4 DEF NotStarted, Becomes
  <2> QED  BY <1>1, <1>2, <2>1, NoRecordNames, ProcessSpares, NobodyLoses
<1>5. CASE Prepare(p)
  <2>1. Becomes(p, "probed", "prepared") /\ path \notin bound /\ path' = Nobody /\ UNCHANGED <<kind, bound, ownerFile, pidFile>>
    BY <1>5 DEF Prepare, Becomes, PathInv, OneStarts
  <2>2. \A r \in bound' : kind[r] \in Gateways
    BY <2>1 DEF PathInv, OutsidersAlone
  <2> QED  BY <1>1, <1>2, <2>1, <2>2, NoRecordNames, ProcessSpares, NobodyLoses
<1>6. CASE Listen(p)
  <2>1. /\ Becomes(p, "prepared", "serving") /\ path = Nobody /\ (~Slow => \A q \in told : ~Alive(q))
        /\ bound' = bound \cup {p} /\ path' = p /\ ownerFile' = p /\ UNCHANGED <<kind, pidFile>>
    BY <1>6 DEF Listen, Becomes
  <2>2. \A r \in bound' : kind[r] \in Gateways
    BY <2>1, NobodyUnbound DEF PathInv, OutsidersAlone, WhoStarts, Becomes
  <2>3. path \notin bound
    BY <2>1, NobodyUnbound
  <2> QED  BY <1>1, <2>1, <2>2, <2>3, NoRecordNames, ProcessSpares, NobodyLoses
<1>7. CASE ListenFails(p)
  <2>1. PICK s \in {"stranded", "dead"} : Becomes(p, "prepared", s)
    BY <1>7 DEF ListenFails, Becomes
  <2>2. UNCHANGED <<kind, bound, path, ownerFile>> /\ pidFile' = RemovedFor(p)
    BY <1>7 DEF ListenFails
  <2> QED  BY <1>1, <1>2, <2>1, <2>2, NoRecordNames, ProcessSpares, NobodyLoses
<1> QED  BY <1>3, <1>4, <1>5, <1>6, <1>7

LEMMA GoingSpares ==
  ASSUME PathInv, NEW p \in Processes, CloseServer(p) \/ Leave(p) \/ Ends(p) PROVE PathInv' /\ (~Slow => KeepsPath)
<1>0. EndpointInv'
  BY LeavingKeeps DEF PathInv
<1>1. CASE CloseServer(p)
  <2>1. /\ Becomes(p, "serving", "closed") /\ p \in told /\ kind[p] \in Gateways /\ Alive(p)
        /\ bound' = bound \ {p} /\ path' = Nobody /\ UNCHANGED <<pidFile, ownerFile>>
    BY <1>1 DEF CloseServer, Becomes, Alive
  <2>2. \A r \in bound' : kind[r] \in Gateways
    BY <2>1 DEF PathInv, OutsidersAlone
  <2>3. ~Slow => path \notin bound'
    BY <2>1 DEF PathInv, ToldAlone
  <2> QED  BY <1>0, <2>1, <2>2, <2>3, NoRecordNames, ProcessSpares, NobodyLoses DEF Becomes
<1>2. CASE Leave(p)
  <2>1. /\ Becomes(p, "closed", "dead") /\ p \in told /\ Alive(p) /\ p \notin bound
        /\ bound' = bound /\ path' = Nobody /\ pidFile' = RemovedFor(p) /\ ownerFile' \in {ownerFile, Nobody}
    BY <1>2 DEF Leave, Becomes, Alive, PathInv, ToldAreServers, EndpointInv, EndpointShape
  <2>2. \A r \in bound' : kind[r] \in Gateways
    BY <2>1 DEF PathInv, OutsidersAlone
  <2>3. ~Slow => path \notin bound'
    BY <2>1 DEF PathInv, ToldAlone
  <2> QED  BY <1>0, <2>1, <2>2, <2>3, NoRecordNames, ProcessSpares, NobodyLoses
<1>3. CASE Ends(p)
  <2>1. /\ Becomes(p, state[p], "dead") /\ state[p] # "none" /\ bound' = bound \ {p} /\ UNCHANGED <<path, pidFile, ownerFile>>
    BY <1>3 DEF Ends, Kill, Alive, Becomes
  <2> QED  BY <1>0, <2>1, NoRecordNames, ProcessSpares, NobodyLoses DEF Becomes
<1> QED  BY <1>1, <1>2, <1>3

-----------------------------------------------------------------------------
(* Commands *)

\* A command's steps leave the pathname alone; they may tell the one process
\* that has the endpoint, or kill one, and mind whom they go on with.
LEMMA CommandSpares ==
  ASSUME PathInv, EndpointInv', UNCHANGED <<kind, path>>, ownerFile' \in {ownerFile, Nobody},
         pidFile'.is = "record" => kind[pidFile'.p] = "daemon",
         \/ UNCHANGED <<state, bound, told>>
         \/ \E p \in Processes : kind[p] # "other" /\ bound = {p} /\ Term(p)
         \/ \E p \in Processes : Kill(p),
         cmd'.target # Nobody => 
            /\ cmd'.pc \in {"ending", "undoing", "evict"} => kind[cmd'.target] # "other"
            /\ cmd'.pc = "confirmed" /\ cmd'.answered /\ cmd'.target \in bound => kind[cmd'.target] # "other"
  PROVE PathInv' /\ KeepsPath
<1> USE DEF PathInv, EndpointInv, EndpointShape
<1>0. WhoStarts /\ RecordsOfGateways /\ ToldAreServers /\ OutsidersAlone /\ OneStarts /\ ToldAlone
  OBVIOUS
<1>1. CASE UNCHANGED <<state, bound, told>>
  BY <1>1, NobodyLoses
     DEF WhoStarts, RecordsOfGateways, ToldAreServers, OutsidersAlone, OneStarts, ToldAlone, TargetsSpared, Alive
<1>2. ASSUME NEW p \in Processes, kind[p] # "other", bound = {p}, Term(p) PROVE PathInv' /\ KeepsPath
  <2>1. told' = told \cup {p} /\ UNCHANGED <<state, bound>> /\ state[p] = "serving"
    BY <1>2 DEF Term
  <2>2. WhoStarts' /\ RecordsOfGateways' /\ OneStarts' /\ TargetsSpared' /\ ToldAreServers'
    BY <1>0, <1>2, <2>1 DEF WhoStarts, RecordsOfGateways, OneStarts, TargetsSpared, ToldAreServers
  <2>3. OutsidersAlone' /\ ToldAlone'
    BY <1>0, <1>2, <2>1 DEF OutsidersAlone, ToldAlone, Alive
  <2> QED  BY <2>1, <2>2, <2>3, NobodyLoses
<1>3. ASSUME NEW p \in Processes, Kill(p) PROVE PathInv' /\ KeepsPath
  <2>1. state' = [state EXCEPT ![p] = "dead"] /\ bound' = bound \ {p} /\ told' = told
    BY <1>3 DEF Kill
  <2>2. state'[p] = "dead" /\ \A q \in Processes \ {p} : state'[q] = state[q]
    BY <2>1
  <2>3. WhoStarts' /\ RecordsOfGateways' /\ OneStarts' /\ TargetsSpared'
    BY <1>0, <2>1, <2>2 DEF WhoStarts, RecordsOfGateways, OneStarts, TargetsSpared
  <2>4. ToldAreServers'
    BY <1>0, <2>1, <2>2 DEF ToldAreServers
  <2>5. OutsidersAlone' /\ ToldAlone'
    BY <1>0, <2>1, <2>2 DEF OutsidersAlone, ToldAlone, Alive
  <2> QED  BY <2>1, <2>3, <2>4, <2>5, NobodyLoses
<1> QED  BY <1>1, <1>2, <1>3

LEMMA StopsItselfSpares ==
  ASSUME ~Unfenced, PathInv, EndpointInv', NEW p \in Processes, StopsItself(p) PROVE PathInv' /\ KeepsPath
<1>1. kind[p] # "other" /\ bound = {p} /\ Term(p) /\ UNCHANGED <<kind, path, pidFile, ownerFile, cmd>>
  BY DEF StopsItself, Gateways
<1> QED  BY <1>1, CommandSpares, NoRecordNames DEF PathInv, TargetsSpared

LEMMA ManagedIsDaemon == ASSUME PathInv, Managed # Nobody PROVE Managed \in Processes /\ kind[Managed] = "daemon"
BY ManagedRuns DEF PathInv, RecordsOfGateways, Managed

LEMMA RecordsStay ==
  ASSUME PathInv, kind' = kind,
         pidFile' \in {pidFile, Reconciled, NoRecord} \/ \E p \in Processes \cup {Nobody} : pidFile' = RemovedFor(p)
  PROVE pidFile'.is = "record" => kind[pidFile'.p] = "daemon"
BY DEF PathInv, RecordsOfGateways, Reconciled, RemovedFor, NoRecord

LEMMA QuietStepsSpare ==
  ASSUME PathInv, EndpointInv',
         \/ \E op \in {"start", "switch", "restart", "settings", "stop"} : Command(op)
         \/ ProbeFirst \/ Decide \/ WaitReady \/ ApplySettings \/ ProbeServing \/ Age
         \/ Ended \/ FindOwner \/ Evicted \/ Published \/ Undone \/ TakeOver \/ Return
  PROVE PathInv' /\ KeepsPath
<1>0. cmd \in CommandRecords
  BY DEF PathInv, EndpointInv, EndpointShape
<1>1. UNCHANGED worldVars
  BY DEF Command, ProbeFirst, Decide, WaitReady, ApplySettings, ProbeServing, Age, Ended, FindOwner, Evicted, Published,
         Undone, TakeOver, Return
<1>2. cmd' = cmd \/ cmd'.pc \notin {"ending", "undoing", "evict", "confirmed"}
  <2> DEFINE Going == CmdPoints \ {"ending", "undoing", "evict", "confirmed"}
  <2>1. \/ cmd' = cmd \/ cmd' = NoCommand
        \/ \E at \in Going : cmd' = [cmd EXCEPT !.pc = at]
        \/ \E at \in Going : \E p : cmd' = [cmd EXCEPT !.pc = at, !.target = p]
        \/ \E at \in Going : \E yes : cmd' = [cmd EXCEPT !.pc = at, !.answered = yes]
        \/ \E at \in Going : \E n : cmd' = [cmd EXCEPT !.pc = at, !.attempt = n]
        \/ \E at \in Going : \E op : cmd' = [NoCommand EXCEPT !.op = op, !.pc = at]
    <3> USE DEF GoesTo, CmdAt, CmdPoints
    <3>1. CASE \E op \in {"start", "switch", "restart", "settings", "stop"} : Command(op)
      <4>1. PICK op \in {"start", "switch", "restart", "settings", "stop"} : Command(op)
        BY <3>1
      <4>2. (CASE op \in {"start", "switch"} -> "probe" [] op = "restart" -> "replace"
               [] op = "settings" -> "settings" [] op = "stop" -> "stop") \in Going
        OBVIOUS
      <4> QED  BY <4>1, <4>2 DEF Command
    <3>2. CASE ProbeFirst \/ Decide \/ WaitReady \/ ProbeServing \/ Age
      BY <3>2 DEF ProbeFirst, Decide, WaitReady, ProbeServing, Age
    <3>3. CASE ApplySettings \/ Ended \/ Undone
      BY <3>3 DEF ApplySettings, Ended, Undone
    <3>4. CASE FindOwner \/ Evicted \/ Published \/ TakeOver \/ Return
      BY <3>4 DEF FindOwner, Evicted, Published, TakeOver, Return
    <3> QED  BY <3>1, <3>2, <3>3, <3>4
  <2>2. ASSUME NEW at \in Going, NEW x,
               \/ cmd' = [cmd EXCEPT !.pc = at] \/ cmd' = [cmd EXCEPT !.pc = at, !.target = x]
               \/ cmd' = [cmd EXCEPT !.pc = at, !.answered = x] \/ cmd' = [cmd EXCEPT !.pc = at, !.attempt = x]
               \/ cmd' = [NoCommand EXCEPT !.op = x, !.pc = at]
        PROVE cmd'.pc = at
    BY <1>0, <2>2 DEF NoCommand
  <2>3. NoCommand.pc \in Going
    BY DEF NoCommand, CmdPoints
  <2>4. cmd' = cmd \/ cmd'.pc \in Going
    <3> HIDE DEF Going
    <3> QED  BY <2>1, <2>2, <2>3, Zenon
  <2> QED  BY <2>4
<1>3. pidFile'.is = "record" => kind[pidFile'.p] = "daemon"
  <2>1. CASE Age
    BY <2>1 DEF Age, PathInv, RecordsOfGateways
  <2>2. CASE ~Age
    BY <1>0, <1>1, <2>2, RecordsStay
       DEF Command, ProbeFirst, Decide, WaitReady, ApplySettings, ProbeServing, Age, Ended, FindOwner, Evicted, Published,
           Undone, TakeOver, Return, worldVars
  <2> QED  BY <2>1, <2>2
<1> QED  BY <1>1, <1>2, <1>3, CommandSpares DEF worldVars, PathInv, TargetsSpared

\* An owner that answers has the pathname: it is no other process.
LEMMA ProbeOwnerSpares == ASSUME PathInv, EndpointInv', ProbeOwner PROVE PathInv' /\ KeepsPath
<1>1. PICK answers \in BOOLEAN : Probes(answers) /\ cmd' = [cmd EXCEPT !.pc = "confirmed", !.answered = answers]
  BY DEF ProbeOwner
<1>2. cmd'.pc = "confirmed" /\ cmd'.answered = answers /\ cmd'.target = cmd.target
  BY <1>1 DEF PathInv, EndpointInv, EndpointShape
<1>3. answers /\ cmd.target \in bound => kind[cmd.target] # "other"
  BY <1>1 DEF Probes, PathInv, OutsidersAlone, Gateways
<1> QED  BY <1>2, <1>3, CommandSpares DEF ProbeOwner, worldVars, PathInv, RecordsOfGateways

LEMMA EndingSpares ==
  ASSUME PathInv, EndpointInv', cmd.pc \in {"replace", "stop"}, NEW next \in {"owner", "reown"}, EndManaged(next),
         UNCHANGED <<kind, path, ownerFile>>
  PROVE PathInv' /\ KeepsPath
<1>1. cmd'.target = Managed /\ cmd'.pc \in {next, "ending"}
  BY DEF EndManaged, PathInv, EndpointInv, EndpointShape
<1>2. pidFile'.is = "record" => kind[pidFile'.p] = "daemon"
  BY RecordsStay DEF EndManaged
<1>3. \/ UNCHANGED <<state, bound, told>>
      \/ Managed # Nobody /\ bound = {Managed} /\ Term(Managed)
      \/ Managed # Nobody /\ Kill(Managed)
  BY DEF EndManaged, OwnsSocket
<1> QED  BY <1>1, <1>2, <1>3, CommandSpares, ManagedIsDaemon

LEMMA ReadySpares == ASSUME PathInv, EndpointInv', Ready PROVE PathInv' /\ KeepsPath
<1>1. cmd'.target = cmd.target /\ cmd'.pc \in {"running", "retry", "undoing"} /\ (cmd'.pc = "undoing" => Managed = cmd.target)
  <2>1. \E at \in {"running", "retry", "undoing"} : cmd' = [cmd EXCEPT !.pc = at] /\ (at = "undoing" => Managed = cmd.target)
    BY DEF Ready, GoesTo
  <2> QED  BY <2>1 DEF PathInv, EndpointInv, EndpointShape
<1>2. pidFile'.is = "record" => kind[pidFile'.p] = "daemon"
  BY RecordsStay DEF Ready
<1>3. \/ UNCHANGED <<state, bound, told>>
      \/ cmd.target \in Processes /\ Managed = cmd.target /\ bound = {cmd.target} /\ Term(cmd.target)
      \/ cmd.target \in Processes /\ Kill(cmd.target)
  <2>1. \/ UNCHANGED <<state, bound, told>>
        \/ Managed = cmd.target /\ bound = {cmd.target} /\ Term(cmd.target)
        \/ Managed = cmd.target /\ Kill(cmd.target)
    BY DEF Ready, OwnsSocket
  <2>2. cmd.target \in Processes \/ cmd.target = Nobody
    BY DEF PathInv, EndpointInv, EndpointShape
  <2>3. Nobody \notin bound /\ Nobody \notin DOMAIN state
    BY DEF PathInv, EndpointInv, EndpointShape
  <2> QED  BY <2>1, <2>2, <2>3 DEF Kill, PathInv, EndpointInv, EndpointShape
<1>4. Managed = cmd.target /\ cmd.target # Nobody => kind[cmd.target] = "daemon"
  BY ManagedIsDaemon
<1>5. cmd.pc = "ready" /\ UNCHANGED <<kind, path, ownerFile>>
  BY DEF Ready, CmdAt
<1> QED  BY <1>1, <1>2, <1>3, <1>4, <1>5, CommandSpares

LEMMA KillingSpares == ASSUME PathInv, EndpointInv', ForceEnd \/ NotPublished PROVE PathInv' /\ KeepsPath
<1>1. CASE ForceEnd
  <2>1. cmd.target \in Processes /\ Kill(cmd.target) /\ UNCHANGED <<kind, path, pidFile, ownerFile, cmd>>
    BY <1>1 DEF ForceEnd, Alive, PathInv, EndpointInv, EndpointShape
  <2> QED  BY <2>1, CommandSpares DEF PathInv, RecordsOfGateways, TargetsSpared
<1>2. CASE NotPublished
  <2>1. /\ Kill(cmd.target) /\ UNCHANGED <<kind, path, ownerFile>> /\ cmd' = [cmd EXCEPT !.pc = "retry"]
        /\ pidFile' = NoRecord
    BY <1>2 DEF NotPublished, GoesTo
  <2>2. cmd.target \in Processes \/ UNCHANGED <<state, bound, told>>
    BY <2>1 DEF Kill, PathInv, EndpointInv, EndpointShape
  <2>3. cmd'.pc = "retry"
    BY <2>1 DEF PathInv, EndpointInv, EndpointShape
  <2> QED  BY <2>1, <2>2, <2>3, CommandSpares DEF NoRecord
<1> QED  BY <1>1, <1>2

\* Who has the endpoint alone and answered is told; or the gateway on record.
LEMMA EvictingSpares == ASSUME PathInv, EndpointInv', Evict \/ StopOwned PROVE PathInv' /\ KeepsPath
<1>0. pidFile' = pidFile /\ UNCHANGED <<kind, path>> /\ ownerFile' \in {ownerFile, Nobody}
  BY DEF Evict, StopOwned
<1>1. CASE Evict
  <2>1. CASE bound # {cmd.target} \/ ~cmd.answered
    <3>1. cmd' = [cmd EXCEPT !.pc = IF bound = {} THEN "spawn" ELSE "failed"] /\ UNCHANGED <<state, bound, told>>
      BY <1>1, <2>1 DEF Evict, GoesTo
    <3>2. cmd'.pc \in {"spawn", "failed"}
      BY <3>1 DEF PathInv, EndpointInv, EndpointShape
    <3> QED  BY <1>0, <3>1, <3>2, CommandSpares DEF PathInv, RecordsOfGateways
  <2>2. CASE bound = {cmd.target} /\ cmd.answered
    <3>1. cmd' = [cmd EXCEPT !.pc = "evict"] /\ Term(cmd.target) /\ cmd.pc = "confirmed"
      BY <1>1, <2>2 DEF Evict, GoesTo, CmdAt
    <3>2. cmd'.pc = "evict" /\ cmd'.target = cmd.target
      BY <3>1 DEF PathInv, EndpointInv, EndpointShape
    <3>3. cmd.target \in Processes /\ cmd.target # Nobody /\ kind[cmd.target] # "other"
      BY <2>2, <3>1 DEF PathInv, EndpointInv, EndpointShape, TargetsSpared
    <3> QED  BY <1>0, <2>2, <3>1, <3>2, <3>3, CommandSpares DEF PathInv, RecordsOfGateways
  <2> QED  BY <2>1, <2>2
<1>2. CASE StopOwned
  <2>1. CASE ownerFile \in bound /\ bound = {ownerFile}
    <3>1. cmd' = [cmd EXCEPT !.pc = "evict", !.target = ownerFile] /\ Term(ownerFile)
      BY <1>2, <2>1 DEF StopOwned
    <3>2. cmd'.pc = "evict" /\ cmd'.target = ownerFile
      BY <3>1 DEF PathInv, EndpointInv, EndpointShape
    <3>3. ownerFile \in Processes /\ kind[ownerFile] # "other"
      BY <2>1 DEF PathInv, EndpointInv, EndpointShape, RecordsOfGateways
    <3> QED  BY <1>0, <2>1, <3>1, <3>2, <3>3, CommandSpares DEF PathInv, RecordsOfGateways
  <2>2. CASE ~(ownerFile \in bound /\ bound = {ownerFile})
    <3>1. (\E at \in {"failed", "notManaged", "stopped"} : cmd' = [cmd EXCEPT !.pc = at]) /\ UNCHANGED <<state, bound, told>>
      BY <1>2, <2>2 DEF StopOwned, GoesTo
    <3>2. cmd'.pc \in {"failed", "notManaged", "stopped"}
      BY <3>1 DEF PathInv, EndpointInv, EndpointShape
    <3> QED  BY <1>0, <3>1, <3>2, CommandSpares DEF PathInv, RecordsOfGateways
  <2> QED  BY <2>1, <2>2
<1> QED  BY <1>1, <1>2

LEMMA SpawnSpares == ASSUME PathInv, EndpointInv', Spawn PROVE PathInv' /\ KeepsPath
<1>1. PICK c \in Processes :
       /\ state[c] = "none" /\ state' = [state EXCEPT ![c] = "born"]
       /\ pidFile' = [is |-> "reserved", p |-> c, old |-> FALSE]
       /\ cmd' = [cmd EXCEPT !.pc = "await", !.target = c]
  BY DEF Spawn, Fresh
<1>2. UNCHANGED <<kind, told, bound, path, ownerFile>> /\ cmd'.pc = "await"
      /\ state'[c] = "born" /\ \A q \in Processes \ {c} : state'[q] = state[q]
  BY <1>1 DEF Spawn, PathInv, EndpointInv, EndpointShape
<1>3. WhoStarts' /\ RecordsOfGateways' /\ TargetsSpared' /\ OneStarts'
  BY <1>1, <1>2 DEF PathInv, WhoStarts, RecordsOfGateways, TargetsSpared, OneStarts
<1>4. ToldAreServers' /\ OutsidersAlone' /\ ToldAlone'
  BY <1>1, <1>2 DEF PathInv, ToldAreServers, OutsidersAlone, ToldAlone, Alive
<1> QED  BY <1>2, <1>3, <1>4, NobodyLoses DEF PathInv

LEMMA PathStepKeeps ==
  ASSUME ~Unfenced, PathInv, [EndpointNext]_endpointVars PROVE PathInv' /\ (~Slow => KeepsPath)
<1>0. EndpointInv'
  BY EndpointStepKeeps DEF PathInv
<1>1. ASSUME Replace \/ StopDaemon PROVE PathInv' /\ KeepsPath
  BY <1>0, <1>1, EndingSpares DEF Replace, StopDaemon, CmdAt
<1>2. ASSUME UNCHANGED endpointVars PROVE PathInv' /\ KeepsPath
  BY <1>0, <1>2, NobodyLoses
     DEF endpointVars, PathInv, WhoStarts, RecordsOfGateways, ToldAreServers, OutsidersAlone, OneStarts, ToldAlone,
         TargetsSpared, Alive
<1>3. ASSUME NEW p \in Processes,
             \/ AppLaunches(p) \/ ReadReservation(p) \/ PublishRecord(p) \/ ProbePath(p) \/ NotStarted(p) \/ Prepare(p)
             \/ Listen(p) \/ ListenFails(p) \/ StopsItself(p) \/ CloseServer(p) \/ Leave(p) \/ Ends(p)
             \/ \E k \in {"stock", "other"} : OtherBinds(p, k)
      PROVE PathInv' /\ (~Slow => KeepsPath)
  BY <1>0, <1>3, OtherBindsSpares, AppLaunchesSpares, HandshakeSpares, StartingSpares, StopsItselfSpares, GoingSpares
<1> QED
  BY <1>0, <1>1, <1>2, <1>3, QuietStepsSpare, ProbeOwnerSpares, ReadySpares,
     KillingSpares, EvictingSpares, SpawnSpares DEF EndpointNext

\* What is no app server is never signalled (identifySocketOwner,
\* replaceEndpoint, reconcileOwnedGateway, reconcileManagedProcess), for any
\* number of processes and commands, however slow a gateway shuts down, if what
\* others bind comes at no moment the gateways leave open (Unfenced).
THEOREM OthersSpared == ASSUME ~Unfenced PROVE EndpointSpec => []OtherSpared
<1>1. PathInv => OtherSpared
  BY DEF PathInv, ToldAreServers, TargetsSpared, OtherSpared, EndpointInv, EndpointShape
<1>2. PathInv /\ [EndpointNext]_endpointVars => PathInv'
  BY PathStepKeeps
<1> QED  BY PathStarts, <1>1, <1>2, PTL DEF EndpointSpec

\* No gateway takes the pathname from one that serves (socket.ts, main.ts,
\* supervisor.ts), if none takes longer to shut down than its successor to
\* start, and nothing binds the pathname between a gateway's probe and its
\* unlink, or beside one that shuts down: the run find_takeover shows what
\* happens otherwise.
THEOREM PathKept == ASSUME ~Slow, ~Unfenced PROVE EndpointSpec => EndpointStays
<1>1. PathInv /\ [EndpointNext]_endpointVars
        => PathInv' /\ [\A p \in Processes : path = p /\ p \in bound /\ p \in bound' => path' # Nobody]_endpointVars
  BY PathStepKeeps DEF KeepsPath
<1> QED  BY PathStarts, <1>1, PTL DEF EndpointSpec, EndpointStays

EndpointTypes ==
    /\ EndpointInv /\ told \subseteq Processes /\ commands \in 0 .. MaxCommands
    /\ path \in Processes \cup {Nobody} /\ ownerFile \in Processes \cup {Nobody}

LEMMA EndpointTypesStart == EndpointInit => EndpointTypes
BY EndpointStarts, EndpointAssumption DEF EndpointInit, EndpointTypes

LEMMA EndpointTypesKept == ASSUME EndpointTypes, [EndpointNext]_endpointVars PROVE EndpointTypes'
<1> USE DEF CmdAt
<1>0. Managed \in Processes \cup {Nobody} /\ cmd.target \in Processes \cup {Nobody} /\ bound \subseteq Processes
  BY ManagedRuns DEF EndpointTypes, EndpointInv, EndpointShape
<1>1. CASE \E p \in Processes :
             \/ AppLaunches(p) \/ ReadReservation(p) \/ PublishRecord(p) \/ ProbePath(p) \/ NotStarted(p) \/ Prepare(p)
             \/ Listen(p) \/ ListenFails(p) \/ StopsItself(p) \/ CloseServer(p) \/ Leave(p) \/ Ends(p)
             \/ \E k \in {"stock", "other"} : OtherBinds(p, k)
  BY <1>1, EndpointStepKeeps
     DEF EndpointTypes, AppLaunches, ReadReservation, PublishRecord, ProbePath, NotStarted, Prepare, Listen, ListenFails,
         StopsItself, CloseServer, Leave, Ends, OtherBinds, Term, Kill, EndpointNext
<1>2. CASE \/ UNCHANGED endpointVars
           \/ Age \/ ProbeFirst \/ Decide \/ WaitReady \/ ApplySettings \/ ProbeServing \/ Ended \/ FindOwner \/ ProbeOwner
           \/ Evicted \/ Spawn \/ Published \/ Undone \/ TakeOver \/ Return
           \/ \E op \in {"start", "switch", "restart", "settings", "stop"} : Command(op)
  <2>1. (commands < MaxCommands /\ commands' = commands + 1) \/ commands' = commands
    BY <1>2 DEF endpointVars, Age, Command, ProbeFirst, Decide, WaitReady, ApplySettings, ProbeServing, Ended, FindOwner,
         ProbeOwner, Evicted, Spawn, Published, Undone, TakeOver, Return
  <2>2. commands' \in 0 .. MaxCommands
    BY <2>1, EndpointAssumption DEF EndpointTypes
  <2>3. UNCHANGED <<told, path, ownerFile>>
    BY <1>2 DEF endpointVars, worldVars, Age, Command, ProbeFirst, Decide, WaitReady, ApplySettings, ProbeServing, Ended,
         FindOwner, ProbeOwner, Evicted, Spawn, Published, Undone, TakeOver, Return
  <2> QED  BY <2>2, <2>3, EndpointStepKeeps DEF EndpointTypes
<1>3. CASE Replace \/ StopDaemon \/ ForceEnd \/ Evict \/ NotPublished \/ Ready \/ StopOwned
  <2>1. commands' = commands /\ path' = path /\ ownerFile' \in {ownerFile, Nobody}
    BY <1>3 DEF Replace, StopDaemon, ForceEnd, Evict, NotPublished, Ready, StopOwned
  <2>2. told' \subseteq Processes
    <3>1. told' = told \/ \E p \in bound \cup ({Managed} \ {Nobody}) : told' = told \cup {p}
      BY <1>3 DEF Replace, StopDaemon, EndManaged, OwnsSocket, ForceEnd, Evict, NotPublished, Ready, StopOwned, Term, Kill
    <3> QED  BY <1>0, <3>1 DEF EndpointTypes
  <2> QED  BY <2>1, <2>2, EndpointStepKeeps DEF EndpointTypes
<1> QED  BY <1>1, <1>2, <1>3 DEF EndpointNext

LEMMA EndpointTypesHold == ASSUME EndpointTypes PROVE EndpointTypeOK
<1>1. Processes \cup {Nobody} = 0 .. MaxProcs
  BY EndpointAssumption DEF Processes, Nobody
<1> QED
  BY <1>1 DEF EndpointTypes, EndpointInv, EndpointShape, EndpointTypeOK

\* The commands of daemon.ts and the records they keep are typed.
THEOREM EndpointTyped == EndpointSpec => []EndpointTypeOK
BY EndpointTypesStart, EndpointTypesKept, EndpointTypesHold, PTL DEF EndpointSpec

-----------------------------------------------------------------------------
(* StdioFrontend *)

\* A direction's lines are counted as they go: none is taken before it is read, or sent before it is taken.
Counted(way) == way \in Way /\ way.sent <= way.taken /\ way.taken <= way.read /\ way.read <= way.written

Counts(written, read, taken, sent, busy, paused) ==
  [written |-> written, read |-> read, taken |-> taken, sent |-> sent, busy |-> busy, paused |-> paused]

LEMMA CountsCounted ==
  ASSUME NEW written \in 0 .. MaxLines, NEW read \in 0 .. MaxLines, NEW taken \in 0 .. MaxLines,
         NEW sent \in 0 .. MaxLines, NEW busy \in BOOLEAN, NEW paused \in BOOLEAN,
         sent <= taken, taken <= read, read <= written
  PROVE Counted(Counts(written, read, taken, sent, busy, paused))
BY DEF Counted, Counts, Way

LEMMA FlushCounts ==
  ASSUME NEW way \in Way, Counted(way)
  PROVE Counted(FlushInput(way)) /\ FlushInput(way).read = way.read /\ FlushInput(way).written = way.written
<1>1. CASE way.busy \/ Queued(way) = 0
  BY <1>1 DEF FlushInput
<1>2. CASE ~(way.busy \/ Queued(way) = 0)
  <2>1. FlushInput(way) = [way EXCEPT !.busy = TRUE, !.taken = @ + 1]
    BY <1>2 DEF FlushInput
  <2>2. way.taken + 1 \in 0 .. MaxLines /\ way.taken + 1 <= way.read /\ way.sent <= way.taken + 1
    BY <1>2, FrontendAssumption DEF Counted, Way, Queued
  <2> QED  BY <2>1, <2>2 DEF Counted, Way
<1> QED  BY <1>1, <1>2

LEMMA SentCounts ==
  ASSUME NEW way, Counted(way), NEW on \in BOOLEAN,
         NEW done, done = [way EXCEPT !.busy = FALSE, !.sent = way.taken, !.paused = on]
  PROVE Counted(done)
<1>1. done = [way EXCEPT !.busy = FALSE, !.sent = way.taken, !.paused = on]
  OBVIOUS
<1>2. /\ way.taken \in 0 .. MaxLines /\ way.taken <= way.read
      /\ way.read <= way.written /\ way.read \in 0 .. MaxLines /\ way.written \in 0 .. MaxLines
  BY DEF Counted, Way
<1>3. done \in Way /\ done.taken = way.taken /\ done.read = way.read /\ done.written = way.written /\ done.sent = way.taken
  BY <1>1, <1>2 DEF Counted, Way
<1>4. way.taken <= way.taken
  BY <1>2, FrontendAssumption
<1> QED  BY <1>2, <1>3, <1>4 DEF Counted

LEMMA EnqueueCounts ==
  ASSUME Counted(input), NEW n \in 1 .. input.written - input.read PROVE Counted(EnqueueInput(input, n))
<1> DEFINE first == [input EXCEPT !.read = @ + 1]
           next == IF socket = "open" THEN FlushInput(first) ELSE first
           all == [next EXCEPT !.read = @ + n - 1]
<1>1. Counted(first) /\ first.read = input.read + 1 /\ first.written = input.written
  BY FrontendAssumption DEF Counted, Way
<1>2. Counted(next) /\ next.read = input.read + 1 /\ next.written = input.written
  BY <1>1, FlushCounts DEF Counted
<1>3. Counted(all)
  BY <1>2, FrontendAssumption DEF Counted, Way
<1>4. EnqueueInput(input, n) = [all EXCEPT !.paused = @ \/ Queued(first) >= High \/ Queued(all) >= High]
  BY DEF EnqueueInput
<1> HIDE DEF all, first, next
<1> QED  BY <1>3, <1>4 DEF Counted, Way

LEMMA InputCounts ==
  ASSUME FrontendTypeOK, AppWrites \/ ReadInput \/ Sent \/ Serve \/ SocketCloses PROVE Counted(input)'
<1>1. Counted(input)
  BY DEF FrontendTypeOK, Counted
<1>2. CASE AppWrites
  BY <1>1, <1>2, FrontendAssumption DEF AppWrites, Counted, Way
<1>3. CASE ReadInput
  BY <1>1, <1>3, EnqueueCounts DEF ReadInput, Counted
<1>4. CASE Sent
  <2>1. PICK on \in BOOLEAN :
          LET done == [input EXCEPT !.busy = FALSE, !.sent = input.taken, !.paused = on]
          IN input' = FlushInput(done) \/ input' = done
    BY <1>4 DEF Sent
  <2> DEFINE done == [input EXCEPT !.busy = FALSE, !.sent = input.taken, !.paused = on]
  <2> HIDE DEF done
  <2>2. Counted(done)
    BY <1>1, SentCounts DEF done
  <2>3. input' = FlushInput(done) \/ input' = done
    BY <2>1 DEF done
  <2> QED  BY <2>2, <2>3, FlushCounts DEF Counted
<1>5. CASE Serve
  BY <1>1, <1>5, FlushCounts DEF Serve, Counted
<1>6. CASE SocketCloses
  BY <1>1, <1>6 DEF SocketCloses, Counted, Way
<1> QED  BY <1>2, <1>3, <1>4, <1>5, <1>6

LEMMA OutputCounts ==
  ASSUME FrontendTypeOK, GatewayWrites \/ Receive \/ Drained PROVE Counted(output)'
<1>1. Counted(output)
  BY DEF FrontendTypeOK, Counted
<1>2. CASE GatewayWrites
  BY <1>1, <1>2, FrontendAssumption DEF GatewayWrites, Counted, Way
<1>3. CASE Receive
  <2> DEFINE pushed == [output EXCEPT !.read = @ + 1]
             high == Queued(pushed) >= High
  <2>1. \/ output' = [pushed EXCEPT !.paused = high]
        \/ \E full \in BOOLEAN : output' = [pushed EXCEPT !.taken = @ + 1, !.sent = @ + 1, !.busy = full,
                                                         !.paused = full /\ high]
    BY <1>3 DEF Receive
  <2>2. /\ output.read + 1 \in 0 .. MaxLines /\ output.taken + 1 \in 0 .. MaxLines /\ output.sent + 1 \in 0 .. MaxLines
        /\ output.sent + 1 <= output.taken + 1 /\ output.taken + 1 <= output.read + 1
        /\ output.read + 1 <= output.written /\ output.written \in 0 .. MaxLines
        /\ output.taken \in 0 .. MaxLines /\ output.sent \in 0 .. MaxLines /\ output.sent <= output.taken
        /\ output.taken <= output.read + 1 /\ output.busy \in BOOLEAN
    <3>1. output.read < output.written
      BY <1>3 DEF Receive
    <3> QED  BY <1>1, <3>1, FrontendAssumption DEF Counted, Way
  <2>3. high \in BOOLEAN
    OBVIOUS
  <2> HIDE DEF high
  <2>4. CASE output' = [pushed EXCEPT !.paused = high]
    <3>1. output' = Counts(output.written, output.read + 1, output.taken, output.sent, output.busy, high)
      BY <1>1, <2>4 DEF Counted, Way, Counts
    <3> QED  BY <2>2, <2>3, <3>1, CountsCounted
  <2>5. ASSUME NEW full \in BOOLEAN, NEW on, on = (full /\ high),
               output' = [pushed EXCEPT !.taken = @ + 1, !.sent = @ + 1, !.busy = full, !.paused = on]
        PROVE Counted(output)'
    <3>1. output' = Counts(output.written, output.read + 1, output.taken + 1, output.sent + 1, full, on)
      BY <1>1, <2>5 DEF Counted, Way, Counts
    <3> QED  BY <2>2, <2>3, <2>5, <3>1, CountsCounted
  <2> QED  BY <2>1, <2>4, <2>5
<1>4. CASE Drained
  <2>1. PICK n \in 0 .. Queued(output) :
          LET full == n < Queued(output)
              taken == output.taken + n + (IF full THEN 1 ELSE 0)
          IN output' = [output EXCEPT !.taken = taken, !.sent = taken, !.busy = full,
                                      !.paused = @ /\ Queued(output) - n > Low]
    BY <1>4 DEF Drained
  <2> DEFINE full == n < Queued(output)
             taken == output.taken + n + (IF full THEN 1 ELSE 0)
             paused == output.paused /\ Queued(output) - n > Low
  <2>2. taken \in 0 .. MaxLines /\ taken <= output.read /\ output.read \in 0 .. MaxLines
        /\ output.written \in 0 .. MaxLines /\ output.read <= output.written
    BY <1>1, <2>1, FrontendAssumption DEF Counted, Way, Queued
  <2>3. output' = Counts(output.written, output.read, taken, taken, full, paused)
    BY <1>1, <2>1 DEF Counted, Way, Counts
  <2>4. full \in BOOLEAN /\ paused \in BOOLEAN
    OBVIOUS
  <2> HIDE DEF taken, full, paused
  <2> QED  BY <2>2, <2>3, <2>4, CountsCounted, FrontendAssumption
<1> QED  BY <1>2, <1>3, <1>4

LEMMA FrontendKeeps == ASSUME FrontendTypeOK, [FrontendNext]_frontendVars PROVE FrontendTypeOK'
<1>1. ASSUME AppStarts \/ AppCloses \/ InputEnds \/ OutputFails \/ OpenSocket \/ NotOpen \/ DeadlinePasses
             \/ UNCHANGED frontendVars
      PROVE FrontendTypeOK'
  BY <1>1 DEF FrontendTypeOK, AppStarts, AppCloses, InputEnds, OutputFails, OpenSocket, NotOpen, DeadlinePasses, frontendVars
<1>2. ASSUME AppWrites \/ ReadInput \/ Sent \/ Serve \/ SocketCloses PROVE FrontendTypeOK'
  <2>1. Counted(input)'
    BY <1>2, InputCounts
  <2> QED
    BY <1>2, <2>1 DEF FrontendTypeOK, Counted, AppWrites, ReadInput, Sent, Serve, SocketCloses
<1>3. ASSUME GatewayWrites \/ Receive \/ Drained PROVE FrontendTypeOK'
  <2>1. Counted(output)'
    BY <1>3, OutputCounts
  <2> QED
    BY <1>3, <2>1 DEF FrontendTypeOK, Counted, GatewayWrites, Receive, Drained
<1> QED  BY <1>1, <1>2, <1>3 DEF FrontendNext

LEMMA FrontendStarts == FrontendInit => FrontendTypeOK
<1>1. Unused \in Way
  BY FrontendAssumption DEF Way, Unused
<1>2. Unused.sent <= Unused.taken /\ Unused.taken <= Unused.read /\ Unused.read <= Unused.written
  BY DEF Unused
<1> QED  BY <1>1, <1>2 DEF FrontendInit, FrontendTypeOK

-----------------------------------------------------------------------------
(* The parts together *)

LEMMA DaemonParts ==
  ASSUME [DaemonNext]_DaemonVars
  PROVE [Next]_vars /\ [EndpointNext]_endpointVars /\ [FrontendNext]_frontendVars
BY DEF DaemonNext, DaemonVars

\* The lock's directories, the records and processes of the endpoint and the
\* relay's queues keep their types: no line is sent that was not read, and none
\* twice, however slow either side is.
THEOREM DaemonTypeCorrect == Careful => (DaemonSpec => []DaemonTypeOK)
<1> SUFFICES ASSUME Careful PROVE DaemonSpec => []DaemonTypeOK
  OBVIOUS
<1>1. DaemonInit => IInv /\ EndpointTypes /\ FrontendTypeOK
  BY InitIInv, PathStarts, EndpointTypesStart, FrontendStarts DEF DaemonInit
<1>2. IInv /\ EndpointTypes /\ FrontendTypeOK /\ [DaemonNext]_DaemonVars
        => IInv' /\ EndpointTypes' /\ FrontendTypeOK'
  BY DaemonParts, StepKeeps, StutterKeeps, EndpointTypesKept, FrontendKeeps
<1>3. IInv /\ EndpointTypes /\ FrontendTypeOK => DaemonTypeOK
  BY EndpointTypesHold DEF DaemonTypeOK, IInv
<1> QED  BY <1>1, <1>2, <1>3, PTL DEF DaemonSpec
=============================================================================
