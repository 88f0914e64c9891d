------------------------------ MODULE Endpoint ------------------------------
(* The daemon's commands (daemon.ts) and the endpoint they start, take over  *)
(* and stop: the pid record (supervisor.ts), who owns the socket             *)
(* (ownership.ts) and how a gateway binds and leaves it (socket.ts,          *)
(* startGateway, main.ts).                                                   *)
(*                                                                           *)
(* Commands take turns (module DaemonLock); one may be killed anywhere, and  *)
(* other processes start and end between any two of its awaits.  A process   *)
(* is a pid with its start time; the group it leads ends with it.            *)
EXTENDS Naturals, FiniteSets

CONSTANTS
    MaxProcs,   \* processes that ever run
    MaxCommands,  \* commands given
    Slow,       \* a gateway may take longer to shut down than the one after it to start
    Unfenced    \* what no lock of the gateways keeps apart may happen together: an app server
                \* binds while a gateway has probed the pathname or one shuts down, a gateway
                \* ends by itself beside another's socket, two are in the startup lock

ASSUME EndpointAssumption == MaxProcs \in Nat /\ MaxCommands \in Nat /\ Slow \in BOOLEAN /\ Unfenced \in BOOLEAN

VARIABLES
    kind,      \* per process: a daemon's child, a gateway the App started, stock, or another
    state,     \* how far it is
    told,      \* those sent SIGTERM
    bound,     \* those with a socket bound to the pathname, unlinked since or not
    path,      \* whose socket the pathname leads to, or nobody's
    pidFile,   \* the pid record
    ownerFile, \* the gateway's owner record
    cmd,       \* the command that runs, or the App's gateway that starts, behind the lock
    commands,
    overtaken  \* history: a killed command's child was publishing itself as another command ran

endpointVars == <<kind, state, told, bound, path, pidFile, ownerFile, cmd, commands, overtaken>>
worldVars == <<kind, state, told, bound, path, ownerFile>>

Nobody == 0
Processes == 1 .. MaxProcs
Alive(p) == p # Nobody /\ state[p] \notin {"none", "dead"}
NoRecord == [is |-> "none", p |-> Nobody, old |-> FALSE]
NoCommand == [op |-> "none", pc |-> "idle", target |-> Nobody, attempt |-> 0, answered |-> FALSE]
Gateways == {"daemon", "app"}
Fresh(p) == p \in Processes /\ state[p] = "none" /\ \A q \in Processes : q < p => state[q] # "none"

EndpointInit ==
    /\ kind = [p \in Processes |-> "daemon"] /\ state = [p \in Processes |-> "none"]
    /\ told = {} /\ bound = {} /\ path = Nobody /\ pidFile = NoRecord /\ ownerFile = Nobody
    /\ cmd = NoCommand /\ commands = 0 /\ overtaken = FALSE

EndpointTypeOK ==
    /\ kind \in [Processes -> {"daemon", "app", "stock", "other"}]
    /\ state \in [Processes -> {"none", "born", "read", "starting", "probed", "prepared", "serving",
                             "closed", "stranded", "dead"}]
    /\ told \subseteq Processes /\ bound \subseteq { p \in Processes : state[p] = "serving" }
    /\ path \in 0 .. MaxProcs /\ ownerFile \in 0 .. MaxProcs /\ commands \in 0 .. MaxCommands
    /\ pidFile.is \in {"none", "reserved", "record"} /\ pidFile.p \in 0 .. MaxProcs /\ overtaken \in BOOLEAN

-----------------------------------------------------------------------------
(* What commands see *)

\* reconcileManagedProcess: the daemon on record, if it runs; a record of one
\* that is gone, and a reservation that is old, are removed.
Managed == IF pidFile.is = "record" /\ Alive(pidFile.p) THEN pidFile.p ELSE Nobody
Reconciled ==
    IF (pidFile.is = "record" /\ ~Alive(pidFile.p)) \/ pidFile.old THEN NoRecord ELSE pidFile
RemovedFor(p) == IF pidFile.is = "record" /\ pidFile.p = p THEN NoRecord ELSE pidFile

OwnsSocket(p) == bound = {p}

\* probeAppServer: an app server answers on the pathname, or not within its time.
Probes(answers) == answers => path \in bound /\ kind[path] # "other" /\ path \notin told

GoesTo(pc) == cmd' = [cmd EXCEPT !.pc = pc]
CmdAt(pc) == cmd.pc = pc

Term(p) == told' = told \cup {p} /\ UNCHANGED <<state, bound>>
Kill(p) == state' = [state EXCEPT ![p] = "dead"] /\ bound' = bound \ {p} /\ UNCHANGED told

-----------------------------------------------------------------------------
(* Processes *)

\* Another command runs as a child publishes itself.
Overtakes(p) == cmd.pc \notin {"idle", "launch"} /\ cmd.target # p

\* The startup lock is another gateway's.
OthersStart(p) == \E q \in Processes \ {p} : state[q] \in {"probed", "prepared"}


\* Another program binds the path: stock, which may take one that a gateway
\* has, or what is no app server.
OtherBinds(p, k) ==
    /\ Fresh(p) /\ k \in {"stock", "other"}
    /\ path \in bound => k = "stock" /\ kind[path] \in Gateways
    /\ Unfenced \/ (\A q \in Processes : state[q] # "probed" /\ ~(q \in told /\ Alive(q)))
    /\ kind' = [kind EXCEPT ![p] = k] /\ state' = [state EXCEPT ![p] = "serving"]
    /\ bound' = bound \cup {p} /\ path' = p
    /\ UNCHANGED <<told, pidFile, ownerFile, cmd, commands, overtaken>>

\* The App launches a gateway of its own, behind the daemon's lock until it serves.
AppLaunches(p) ==
    /\ Fresh(p) /\ CmdAt("idle")
    /\ kind' = [kind EXCEPT ![p] = "app"] /\ state' = [state EXCEPT ![p] = "starting"]
    /\ cmd' = [NoCommand EXCEPT !.op = "app", !.pc = "launch", !.target = p]
    /\ UNCHANGED <<told, bound, path, pidFile, ownerFile, commands, overtaken>>

\* Mutant: a child publishes itself whatever became of its reservation.
ReadAnyway(p) ==
    /\ state[p] = "born" /\ state' = [state EXCEPT ![p] = "read"]
    /\ overtaken' = (overtaken \/ Overtakes(p))
    /\ UNCHANGED <<kind, told, bound, path, pidFile, ownerFile, cmd, commands>>

\* publishDaemonChildRecord: a child whose reservation is gone or another's
\* ends; its record goes over whatever the file has become since it looked.
ReadReservation(p) ==
    /\ state[p] = "born"
    /\ LET own == pidFile.is = "reserved" /\ pidFile.p = p IN
       /\ state' = [state EXCEPT ![p] = IF own THEN "read" ELSE "dead"]
       /\ overtaken' = (overtaken \/ (own /\ Overtakes(p)))
    /\ UNCHANGED <<kind, told, bound, path, pidFile, ownerFile, cmd, commands>>

PublishRecord(p) ==
    /\ state[p] = "read" /\ state' = [state EXCEPT ![p] = "starting"]
    /\ pidFile' = [NoRecord EXCEPT !.is = "record", !.p = p]
    /\ UNCHANGED <<kind, told, bound, path, ownerFile, cmd, commands, overtaken>>

\* acquireSocketStartupLock, and prepareUnixSocket's probe of the pathname.
ProbePath(p) ==
    /\ state[p] = "starting" /\ path \notin bound
    /\ Unfenced \/ ~OthersStart(p)
    /\ state' = [state EXCEPT ![p] = "probed"]
    /\ UNCHANGED <<kind, told, bound, path, pidFile, ownerFile, cmd, commands, overtaken>>

\* A pathname that serves, or a startup lock that is not had in time, ends it.
NotStarted(p) ==
    /\ state[p] = "starting" /\ (path \in bound \/ OthersStart(p))
    /\ state' = [state EXCEPT ![p] = "dead"] /\ pidFile' = RemovedFor(p)
    /\ UNCHANGED <<kind, told, bound, path, ownerFile, cmd, commands, overtaken>>

\* The pathname is unlinked, whoever it leads to by now.
Prepare(p) ==
    /\ state[p] = "probed" /\ state' = [state EXCEPT ![p] = "prepared"] /\ path' = Nobody
    /\ UNCHANGED <<kind, told, bound, pidFile, ownerFile, cmd, commands, overtaken>>

\* Its stock has started, and it listens.  (Its owner record, written next, with it.)
Listen(p) ==
    /\ state[p] = "prepared" /\ path = Nobody
    /\ Slow \/ (\A q \in told : ~Alive(q))
    /\ state' = [state EXCEPT ![p] = "serving"] /\ bound' = bound \cup {p} /\ path' = p /\ ownerFile' = p
    /\ UNCHANGED <<kind, told, pidFile, cmd, commands, overtaken>>

\* It cannot: startGateway throws, and nobody has a gateway to stop.  Its record is
\* removed, but its stock and their sockets keep the process going, past a first
\* SIGTERM too; if its stock never started, it ends.
ListenFails(p) ==
    /\ state[p] = "prepared"
    /\ \E left \in {"stranded", "dead"} : state' = [state EXCEPT ![p] = left]
    /\ pidFile' = RemovedFor(p)
    /\ UNCHANGED <<kind, told, bound, path, ownerFile, cmd, commands, overtaken>>

\* A gateway's stock exits, or somebody signals it.
StopsItself(p) ==
    /\ state[p] = "serving" /\ kind[p] \in Gateways /\ p \notin told
    /\ Unfenced \/ bound = {p}
    /\ Term(p) /\ UNCHANGED <<kind, path, pidFile, ownerFile, cmd, commands, overtaken>>

\* Mutant: the server is left listening as the gateway stops.
StopListening(p) ==
    /\ p \in told /\ state[p] = "serving" /\ kind[p] \in Gateways
    /\ state' = [state EXCEPT ![p] = "closed"] /\ path' = Nobody
    /\ UNCHANGED <<kind, told, bound, pidFile, ownerFile, cmd, commands, overtaken>>

\* A gateway told to stop closes its server, which unlinks the pathname, stops
\* its chats, and removes the pathname and its records.  (Others just end.)
CloseServer(p) ==
    /\ p \in told /\ state[p] = "serving" /\ kind[p] \in Gateways
    /\ state' = [state EXCEPT ![p] = "closed"] /\ bound' = bound \ {p} /\ path' = Nobody
    /\ UNCHANGED <<kind, told, pidFile, ownerFile, cmd, commands, overtaken>>

Leave(p) ==
    /\ state[p] = "closed" /\ state' = [state EXCEPT ![p] = "dead"]
    /\ path' = Nobody /\ ownerFile' = IF ownerFile = p THEN Nobody ELSE ownerFile
    /\ pidFile' = RemovedFor(p)
    /\ UNCHANGED <<kind, told, bound, cmd, commands, overtaken>>

\* It crashes, or is no gateway and ends: what it left stays.
Ends(p) ==
    /\ Alive(p) /\ Kill(p) /\ UNCHANGED <<kind, path, pidFile, ownerFile, cmd, commands, overtaken>>

\* A reservation START_TIMEOUT_MS old.
Age ==
    /\ pidFile.is = "reserved" /\ ~pidFile.old /\ pidFile' = [pidFile EXCEPT !.old = TRUE]
    /\ UNCHANGED <<worldVars, cmd, commands, overtaken>>

-----------------------------------------------------------------------------
(* HybridDaemon *)

\* start for the daemon as it is, or for one from elsewhere (another install,
\* another launch of the App); restart and bootstrap; enable or disable remote
\* control; stop.
Command(op) ==
    /\ CmdAt("idle") /\ commands < MaxCommands /\ commands' = commands + 1
    /\ cmd' = [NoCommand EXCEPT !.op = op, !.pc = CASE op \in {"start", "switch"} -> "probe"
                                                [] op = "restart" -> "replace"
                                                [] op = "settings" -> "settings"
                                                [] op = "stop" -> "stop"]
    /\ overtaken' = (overtaken \/ \E q \in Processes : state[q] = "read")
    /\ UNCHANGED <<worldVars, pidFile>>

ProbeFirst ==
    /\ CmdAt("probe")
    /\ \E answers \in BOOLEAN : Probes(answers) /\ cmd' = [cmd EXCEPT !.pc = "decide", !.answered = answers]
    /\ UNCHANGED <<worldVars, pidFile, commands, overtaken>>

Decide ==
    /\ CmdAt("decide") /\ pidFile' = Reconciled
    /\ IF Managed # Nobody /\ OwnsSocket(Managed) /\ cmd.op = "start"
       THEN cmd' = [cmd EXCEPT !.pc = IF cmd.answered THEN "running" ELSE "wait", !.target = Managed]
       ELSE GoesTo(IF cmd.answered \/ Managed # Nobody THEN "replace" ELSE "spawn")
    /\ UNCHANGED <<worldVars, commands, overtaken>>

\* waitUntilReady for a daemon that runs but has not answered.
WaitReady ==
    /\ CmdAt("wait") /\ \E answers \in BOOLEAN : Probes(answers) /\ GoesTo(IF answers THEN "running" ELSE "failed")
    /\ UNCHANGED <<worldVars, pidFile, commands, overtaken>>

\* setRemoteControl: what serves is replaced by one with the new settings; one
\* that has them already, and the path, stays.
ApplySettings ==
    /\ CmdAt("settings") /\ pidFile' = Reconciled
    /\ \E same \in BOOLEAN :
          GoesTo(CASE Managed = Nobody -> "serving"
                   [] Managed # Nobody /\ same /\ OwnsSocket(Managed) -> "wait"
                   [] Managed # Nobody /\ ~(same /\ OwnsSocket(Managed)) -> "replace")
    /\ UNCHANGED <<worldVars, commands, overtaken>>

ProbeServing ==
    /\ CmdAt("serving") /\ \E answers \in BOOLEAN : Probes(answers) /\ GoesTo(IF answers THEN "replace" ELSE "saved")
    /\ UNCHANGED <<worldVars, pidFile, commands, overtaken>>

\* Mutant: a daemon that lost the path is stopped like one that has it.
TermManaged(next) ==
    /\ pidFile' = Reconciled
    /\ cmd' = [cmd EXCEPT !.target = Managed, !.pc = IF Managed = Nobody THEN next ELSE "ending"]
    /\ IF Managed = Nobody THEN UNCHANGED <<state, bound, told>> ELSE Term(Managed)

\* The daemon on record stops by itself if the path is its own, and is killed
\* otherwise: its cleanup would remove the path under who has it now.
EndManaged(next) ==
    /\ pidFile' = Reconciled
    /\ cmd' = [cmd EXCEPT !.target = Managed, !.pc = IF Managed = Nobody THEN next ELSE "ending"]
    /\ IF Managed = Nobody THEN UNCHANGED <<state, bound, told>>
       ELSE IF OwnsSocket(Managed) THEN Term(Managed) ELSE Kill(Managed)

Replace ==
    /\ CmdAt("replace") /\ EndManaged("owner")
    /\ UNCHANGED <<kind, path, ownerFile, commands, overtaken>>

\* stopManagedProcess and killManagedProcess wait for its end, which is forced
\* in time; stop goes on to the endpoint if the daemon was not its owner.
Ended ==
    /\ CmdAt("ending") /\ ~Alive(cmd.target)
    /\ pidFile' = RemovedFor(cmd.target)
    /\ GoesTo(CASE cmd.op # "stop" -> "owner"
               [] cmd.op = "stop" /\ cmd.target \in told -> "stopped"
               [] cmd.op = "stop" /\ cmd.target \notin told -> "reown")
    /\ UNCHANGED <<worldVars, commands, overtaken>>

ForceEnd ==
    /\ cmd.pc \in {"ending", "undoing"} \/ (CmdAt("evict") /\ bound = {cmd.target})
    /\ Alive(cmd.target) /\ Kill(cmd.target)
    /\ UNCHANGED <<kind, path, pidFile, ownerFile, cmd, commands, overtaken>>

\* identifySocketOwner: nobody, exactly one, or the command gives up.
FindOwner ==
    /\ CmdAt("owner")
    /\ IF bound = {} THEN GoesTo("spawn")
       ELSE IF \A p \in bound : bound # {p} THEN GoesTo("failed")
       ELSE \E p \in bound : cmd' = [cmd EXCEPT !.pc = "confirm", !.target = p]
    /\ UNCHANGED <<worldVars, pidFile, commands, overtaken>>

\* The owner must answer as an app server, and be the same after it did.
ProbeOwner ==
    /\ CmdAt("confirm")
    /\ \E answers \in BOOLEAN : Probes(answers) /\ cmd' = [cmd EXCEPT !.pc = "confirmed", !.answered = answers]
    /\ UNCHANGED <<worldVars, pidFile, commands, overtaken>>

\* Mutant: whoever has the endpoint is taken for who answered.
EvictAnyone ==
    /\ CmdAt("confirmed")
    /\ IF bound = {} THEN GoesTo("spawn") /\ UNCHANGED <<state, bound, told>>
       ELSE IF ~cmd.answered THEN GoesTo("failed") /\ UNCHANGED <<state, bound, told>>
       ELSE \E p \in bound : cmd' = [cmd EXCEPT !.pc = "evict", !.target = p] /\ Term(p)
    /\ UNCHANGED <<kind, path, pidFile, ownerFile, commands, overtaken>>

Evict ==
    /\ CmdAt("confirmed")
    /\ IF bound # {cmd.target} \/ ~cmd.answered
       THEN GoesTo(IF bound = {} THEN "spawn" ELSE "failed") /\ UNCHANGED <<state, bound, told>>
       ELSE GoesTo("evict") /\ Term(cmd.target)
    /\ UNCHANGED <<kind, path, pidFile, ownerFile, commands, overtaken>>

\* stopSocketOwner waits until nobody has the socket.
Evicted ==
    /\ CmdAt("evict") /\ bound # {cmd.target}
    /\ GoesTo(IF bound # {} THEN "failed" ELSE IF cmd.op = "stop" THEN "stopped" ELSE "spawn")
    /\ UNCHANGED <<worldVars, pidFile, commands, overtaken>>

\* spawnDetachedGateway: a reservation, a child.
Spawn ==
    /\ CmdAt("spawn")
    /\ \E c \in Processes :
          /\ Fresh(c) /\ state' = [state EXCEPT ![c] = "born"]
          /\ pidFile' = [is |-> "reserved", p |-> c, old |-> FALSE]
          /\ cmd' = [cmd EXCEPT !.pc = "await", !.target = c]
    /\ UNCHANGED <<kind, told, bound, path, ownerFile, commands, overtaken>>

\* It polls for the child's record; the child ended, or took too long: it is
\* killed and whatever the file says is removed.
Published ==
    /\ CmdAt("await") /\ Managed = cmd.target /\ GoesTo("ready")
    /\ UNCHANGED <<worldVars, pidFile, commands, overtaken>>

NotPublished ==
    /\ CmdAt("await") /\ Managed # cmd.target /\ Kill(cmd.target) /\ pidFile' = NoRecord /\ GoesTo("retry")
    /\ UNCHANGED <<kind, path, ownerFile, commands, overtaken>>

\* spawnReady: the endpoint answers, the child is on record and alone has the
\* socket; or it did not come to that, and the child on record is ended.
Ready ==
    /\ CmdAt("ready")
    /\ IF Managed = cmd.target /\ OwnsSocket(cmd.target) /\ Probes(TRUE)
       THEN GoesTo("running") /\ UNCHANGED <<state, bound, told, pidFile>>
       ELSE /\ pidFile' = Reconciled
            /\ GoesTo(IF Managed = cmd.target THEN "undoing" ELSE "retry")
            /\ IF Managed # cmd.target THEN UNCHANGED <<state, bound, told>>
               ELSE IF OwnsSocket(cmd.target) THEN Term(cmd.target) ELSE Kill(cmd.target)
    /\ UNCHANGED <<kind, path, ownerFile, commands, overtaken>>

Undone ==
    /\ CmdAt("undoing") /\ ~Alive(cmd.target) /\ pidFile' = RemovedFor(cmd.target) /\ GoesTo("retry")
    /\ UNCHANGED <<worldVars, commands, overtaken>>

\* An app server got there first: it is taken over, three times at most.
TakeOver ==
    /\ CmdAt("retry")
    /\ \E answers \in BOOLEAN :
          /\ Probes(answers)
          /\ cmd' = IF answers /\ cmd.attempt < 3 THEN [cmd EXCEPT !.pc = "replace", !.attempt = @ + 1]
                    ELSE [cmd EXCEPT !.pc = "failed"]
    /\ UNCHANGED <<worldVars, pidFile, commands, overtaken>>

StopDaemon ==
    /\ CmdAt("stop") /\ EndManaged("reown")
    /\ UNCHANGED <<kind, path, ownerFile, commands, overtaken>>

\* reconcileOwnedGateway: a gateway that is not the daemon's is stopped if it
\* still has the socket; any other app server is left alone.
StopOwned ==
    /\ CmdAt("reown")
    /\ IF ownerFile \in bound
       THEN /\ IF bound = {ownerFile} THEN cmd' = [cmd EXCEPT !.pc = "evict", !.target = ownerFile] /\ Term(ownerFile)
               ELSE GoesTo("failed") /\ UNCHANGED <<state, bound, told>>
            /\ UNCHANGED ownerFile
       ELSE /\ \E answers \in BOOLEAN : Probes(answers) /\ GoesTo(IF answers THEN "notManaged" ELSE "stopped")
            /\ ownerFile' = Nobody /\ UNCHANGED <<state, bound, told>>
    /\ UNCHANGED <<kind, path, pidFile, commands, overtaken>>

\* The command reports and lets the lock go, or it is killed; the App's gateway
\* lets go as it serves, or did not come to that.
Return ==
    /\ ~CmdAt("idle") /\ cmd' = NoCommand
    /\ CmdAt("launch") => state[cmd.target] \notin {"starting", "probed", "prepared"}
    /\ UNCHANGED <<worldVars, pidFile, commands, overtaken>>

EndpointNext ==
    \/ \E p \in Processes :
          \/ AppLaunches(p) \/ ReadReservation(p) \/ PublishRecord(p) \/ ProbePath(p) \/ NotStarted(p) \/ Prepare(p)
          \/ Listen(p) \/ ListenFails(p) \/ StopsItself(p) \/ CloseServer(p) \/ Leave(p) \/ Ends(p)
          \/ \E k \in {"stock", "other"} : OtherBinds(p, k)
    \/ \E op \in {"start", "switch", "restart", "settings", "stop"} : Command(op)
    \/ Age \/ ProbeFirst \/ Decide \/ WaitReady \/ ApplySettings \/ ProbeServing \/ Replace \/ Ended \/ ForceEnd \/ FindOwner \/ ProbeOwner \/ Evict
    \/ Evicted \/ Spawn \/ Published \/ NotPublished \/ Ready \/ Undone \/ TakeOver \/ StopDaemon \/ StopOwned \/ Return

EndpointSpec == EndpointInit /\ [][EndpointNext]_endpointVars

-----------------------------------------------------------------------------
\* A gateway that shuts down does not remove the pathname under another that
\* serves: an endpoint somebody can reach stays reachable while it serves.
EndpointStays ==
    [][\A p \in Processes : path = p /\ p \in bound /\ p \in bound' => path' # Nobody]_endpointVars

\* What is not an app server is never signalled, whoever takes the path while
\* a command asks who has it.
OtherSpared ==
    \A p \in Processes : kind[p] = "other" =>
        p \notin told /\ (cmd.pc \in {"ending", "undoing", "evict"} => cmd.target # p)

\* A daemon that runs is on record, so that the next command finds it however
\* the last one ended; and no stop has just reported that none is left.  That is
\* so as long as no killed command's child looks at its reservation, or has, and
\* not written its record, while another command runs: it would write it over
\* the other's, or be written over.  (One that cannot listen is on no record.)
DaemonOnRecord ==
    ~overtaken => \A p \in Processes :
        kind[p] = "daemon" /\ state[p] \in {"starting", "probed", "prepared", "serving"} =>
            /\ pidFile.is = "record" /\ pidFile.p = p
            /\ ~(CmdAt("stopped") /\ cmd.op = "stop")

=============================================================================
