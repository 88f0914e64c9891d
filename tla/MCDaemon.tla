------------------------------- MODULE MCDaemon -------------------------------
(* The lock of the daemon's operations, the endpoint they start and stop, and *)
(* the App's relay to it.  They share no state: a behaviour is one of one     *)
(* part, the others stay where they begin, with no fair action enabled.       *)
EXTENDS DaemonLock, Endpoint, StdioFrontend

VARIABLE part

DaemonVars == <<part, vars, endpointVars, frontendVars>>

DaemonInit ==
    /\ part \in {"lock", "endpoint", "frontend"} /\ Init /\ EndpointInit /\ FrontendInit

DaemonNext ==
    \/ part = "lock" /\ Next /\ UNCHANGED <<part, endpointVars, frontendVars>>
    \/ part = "endpoint" /\ EndpointNext /\ UNCHANGED <<part, vars, frontendVars>>
    \/ part = "frontend" /\ FrontendNext /\ UNCHANGED <<part, vars, endpointVars>>

DaemonSpec == DaemonInit /\ [][DaemonNext]_DaemonVars /\ Fairness /\ FrontendFairness

DaemonTypeOK == TypeOK /\ EndpointTypeOK /\ FrontendTypeOK
=============================================================================
