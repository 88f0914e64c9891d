------------------------------ MODULE MCGateway ------------------------------
(* The gateway: the requests of its clients and the titles of new chats.      *)
(* They share no state: a behaviour is one of one part, the other stays where *)
(* it begins, with no fair action enabled.                                    *)
EXTENDS Requests, Titles

VARIABLE part

GatewayVars == <<part, requestsVars, titlesVars>>

GatewayInit ==
    /\ part \in {"requests", "titles"}
    /\ RequestsInit /\ (part # "requests" => ~ready /\ known = {})
    /\ TitlesInit /\ (part # "titles" => owner = "claude")

GatewayNext ==
    \/ part = "requests" /\ RequestsNext /\ UNCHANGED <<part, titlesVars>>
    \/ part = "titles" /\ TitlesNext /\ UNCHANGED <<part, requestsVars>>

GatewaySpec == GatewayInit /\ [][GatewayNext]_GatewayVars /\ RequestsFairness /\ TitlesFairness

GatewayTypeOK == RequestsTypeOK /\ TitlesTypeOK
=============================================================================
