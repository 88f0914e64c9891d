----------------------------- MODULE MCLineages -----------------------------
(* Chats over their switches, and the list of them.  The two share no state:  *)
(* a behaviour is one of one part, the other stays where it begins.  Ids are  *)
(* alike, and so are the slots for requests and the clients that list.        *)
EXTENDS Lineages, MergedList

VARIABLE part

ChatsVars == <<part, vars, listVars>>

ChatsInit ==
    /\ part \in {"lineages", "list"}
    /\ Init /\ ListInit /\ (part # "list" => stock = <<>> /\ claude = {})

ChatsNext ==
    \/ part = "lineages" /\ Next /\ UNCHANGED <<part, listVars>>
    \/ part = "list" /\ ListNext /\ UNCHANGED <<part, vars>>

ChatsSpec == ChatsInit /\ [][ChatsNext]_ChatsVars

ChatsTypeOK == TypeOK /\ ListTypeOK

IdSymmetry == Permutations(Threads) \cup Permutations(Calls) \cup Permutations(Listers)
=============================================================================
