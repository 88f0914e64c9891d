---------------------------- MODULE MCTranscripts ----------------------------
(* What is made of transcripts: who writes them (Registry), the catalog of    *)
(* sessions, the pages of their history and the turns shown of them.  They    *)
(* share no state: a behaviour is one of one part, the others stay where they *)
(* begin.  The states of one chat are those of another with the ids swapped.  *)
EXTENDS Registry, SessionCatalog, Pages, Items, TLC

VARIABLE part

TranscriptsVars == <<part, registryVars, catalogVars, pagesVars, itemsVars>>

TranscriptsInit ==
    /\ part \in {"registry", "catalog", "pages", "items"}
    /\ RegistryInit /\ (part # "registry" => \A ch \in Threads : ~Known(ch))
    /\ CatalogInit /\ (part # "catalog" => disk = NoFile)
    /\ PagesInit /\ ItemsInit

TranscriptsNext ==
    \/ part = "registry" /\ RegistryNext /\ UNCHANGED <<part, catalogVars, pagesVars, itemsVars>>
    \/ part = "catalog" /\ CatalogNext /\ UNCHANGED <<part, registryVars, pagesVars, itemsVars>>
    \/ part = "pages" /\ PagesNext /\ UNCHANGED <<part, registryVars, catalogVars, itemsVars>>
    \/ part = "items" /\ ItemsNext /\ UNCHANGED <<part, registryVars, catalogVars, pagesVars>>

TranscriptsSpec == TranscriptsInit /\ [][TranscriptsNext]_TranscriptsVars

TranscriptsTypeOK == RegistryTypeOK /\ CatalogTypeOK /\ PagesTypeOK /\ ItemsTypeOK
ThreadSymmetry == Permutations(Threads)
=============================================================================
