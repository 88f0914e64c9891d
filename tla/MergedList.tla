------------------------------ MODULE MergedList ------------------------------
(* The list of chats (gateway/catalog.ts): stock's pages, read only as far as *)
(* a client's page needs and shared by the lists under way, merged with       *)
(* Claude's chats.                                                            *)
(*                                                                            *)
(* A row is the number that sorts it, lowest first.  Stock's rows come in its *)
(* own order, some hidden (backends of switched chats), some shown with their *)
(* chat's newer time.  The rows stay as they are while they are listed.       *)
EXTENDS Naturals, Sequences, FiniteSets, SequencesExt

CONSTANTS
    Listers,    \* clients that list their chats
    PageSize,   \* limit
    MaxStock,   \* stock's threads
    MaxClaude,  \* Claude's
    MaxCaches,  \* times stock's list is read anew
    Odd         \* what else may be: see below

\* Ties: threads of stock are equally old; ManyHidden: a page's worth of them is
\* hidden; Moved: a switched chat's row shows a newer time (lists by updated_at).
ASSUME ListAssumption == PageSize \in Nat \ {0} /\ Odd \subseteq {"Ties", "ManyHidden", "Moved"}

VARIABLES
    stock,      \* stock's threads in its order, each what it sorts as, shows, and whether it is hidden
    claude,     \* Claude's chats
    caches,     \* stockCache, and those lists under way still read into
    lists       \* per client, its thread/list

listVars == <<stock, claude, caches, lists>>

-----------------------------------------------------------------------------
(* project, merge *)

Shown(threads) == SelectSeq(threads, LAMBDA i : ~stock[i].hidden)

\* Stock's rows as they come, a Claude chat before the first that sorts after it.
Merge(threads) ==
    LET Before(c) == Cardinality({ k \in DOMAIN threads : \A i \in 1 .. k : stock[threads[i]].shows <= c })
        Chats(k) == SetToSortSeq({ c \in claude : Before(c) = k }, <)
        Rows(of, ids) == [n \in DOMAIN ids |-> [of |-> of, at |-> ids[n]]]
    IN  Rows("claude", Chats(0))
        \o FlattenSeq([k \in DOMAIN threads |-> Rows("stock", <<threads[k]>>) \o Rows("claude", Chats(k))])

WholeList == Merge(Shown([i \in DOMAIN stock |-> i]))

\* What no row that is still unread can come before; the last row read tells.
Final(threads, done) ==
    IF done \/ threads = <<>> THEN Merge(Shown(threads))
    ELSE SelectSeq(Merge(Shown(threads)), LAMBDA row : row.of = "stock" \/ row.at <= stock[Last(threads)].at)

-----------------------------------------------------------------------------
(* list, stockThreads *)

Nobody == "nobody"
NoList == [at |-> "none", cache |-> 0, offset |-> 0, given |-> <<>>, next |-> 0]
NewCache == [threads |-> <<>>, next |-> 0, done |-> FALSE, loading |-> Nobody]

Page(from) == SelectSeq([i \in DOMAIN stock |-> i], LAMBDA i : i > from /\ i <= from + PageSize)

\* A list's first page reads stock anew; a next page too if the cache is older
\* than CACHE_MS or of another query.
Ask(c, anew) ==
    /\ lists[c].at \in {"none", "shown"} /\ (lists[c].at = "none" \/ caches = <<>> => anew)
    /\ anew => Len(caches) < MaxCaches
    /\ caches' = IF anew THEN Append(caches, NewCache) ELSE caches
    /\ lists' = [lists EXCEPT ![c].at = "waiting", ![c].cache = Len(caches')]
    /\ UNCHANGED <<stock, claude>>

\* Mutant: lists that share the cache read its pages at once.
LoadAtOnce(c) ==
    /\ lists[c].at = "waiting"
    /\ lists' = [lists EXCEPT ![c].at = "loading"] /\ UNCHANGED <<stock, claude, caches>>

\* loading: lists that share the cache read its pages one at a time.
Load(c) ==
    /\ lists[c].at = "waiting" /\ caches[lists[c].cache].loading = Nobody
    /\ lists' = [lists EXCEPT ![c].at = "loading"]
    /\ caches' = [caches EXCEPT ![lists[c].cache].loading = c] /\ UNCHANGED <<stock, claude>>

Request(c) ==
    LET cache == caches[lists[c].cache] IN
    /\ lists[c].at = "loading" /\ ~cache.done /\ Len(cache.threads) < lists[c].offset + PageSize
    /\ lists' = [lists EXCEPT ![c].at = "asked", ![c].next = cache.next] /\ UNCHANGED <<stock, claude, caches>>

Receive(c) ==
    LET from == lists[c].next
        more == from + PageSize < Len(stock)
    IN
    /\ lists[c].at = "asked" /\ lists' = [lists EXCEPT ![c].at = "loading"]
    /\ caches' = [caches EXCEPT ![lists[c].cache] =
                    [@ EXCEPT !.threads = @ \o Page(from), !.next = from + PageSize, !.done = ~more]]
    /\ UNCHANGED <<stock, claude>>

\* Stock refuses or goes: the list fails, the others go on.
Refused(c) ==
    /\ lists[c].at = "asked" /\ lists' = [lists EXCEPT ![c].at = "failed"]
    /\ caches' = [caches EXCEPT ![lists[c].cache].loading = Nobody] /\ UNCHANGED <<stock, claude>>

\* The page of what is final, and a cursor if there is more.
Show(c) ==
    LET cache == caches[lists[c].cache]
        offset == lists[c].offset
        merged == Final(cache.threads, cache.done)
        data == SubSeq(merged, offset + 1, IF Len(merged) < offset + PageSize THEN Len(merged) ELSE offset + PageSize)
        more == (offset + PageSize < Len(merged) \/ ~cache.done) /\ data # <<>>
    IN
    /\ lists[c].at = "loading" /\ (cache.done \/ Len(cache.threads) >= offset + PageSize)
    /\ caches' = [caches EXCEPT ![lists[c].cache].loading = Nobody]
    /\ lists' = [lists EXCEPT ![c] = [@ EXCEPT !.at = IF more THEN "shown" ELSE "ended",
                                               !.offset = @ + Len(data), !.given = @ \o data]]
    /\ UNCHANGED <<stock, claude>>

-----------------------------------------------------------------------------
Sorts == 1 .. 2 * MaxStock + 1

ListInit ==
    /\ \E n \in 0 .. MaxStock :
       \E hidden \in SUBSET (1 .. n) : \E moved \in SUBSET (1 .. n) : \E tied \in SUBSET (1 .. n) :
          /\ ("ManyHidden" \in Odd \/ Cardinality(hidden) < PageSize) /\ ("Moved" \in Odd \/ moved = {})
          /\ ("Ties" \in Odd \/ tied = {})
          /\ LET Time(i) == 2 * Cardinality((1 .. i) \ tied)
             IN stock = [i \in 1 .. n |->
                           [at |-> Time(i), hidden |-> i \in hidden, shows |-> IF i \in moved THEN 0 ELSE Time(i)]]
    /\ claude \in { s \in SUBSET Sorts : Cardinality(s) <= MaxClaude }
    /\ caches = <<>> /\ lists = [c \in Listers |-> NoList]

ListNext ==
    \E c \in Listers :
       \/ \E anew \in BOOLEAN : Ask(c, anew)
       \/ Load(c) \/ Request(c) \/ Receive(c) \/ Refused(c) \/ Show(c)

ListTypeOK ==
    /\ claude \subseteq Sorts /\ Len(stock) <= MaxStock /\ Len(caches) <= MaxCaches
    /\ \A k \in DOMAIN caches :
          /\ caches[k].loading \in Listers \cup {Nobody}
          /\ \A i \in DOMAIN caches[k].threads : caches[k].threads[i] \in DOMAIN stock
    /\ \A c \in Listers :
          /\ lists[c].at \in {"none", "waiting", "loading", "asked", "shown", "ended", "failed"}
          /\ lists[c].cache \in 0 .. Len(caches) /\ lists[c].offset = Len(lists[c].given)

\* The pages a client follows, however lists interleave and however far stock
\* was read for each, are the list of all chats, in order: none is missing,
\* shown twice or out of place, and a list that ends is the whole one.
ListIsWhole ==
    \A c \in Listers :
       /\ IsPrefix(lists[c].given, WholeList)
       /\ lists[c].at = "ended" => lists[c].given = WholeList
=============================================================================
