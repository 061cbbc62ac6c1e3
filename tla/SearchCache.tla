------------------------------ MODULE SearchCache ------------------------------
(***************************************************************************)
(* POST /v1/tavily/search: the router's proxy to the search service with   *)
(* the TTL + LRU cache of tavily_cache.py in front of it.  Handlers are    *)
(* coroutines: between a miss and the put that fills it other requests     *)
(* look up, fill and evict.                                                *)
(*                                                                         *)
(* An answer is represented by its query and the time it was fetched at.   *)
(***************************************************************************)
EXTENDS Integers, Sequences, FiniteSets, SequencesExt

CONSTANTS
    Clients,      \* requests that may be under way together
    Queries,      \* distinct request bodies after the field whitelist
    Ttl,          \* DEFAULT_TTL_S
    MaxEntries,   \* DEFAULT_MAX_ENTRIES
    MaxNow        \* bound of the clock

VARIABLES
    entries,   \* TTLCache._entries, least recently used first
    client,    \* per request: where it is, its query, its answer
    now

vars == <<entries, client, now>>

Answer(x, t) == [of |-> x, at |-> t]
Error == [of |-> "error", at |-> -1]
Idle  == [pc |-> "idle", query |-> CHOOSE x \in Queries : TRUE, answer |-> Error, hit |-> FALSE, age |-> 0]

Init == entries = <<>> /\ client = [c \in Clients |-> Idle] /\ now = 0

At(x)         == SelectInSeq(entries, LAMBDA e : e.key = x)
Without(x)    == IF At(x) = 0 THEN entries ELSE RemoveAt(entries, At(x))
Entry(x)      == entries[At(x)]
\* An entry good for one tick too many, for comparison.
FreshEnough(x) == At(x) # 0 /\ now - Entry(x).stored <= Ttl

Fresh(x)      == At(x) # 0 /\ now - Entry(x).stored < Ttl

Answered(c, x, value, isHit) ==
    client' = [client EXCEPT ![c] = [pc |-> "answered", query |-> x, answer |-> value, hit |-> isHit,
                                         age |-> now - value.at]]

\* A live entry moves to the recently used end.
Hit(c, x) ==
    /\ client[c].pc = "idle" /\ Fresh(x)
    /\ Answered(c, x, Entry(x).value, TRUE)
    /\ entries' = Append(Without(x), Entry(x))
    /\ UNCHANGED now

\* A miss drops the entry that expired; no_cache does not look.
Miss(c, x, bypass) ==
    /\ client[c].pc = "idle" /\ (bypass \/ ~Fresh(x))
    /\ client' = [client EXCEPT ![c] = [Idle EXCEPT !.pc = "fetching", !.query = x]]
    /\ entries' = IF bypass THEN entries ELSE Without(x)
    /\ UNCHANGED now

\* should_cache and put: only a 200 is stored, an oversized value is not, and
\* the oldest entries make room.
Store(x, value) ==
    LET full == Append(Without(x), [key |-> x, stored |-> now, value |-> value])
    IN  IF Len(full) > MaxEntries THEN Tail(full) ELSE full

Fetched(c, large) ==
    /\ client[c].pc = "fetching"
    /\ Answered(c, client[c].query, Answer(client[c].query, now), FALSE)
    /\ entries' = IF large THEN entries ELSE Store(client[c].query, Answer(client[c].query, now))
    /\ UNCHANGED now

\* Unreachable, an HTTP error (432: the quota is used up), no JSON.
FetchFails(c) ==
    /\ client[c].pc = "fetching"
    /\ Answered(c, client[c].query, Error, FALSE)
    /\ UNCHANGED <<entries, now>>

Leave(c) ==
    /\ client[c].pc # "idle"
    /\ client' = [client EXCEPT ![c] = Idle]
    /\ UNCHANGED <<entries, now>>

Tick == now < MaxNow /\ now' = now + 1 /\ UNCHANGED <<entries, client>>

Next ==
    \/ \E c \in Clients, x \in Queries : Hit(c, x) \/ \E bypass \in BOOLEAN : Miss(c, x, bypass)
    \/ \E c \in Clients : FetchFails(c) \/ Leave(c) \/ \E large \in BOOLEAN : Fetched(c, large)
    \/ Tick

Spec == Init /\ [][Next]_vars

-------------------------------------------------------------------------------
TypeOK ==
    /\ entries \in Seq([key : Queries, stored : 0..MaxNow, value : [of : Queries, at : 0..MaxNow]])
    /\ now \in 0..MaxNow
    /\ \A c \in Clients : client[c].pc \in {"idle", "fetching", "answered"}

\* The cache holds one entry per query, never more than its limit, each the
\* service's own 200 answer to that query (an error never pins a failure), and
\* nobody gets an answer older than the TTL, whatever is stored meanwhile.
CacheHonest ==
    /\ Len(entries) <= MaxEntries
    /\ \A i, j \in DOMAIN entries : entries[i].key = entries[j].key => i = j
    /\ \A i \in DOMAIN entries : entries[i].value = Answer(entries[i].key, entries[i].stored)
    /\ \A c \in Clients : client[c].hit => (client[c].answer.of = client[c].query /\ client[c].age < Ttl)
===============================================================================
