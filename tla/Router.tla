-------------------------------- MODULE Router --------------------------------
(***************************************************************************)
(* The parts of the router around a chat request, together: the keys it is *)
(* authenticated with, the request itself, the reassembly of its tool      *)
(* calls, the web_fetch tool and the search cache; and two jobs that act   *)
(* on the router from outside, the renewal of the runner's key and the     *)
(* restart of an idle chat server.                                         *)
(*                                                                         *)
(* The parts share no state (a request carries its principal as a value,   *)
(* a tool call its arguments), so a property of one part holds in their    *)
(* product iff it holds while the others rest: `part` is the one that      *)
(* moves.  It is chosen at the start and the sizes add up instead of       *)
(* multiplying.                                                            *)
(***************************************************************************)
EXTENDS RouterKeys, Sequences

CONSTANTS
    \* a request: see RouterRequest
    Aliases, BackendOf, SmallTier, Claude, Unknown, NoBackend, VisionEnabled, MaxTurns, MaxCalls, MaxChunks,
    \* the search cache: see SearchCache
    Clients, Queries, CacheTtl, MaxEntries, MaxCacheNow,
    \* web_fetch: see WebFetch
    Hosts, Denied, Addresses, Private, MaxRedirects, MaxBytes, NoAddress,
    \* a streamed turn: see ToolStream
    Calls, Parts,
    \* the runner's key: see KeyRenewal
    RunnerTtl, RenewAt, MaxKeys

ASSUME RouterAssumption ==
    /\ {MaxTurns, MaxCalls, MaxChunks, Calls, Parts} \subseteq Nat
    /\ Queries # {} /\ {CacheTtl, MaxEntries, MaxCacheNow} \subseteq Nat
    /\ {MaxRedirects, MaxBytes} \subseteq Nat /\ NoAddress \notin Private
    /\ {RunnerTtl, MaxKeys} \subseteq Nat \ {0} /\ RenewAt \in Nat

VARIABLES part,
    q, active, ph, mode, status, swapped, posted, reader, queue, sent, out, clock, turn, msgs, calls,
    entries, client, cacheNow,
    pc, host, hops, pinned, contacted, body, truncated, result,
    wire, sentTo, buf, acc,
    entry, outFile, installed, renewAt, found, reached, issued, revoker,
    unit, server, gen, unseen, quiet, armed, restartAt, reason, cut

reqVars    == <<q, active, ph, mode, status, swapped, posted, reader, queue, sent, out, clock, turn, msgs, calls>>
cacheVars  == <<entries, client, cacheNow>>
fetchVars  == <<pc, host, hops, pinned, contacted, body, truncated, result>>
streamVars == <<wire, sentTo, buf, acc>>
renewVars  == <<entry, outFile, installed, renewAt, found, reached, issued, revoker>>
idleVars   == <<unit, server, gen, unseen, quiet, armed, restartAt, reason, cut>>
jobVars    == <<renewVars, idleVars>>
allVars    == <<part, vars, reqVars, cacheVars, fetchVars, streamVars, jobVars>>

Req   == INSTANCE RouterRequest
Cache == INSTANCE SearchCache WITH now <- cacheNow, Ttl <- CacheTtl, MaxNow <- MaxCacheNow
Fetch == INSTANCE WebFetch
Tool  == INSTANCE ToolStream
Renew == INSTANCE KeyRenewal WITH at <- renewAt, Ttl <- RunnerTtl
Idle  == INSTANCE IdleRestart WITH at <- restartAt

RouterInit ==
    /\ part \in {"keys", "request", "cache", "fetch", "stream", "renewal", "restart"}
    /\ Init /\ Req!Init /\ Cache!Init /\ Fetch!Init /\ Tool!Init /\ Renew!Init /\ Idle!Init
    /\ (part # "request") => (q.route = "rerank" /\ q.body = "huge" /\ q.who = "owner" /\ active = NoBackend)
    /\ (part # "fetch") => (host = CHOOSE h \in Hosts : TRUE)

InKeys(A)    == part = "keys" /\ A /\ UNCHANGED <<part, reqVars, cacheVars, fetchVars, streamVars, jobVars>>
InRequest(A) == part = "request" /\ A /\ UNCHANGED <<part, vars, cacheVars, fetchVars, streamVars, jobVars>>
InCache(A)   == part = "cache" /\ A /\ UNCHANGED <<part, vars, reqVars, fetchVars, streamVars, jobVars>>
InFetch(A)   == part = "fetch" /\ A /\ UNCHANGED <<part, vars, reqVars, cacheVars, streamVars, jobVars>>
InStream(A)  == part = "stream" /\ A /\ UNCHANGED <<part, vars, reqVars, cacheVars, fetchVars, jobVars>>
InJobs(A)    == A /\ UNCHANGED <<part, vars, reqVars, cacheVars, fetchVars, streamVars>>

RouterNext ==
    \/ InKeys(Next) \/ InRequest(Req!Next) \/ InCache(Cache!Next)
    \/ InFetch(Fetch!Next) \/ InStream(Tool!Next)
    \/ InJobs(part = "renewal" /\ Renew!Next /\ UNCHANGED idleVars)
    \/ InJobs(part = "restart" /\ Idle!Next /\ UNCHANGED renewVars)

\* Req!Fairness, while the request is the part that moves: the router's own
\* steps are taken, its clock runs.  The chat server owes nothing.
Fairness ==
    /\ WF_allVars(InRequest(Req!Refuse \/ Req!Pass \/ Req!GuardPasses \/ Req!GuardRefuses
                         \/ Req!GuardSwaps \/ Req!TooLong \/ Req!Start))
    /\ WF_allVars(InRequest(Req!Generate)) /\ WF_allVars(InRequest(Req!Deadline))
    /\ WF_allVars(InRequest(Req!PlainAnswer \/ Req!BrokerAnswers))
    /\ WF_allVars(InRequest(Req!Turn \/ Req!RunTool)) /\ WF_allVars(InRequest(Req!PlainTurnEnds))

RouterSpec == RouterInit /\ [][RouterNext]_allVars /\ Fairness

\* What leaves the router was checked: bodies posted upstream on any route,
\* everything a scoped key starts, every connection of web_fetch.
OnlyCheckedLeaves == Req!ForwardedIsChecked /\ Req!ScopedStaysScoped /\ Fetch!FetchStaysPublic

\* Every other part keeps its types.
TypesKept ==
    /\ Req!TypeOK /\ Cache!TypeOK /\ Fetch!TypeOK /\ Tool!TypeOK
    /\ Renew!TypeOK /\ Idle!TypeOK

\* What the client and the model get is whole: chunks in order and one ending,
\* every tool call reassembled and answered under its id, a cached search the
\* service's own answer; what /v1/models lists the profile guard lets pass; and
\* no job takes the key of a client it cannot reach, or cuts an answer off for
\* idleness.
AnswersAreWhole ==
    /\ TypesKept
    /\ Req!OneEnding /\ Req!ConversationPaired /\ Tool!CallsReassembled
    /\ Req!AdvertisedIsServed /\ Cache!CacheHonest
    /\ Renew!RunnerKeepsKey /\ Idle!NothingLiveIsCut

\* router-app.py:197-198: streaming has no read timeout because
\* "MAX_STREAM_SECONDS caps the whole stream instead".
StreamedLoopEnds == part = "request" => Req!StreamedLoopEnds

\* Every request but a streamed tool loop ends, however silent the server is.
EveryAnswerEnds == part = "request" => Req!EveryAnswerEnds
===============================================================================
