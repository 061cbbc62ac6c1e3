----------------------------- MODULE RouterRequest -----------------------------
(***************************************************************************)
(* One request to the LLM router (router-app.py) from its bearer key to    *)
(* the last frame of its answer: the refusals every route makes before it  *)
(* forwards anything, the streamed and the plain exchange with the chat    *)
(* server, and the router's own loop over tool calls.                      *)
(*                                                                         *)
(* The slot the exchange waits for is ChatAdmission's, the model swap      *)
(* ProfileSwap's: here a swap only succeeds or fails.  The chat server may *)
(* answer, fail or stay silent at any point; the only clocks are the       *)
(* router's own.                                                           *)
(***************************************************************************)
EXTENDS Integers, Sequences, FiniteSets, SequencesExt

CONSTANTS
    Aliases,         \* the keys of ALIAS_MAP
    BackendOf,       \* alias -> the backend that serves it
    SmallTier,       \* the rag-* aliases, exempt from the profile guard
    Claude,          \* a claude-* alias: answered by the escalation broker
    Unknown,         \* a model name no table knows
    NoBackend,       \* the chat unit cannot be asked
    VisionEnabled,   \* ROUTER_VISION_ENABLED
    MaxTurns,        \* MAX_TOOL_ITERATIONS
    MaxCalls,        \* bound: tool calls in one turn
    MaxChunks        \* bound: chunks of one upstream stream

VARIABLES
    q,         \* the request
    active,    \* the backend the chat unit reports
    ph,        \* how far the request is
    mode,      \* which exchange answers it
    status,    \* the status it was answered with, 0 before
    swapped,   \* it triggered a profile swap
    posted,    \* its body reached an upstream
    reader,    \* the task that reads the upstream
    queue,     \* what that task handed to the generator
    sent,      \* chunks the upstream sent
    out,       \* frames the client got
    clock,     \* "within" or "over" MAX_STREAM_SECONDS
    turn,      \* iterations of the tool loop
    msgs,      \* what the tool loop appended to the conversation
    calls      \* ids of the tool calls not run yet

vars == <<q, active, ph, mode, status, swapped, posted, reader, queue, sent, out, clock, turn, msgs, calls>>

Backends == {BackendOf[a] : a \in Aliases}

\* What each handler checks and offers: llama.cpp's own multimodal keys
\* refused, inline images accepted, the input counted, streamed answers.
Chat        == [refusesRaw |-> TRUE,  images |-> TRUE,  counted |-> TRUE,  streams |-> TRUE]
Completions == [refusesRaw |-> TRUE,  images |-> FALSE, counted |-> TRUE,  streams |-> TRUE]
Messages    == [refusesRaw |-> FALSE, images |-> TRUE,  counted |-> TRUE,  streams |-> TRUE]
CountTokens == [refusesRaw |-> FALSE, images |-> TRUE,  counted |-> FALSE, streams |-> FALSE]
Embeddings  == [refusesRaw |-> FALSE, images |-> FALSE, counted |-> TRUE,  streams |-> FALSE]
Rerank      == [refusesRaw |-> FALSE, images |-> FALSE, counted |-> FALSE, streams |-> FALSE]

Handler == [chat |-> Chat, completions |-> Completions, messages |-> Messages,
            count_tokens |-> CountTokens, embeddings |-> Embeddings, rerank |-> Rerank]
Routes  == DOMAIN Handler

\* What a client may send: the fields the handlers look at.
Request ==
    [route : Routes, who : {"owner", "scoped"},
     granted : BOOLEAN, body : {"json", "huge", "other"}, media : {"none", "inline", "remote", "raw"},
     tokens : {"fits", "over", "unknown"}, model : Aliases \cup {Claude, Unknown},
     stream : BOOLEAN, tools : {"server", "client"}, lane : {"open", "closed"}]

\* The fields a route does not look at have one value.
Plausible(r) ==
    /\ (r.body # "json") => (r.media = "none" /\ r.tokens = "fits" /\ r.tools = "client")
    /\ (r.who = "owner") => (r.granted /\ r.lane = "open")
    /\ (r.route # "chat") => (r.tools = "client" /\ r.model = Unknown)
    /\ r.stream => Handler[r.route].streams
    /\ (r.route \in {"embeddings", "rerank"}) => r.media = "none"

Init ==
    /\ q \in {r \in Request : Plausible(r)}
    /\ active \in Backends \cup {NoBackend}
    /\ ph = "bearer" /\ mode = "none" /\ status = 0
    /\ swapped = FALSE /\ posted = FALSE
    /\ reader = "none" /\ queue = <<>> /\ sent = 0 /\ out = <<>>
    /\ clock = "within" /\ turn = 0 /\ msgs = <<>> /\ calls = <<>>

exchange == <<posted, reader, queue, sent, out, clock, turn, msgs, calls>>

-------------------------------------------------------------------------------
(* Refusals, in the order of the handler                                   *)

\* SCOPED_ENDPOINTS: of these routes a scoped key may call chat only.
EndpointAllowed == q.who = "owner" \/ q.route = "chat"

\* vision_guard: remote images never, inline ones with a projector and not in
\* a completion's prompt, llama.cpp's own keys on the two OpenAI routes.
MediaRefused ==
    \/ q.media = "remote"
    \/ q.media = "inline" /\ ~(VisionEnabled /\ Handler[q.route].images)
    \/ q.media = "raw" /\ Handler[q.route].refusesRaw

\* access_keys.chat_violation; `granted` is model \in principal.aliases.
ChatViolation == q.who = "scoped" /\ (~q.granted \/ q.tools = "server")

\* _escalate: the claude-* aliases need the owner's key.
Escalated == q.route = "chat" /\ q.model = Claude

\* [condition, status] in the order of the code; the first that holds answers.
Refusals ==
    << [if |-> ~EndpointAllowed,                                        code |-> 403],
       [if |-> q.body = "huge",                                         code |-> 413],
       [if |-> q.body = "other",                                        code |-> 400],
       [if |-> Escalated /\ q.who = "scoped",                           code |-> 403],
       [if |-> ~Escalated /\ q.route = "chat" /\ q.media = "raw",       code |-> 400],
       [if |-> ~Escalated /\ q.route = "chat" /\ ChatViolation,         code |-> 403],
       [if |-> ~Escalated /\ q.who = "scoped" /\ q.lane = "closed",     code |-> 503],
       [if |-> ~Escalated /\ MediaRefused,                              code |-> 400] >>

FirstRefusal == SelectInSeq(Refusals, LAMBDA r : r.if)

Frame(kind)  == [kind |-> kind, n |-> 0]
Degraded     == <<Frame("degraded"), Frame("done")>>
Finish(code) == ph' = "ended" /\ status' = code

Refuse ==
    /\ ph = "bearer" /\ FirstRefusal # 0
    /\ Finish(Refusals[FirstRefusal].code)
    /\ UNCHANGED <<q, active, mode, swapped, exchange>>

Pass ==
    /\ ph = "bearer" /\ FirstRefusal = 0
    /\ ph' = IF Escalated THEN "run" ELSE "guard"
    /\ mode' = IF Escalated THEN "escalate" ELSE "none"
    /\ reader' = IF Escalated THEN "reading" ELSE reader
    /\ UNCHANGED <<q, active, status, swapped, posted, queue, sent, out, clock, turn, msgs, calls>>

\* The profile-match guard; unknown names and the small tier are served by
\* whatever is loaded, and so is everyone while the unit cannot be asked.
Mismatch ==
    /\ q.route = "chat" /\ q.model \in Aliases \ SmallTier
    /\ active # NoBackend /\ BackendOf[q.model] # active

GuardPasses ==
    /\ ph = "guard" /\ ~Mismatch
    /\ ph' = "count"
    /\ UNCHANGED <<q, active, mode, status, swapped, exchange>>

\* access_keys.may_swap: a scoped key gets 409 instead.
GuardRefuses ==
    /\ ph = "guard" /\ Mismatch /\ q.who = "scoped"
    /\ Finish(409)
    /\ UNCHANGED <<q, active, mode, swapped, exchange>>

\* A plain request waits for the swap and goes on to be counted; a streamed
\* one is answered at once and goes straight from the swap to the exchange.
GuardSwaps ==
    /\ ph = "guard" /\ Mismatch /\ q.who = "owner"
    /\ swapped' = TRUE
    /\ \E done \in BOOLEAN :
         /\ active' = IF done THEN BackendOf[q.model] ELSE active
         /\ IF q.stream
            THEN /\ mode' = "sse" /\ status' = 200
                 /\ ph' = IF done THEN "run" ELSE "ended"
                 /\ posted' = done
                 /\ reader' = IF done THEN "reading" ELSE reader
                 /\ out' = IF done THEN out ELSE Degraded
            ELSE /\ ph' = IF done THEN "count" ELSE "ended"
                 /\ status' = IF done THEN 0 ELSE 503
                 /\ UNCHANGED <<mode, posted, reader, out>>
    /\ UNCHANGED <<q, queue, sent, clock, turn, msgs, calls>>

\* /tokenize: the prompt for the chat routes, each input for embeddings; an
\* unreachable tokenizer ("unknown") lets the request through.
Counted == Handler[q.route].counted

TooLong ==
    /\ ph = "count" /\ Counted /\ q.tokens = "over"
    /\ Finish(413)
    /\ UNCHANGED <<q, active, mode, swapped, exchange>>

Answering ==
    IF q.stream THEN (IF q.tools = "server" THEN "tools" ELSE "sse")
                ELSE (IF q.tools = "server" THEN "toolsPlain" ELSE "plain")

Start ==
    /\ ph = "count" /\ ~(Counted /\ q.tokens = "over")
    /\ ph' = "run" /\ mode' = Answering
    /\ status' = IF q.stream THEN 200 ELSE 0
    /\ posted' = (Answering \in {"sse", "plain"})
    /\ reader' = IF Answering \in {"sse", "plain"} THEN "reading" ELSE reader
    /\ UNCHANGED <<q, active, swapped, queue, sent, out, clock, turn, msgs, calls>>

-------------------------------------------------------------------------------
(* sse_stream_with_keepalive: a reader task, a queue and the generator     *)

Emit(frames) == out' = out \o frames
End(frames)  == Emit(frames) /\ ph' = "ended" /\ reader' = "stopped"

streamIdle == <<q, active, mode, status, swapped, posted, turn, msgs, calls>>

ReaderGetsChunk ==
    /\ mode = "sse" /\ reader = "reading" /\ sent < MaxChunks
    /\ sent' = sent + 1 /\ queue' = Append(queue, [kind |-> "data", n |-> sent + 1])
    /\ UNCHANGED <<streamIdle, ph, reader, out, clock>>

\* The end of the stream; a 5xx, a refused connection, a broken read.
ReaderStops ==
    /\ mode = "sse" /\ reader = "reading"
    /\ reader' = "stopped"
    /\ \E kind \in {"eof", "degraded"} : queue' = Append(queue, Frame(kind))
    /\ UNCHANGED <<streamIdle, ph, sent, out, clock>>

\* A generator that never looks at the clock, for comparison.
GenerateForever ==
    /\ mode = "sse" /\ ph = "run" /\ queue # <<>>
    /\ queue' = Tail(queue)
    /\ CASE Head(queue).kind = "data" -> Emit(<<Head(queue)>>) /\ UNCHANGED <<ph, reader>>
         [] Head(queue).kind = "eof"  -> End(<<>>)
         [] OTHER                     -> End(Degraded)
    /\ UNCHANGED <<streamIdle, sent, clock>>

\* One turn of the generator's loop; with an empty queue it pings and waits.
Generate ==
    /\ mode = "sse" /\ ph = "run"
    /\ \/ /\ clock = "over"
          /\ End(Degraded) /\ UNCHANGED queue
       \/ /\ clock = "within" /\ queue # <<>>
          /\ queue' = Tail(queue)
          /\ CASE Head(queue).kind = "data" -> Emit(<<Head(queue)>>) /\ UNCHANGED <<ph, reader>>
               [] Head(queue).kind = "eof"  -> End(<<>>)
               [] OTHER                     -> End(Degraded)
    /\ UNCHANGED <<streamIdle, sent, clock>>

\* Time passes for whoever streams.
Deadline ==
    /\ ph = "run" /\ mode \in {"sse", "tools", "toolsPlain"} /\ clock = "within"
    /\ clock' = "over"
    /\ UNCHANGED <<streamIdle, ph, reader, queue, sent, out>>

\* The client goes: its generator is closed and cancels the task it waits for.
ClientLeaves ==
    /\ ph = "run" /\ q.stream
    /\ End(<<>>)
    /\ UNCHANGED <<streamIdle, queue, sent, clock>>

-------------------------------------------------------------------------------
(* One POST and its answer                                                 *)

plainIdle == <<q, active, swapped, posted, queue, sent, clock, turn, msgs, calls>>

\* The upstream's own status, or 502 when it fails, times out or sends no JSON.
PlainAnswer ==
    /\ mode = "plain" /\ ph = "run"
    /\ reader' = "stopped" /\ out' = <<Frame("answer")>>
    /\ \E code \in {200, 502} : Finish(code)
    /\ UNCHANGED <<plainIdle, mode>>

\* _escalate: the broker's answer; a slow stream gets keepalives meanwhile.
BrokerAnswers ==
    /\ mode = "escalate" /\ ph = "run"
    /\ reader' = "stopped" /\ out' = <<Frame("answer")>>
    /\ \E code \in {200, 424} : Finish(code)
    /\ UNCHANGED <<plainIdle, mode>>

-------------------------------------------------------------------------------
(* The tool loop: tool_loop_stream and tool_loop_nonstream                 *)

Looping == mode \in {"tools", "toolsPlain"} /\ ph = "run" /\ calls = <<>> /\ reader # "reading"
loopIdle == <<q, active, mode, swapped, queue, sent, clock>>

\* A loop without its bound, for comparison.
TurnUnbounded ==
    /\ Looping
    /\ turn' = turn + 1 /\ posted' = TRUE /\ reader' = "reading"
    /\ UNCHANGED <<loopIdle, ph, status, out, msgs, calls>>

\* The top of the loop; the clock is read here and nowhere else.
Turn ==
    /\ Looping
    /\ IF clock = "over" \/ turn = MaxTurns
       THEN /\ End(IF clock = "over" THEN Degraded ELSE <<Frame("limit"), Frame("done")>>)
            /\ status' = 200
            /\ UNCHANGED <<posted, turn>>
       ELSE /\ turn' = turn + 1 /\ posted' = TRUE /\ reader' = "reading"
            /\ UNCHANGED <<ph, status, out>>
    /\ UNCHANGED <<loopIdle, msgs, calls>>

InTurn == mode \in {"tools", "toolsPlain"} /\ ph = "run" /\ reader = "reading"

\* Calls forwarded with the ids they came with, for comparison.
IdsAsSent(ids) == [i \in DOMAIN ids |-> <<0, ids[i]>>]

\* The upstream asks for tools; a call without an id gets a fresh one
\* (_ensure_tool_call_ids).  `0` is a missing id.
EnsureIds(ids) == [i \in DOMAIN ids |-> IF ids[i] = 0 THEN <<turn, i>> ELSE <<0, ids[i]>>]

AsksForTools ==
    /\ InTurn
    /\ \E n \in 1..MaxCalls : \E ids \in [1..n -> 0..1] :
         /\ calls' = EnsureIds(ids)
         /\ msgs' = Append(msgs, [role |-> "assistant", ids |-> EnsureIds(ids)])
    /\ reader' = "stopped"
    /\ UNCHANGED <<loopIdle, ph, status, posted, out, turn>>

\* dispatch_tool answers every call: an unknown tool, arguments that are no
\* JSON object or lack a field, a handler that fails or raises give an error
\* object, the rest the tool's result.
RunTool ==
    /\ mode \in {"tools", "toolsPlain"} /\ ph = "run" /\ calls # <<>>
    /\ msgs' = Append(msgs, [role |-> "tool", ids |-> <<Head(calls)>>])
    /\ calls' = Tail(calls)
    /\ UNCHANGED <<loopIdle, ph, status, posted, reader, out, turn>>

\* The final answer, or an upstream that failed.  The plain loop answers 200
\* either way and has a read timeout; the streamed one has none.
TurnEnds ==
    /\ InTurn
    /\ status' = 200
    /\ \/ End(<<Frame("answer"), Frame("done")>>)
       \/ End(Degraded)
    /\ UNCHANGED <<loopIdle, posted, turn, msgs, calls>>

Next ==
    \/ Refuse \/ Pass \/ GuardPasses \/ GuardRefuses \/ GuardSwaps \/ TooLong \/ Start
    \/ ReaderGetsChunk \/ ReaderStops \/ Generate \/ Deadline \/ ClientLeaves
    \/ PlainAnswer \/ BrokerAnswers
    \/ Turn \/ AsksForTools \/ RunTool \/ TurnEnds

Spec == Init /\ [][Next]_vars

\* The router's own coroutines run when they can and its clocks run; a plain
\* POST has a read timeout.  Nothing is assumed of a streaming chat server.
PlainTurnEnds == mode = "toolsPlain" /\ TurnEnds
Fairness ==
    /\ WF_vars(Refuse \/ Pass \/ GuardPasses \/ GuardRefuses \/ GuardSwaps \/ TooLong \/ Start)
    /\ WF_vars(Generate) /\ WF_vars(Deadline)
    /\ WF_vars(PlainAnswer \/ BrokerAnswers)
    /\ WF_vars(Turn \/ RunTool) /\ WF_vars(PlainTurnEnds)

FairSpec == Spec /\ Fairness

-------------------------------------------------------------------------------
Modes  == {"none", "sse", "plain", "tools", "toolsPlain", "escalate"}

TypeOK ==
    /\ q \in Request /\ active \in Backends \cup {NoBackend}
    /\ ph \in {"bearer", "guard", "count", "run", "ended"}
    /\ mode \in Modes /\ status \in {0, 200, 400, 403, 409, 413, 424, 502, 503}
    /\ swapped \in BOOLEAN /\ posted \in BOOLEAN
    /\ reader \in {"none", "reading", "stopped"}
    /\ clock \in {"within", "over"} /\ turn \in 0..MaxTurns

\* What reaches an upstream went through the checks of its route, whichever
\* route and answer it took: no media the server would fetch itself, no
\* prompt over the limit.  A stream behind a swap is the one path that is not
\* counted (chat, lines 1841-1886), rerank and count_tokens never are.
ForwardedIsChecked ==
    posted =>
        /\ q.body = "json" /\ q.media # "remote"
        /\ (q.media = "inline") => VisionEnabled
        /\ (q.media = "raw") => q.route \in {"messages", "count_tokens"}
        /\ (q.tokens = "over" /\ Counted) => (swapped /\ q.stream)

\* A scoped key gets chat under its own aliases and nothing else: no tools run
\* by the router, no swap, no broker (access_keys.py, may_swap, _escalate).
ScopedStaysScoped ==
    q.who = "scoped" =>
        /\ ~swapped /\ mode \notin {"tools", "toolsPlain", "escalate"}
        /\ posted => (q.route = "chat" /\ q.granted)

\* The client sees the upstream's chunks in order, then at most one ending,
\* and nothing behind it; an ended answer has no reader left.
OneEnding ==
    /\ \A i \in DOMAIN out : (out[i].kind = "data") => (out[i].n = i)
    /\ \A i, j \in DOMAIN out :
         (i < j /\ out[i].kind # "data") => (out[j].kind = "done" /\ j = i + 1 /\ j = Len(out))
    /\ (ph = "ended") => (reader # "reading")

\* Before each POST of the loop every tool call of the conversation has its
\* result, in order and under its own id (a call without id is never
\* answered: the model would call again until MAX_TOOL_ITERATIONS).
Group(k) == msgs[k].ids
ConversationPaired ==
    \A k \in DOMAIN msgs : msgs[k].role = "assistant" =>
        \A i \in 1..(Len(Group(k)) - Len(calls)) :
            /\ k + i \in DOMAIN msgs
            /\ msgs[k + i] = [role |-> "tool", ids |-> <<Group(k)[i]>>]
            /\ Group(k)[i] # <<0, 0>>

\* /v1/models never advertises an alias the profile guard would refuse.
Advertised == IF active = NoBackend THEN Aliases ELSE {a \in Aliases : BackendOf[a] = active}
AdvertisedIsServed ==
    (ph = "guard" /\ q.route = "chat" /\ q.model \in Advertised) => ~Mismatch

\* Every answer ends, however silent the chat server is: MAX_STREAM_SECONDS
\* caps a stream and read timeouts cap a POST.  The streamed tool loop is the
\* exception (see StreamedLoopEnds).
EveryAnswerEnds == (mode # "tools" /\ ph # "ended") ~> (ph = "ended" \/ mode = "tools")

\* router-app.py:197-198: streaming has no read timeout because
\* "MAX_STREAM_SECONDS caps the whole stream instead".
StreamedLoopEnds == (mode = "tools" /\ ph = "run") ~> (ph = "ended")
===============================================================================
