# Verification of the local GPU cluster

This directory holds a TLA+ development of the parts of the repository whose correctness depends on
order: which await returns first, which call fails, when a process dies, what a cached answer is worth
when it is used. Each component has a module translated from its source; ten configurations check them on
small instances and two more show a promise of the code broken. For nine groups of them (admission, budget,
swap, corpus refresh, runner, router, dashboard, harness, lab) TLAPS proves theorems for every value of the constants.

## 1. The system

A Proxmox host runs containers for a llama.cpp chat server (LXC 151), a router (153), AnythingLLM (154),
MCP servers (155) and a memory vault (156), and a VM for a coding agent (178). Everything below is under
`src/scripts/files/` unless a path says otherwise.

```
 clients --> router-app.py --[chat gate, lane]--> llama-server (one profile loaded)
                |   |   \--> escalation.py --> Anthropic (paid, capped)
                |   \--> swap-webhook.py --> swap-chat-model.sh --> 51-lxc-amd.sh, systemd unit
                \--> tavily_cache.py, embed/rerank backends
 timer --> scripts/rag/refresh.py --> AnythingLLM workspace     (its state: documents.json, manifest)
 timer --> agent_runner_dispatch.py --> GitHub issues, agent-run.sh (sandbox) --> router (scoped key)
```

| Component | State it keeps | Operations | Hard behaviour | What makes it correct |
|---|---|---|---|---|
| Chat admission (`stream_admission.py`, `workforce_lane.py`, part of `router-app.py`) | gate capacity and count, wait list, lane count | acquire, release, set_capacity, hold_slot, refresh | disconnect against grant, shrink while queued, lost wake-up, two refreshers | no slot leaked, nobody asleep beside a free slot, the reserve kept, everybody settles |
| Escalation broker (`escalation.py`) | ledger file, reservations in memory | reserve, `_post` with one retry, settle | in-flight calls against caps, uncertain delivery, unwritable ledger, cancel, restart | caps and limits hold, every charge is counted once, no duplicate payment |
| RAG refresh (`scripts/rag`) | documents.json, manifest, proposals, AnythingLLM's documents | collect, plan, upload, embed in batches, approve, cleanup | partial failure anywhere, death between two writes, hidden or skipped pages | state describes files, current page never detached, mass removal only if approved, convergence |
| Profile swap (`router-app.py`, `swap-webhook.py`, `scripts/swap-chat-model.sh`) | active-backend cache, swap lock, config.env, unit file, running unit | guard, probe, swap, provision, restart, wait | stale guard answers, abandoned swaps, operator beside webhook, failure between steps | lock not leaked, right model answers, no needless swap, everybody is answered |
| Runner dispatcher (`agent_runner_dispatch.py`) | labels and comments on GitHub; a clone per repo | list, refuse, hold, preflight, claim, check out, run, report, relabel | half-applied label edits, death between comment and label, queue head that cannot run, origin and owner moving the clone, forged or repeated reports | one report per task, no stranded claim, unclean results marked, nobody blocks the queue, the commit that was asked for |
| Router keys (`access_keys.py`, `router-keys.py`, `agent-runner-key-renew.sh`) | keys.json, signature of the copy in memory; the runner's key | reload, authenticate, add and revoke under flock; daily renewal | stat against read against an atomic rewrite, lost updates, a renewal that breaks off | a change takes effect at the next request, none is undone, the runner is not left without a key |
| Router request (`router-app.py`, `vision_guard.py`, `access_keys.py`, `alias_defaults.py`) | one conversation, reader task, queue | the refusals of each route, stream with keep-alive, plain post, tool loop | a silent upstream, a client that leaves, tool calls without ids, a swap first | what is forwarded was checked, one ending, calls and results paired, every answer ends |
| Tool stream, search cache, web_fetch (`router-app.py`, `tavily_cache.py`, `web_fetch_guard.py`) | accumulator; TTL and LRU map; hops | feed, finalize; get, put; resolve, connect | bytes cut anywhere; concurrent misses; DNS that changes | calls whole; answers fresh and genuine; only public addresses |
| Embed and rerank admission (`embed_admission.py`) | an asyncio semaphore | `async with` | none of its own | - |
| Idle restart (`chat-restart-if-idle.sh`) | stamp | probe twice, read /healthz, restart | a request between two looks, between two turns | no live request cut off for idleness |
| Measurement window (`wf-window.sh`, `scripts/tools/workforce/runmeta.py`) | window.env, stamps | open, close, stamp, validity | failure or boot at any step, a job outliving its timer | what was stopped is restored, a valid run was undisturbed |
| Live dashboard (`live_dashboard/`) | open and finished requests, SQLite history, sources, viewers | journal lines, polls, add, flush, follow, stop, stream | threads over shared state, restarts during journal gaps, a database that breaks | rows say what happened, flush tells the truth, stop ends, counts are exact |
| Memory bridge (`memory-vault-bridge.py`) | known spaces | ensure space, store, recall | requests for other spaces at once, refusals | stored where asked |
| Workforce harness (`scripts/tools/workforce`) | queues, work in hand, records; a workspace; a graded tree | implement, review, lead fix, classify, grade, import | workers that go away, agents that leave processes or edit the tests | one owner per task, outcomes earned, what passes passed |
| VCF lab tools (`src/vcf-spec-tools/vcfspec`) | a host's disks and boot; a schema; findings | render, install, %firstboot; validate, render, diff; probe | fails silently on the host, layers that raise, resolvers that hang | ready means commissionable, valid is earned, probes stay inside |
| Offline depot (`scripts/vcf-depot/vcfdepot.py`) | staged and served files | audit, plan, publish, verify | interrupted copies, staging that changes | the fleet reads whole files, verdicts founded |
| Scripts with one remote call and its check per step (deployment, VCF power and DNS, fan and power loops, MCP adapter, `wf-run-control.sh`) | external systems | - | - | - |

How they interact: the router refuses a scoped request while the lane is closed, and the dispatcher reads
that as "lane closed" (agent-run's exit 75) and puts the task back; a swap changes the slot count, which the
admission gate re-reads (`refresh_capacity_once`); a swap under a running agent answers it with 409, which the
dispatcher recognises and requeues; the runner's key is renewed under the keys file the router re-reads; the
restart job reads the router's clock (`seconds_since_chat`); the window stops that job's timer; the dashboard
follows the chat server's journal and polls its slots; the harness sends its turns through the router's lane.

## 2. Modules and plan

| Module | Role | Checked by |
|---|---|---|
| `SlotPool` | abstract specification: a resizable pool of slots | `Admission` |
| `ChatAdmission` | the chat gate and the reserved lane; implements `SlotPool` | `Admission` |
| `EscalationBudget` | paid calls under caps and daily limits | `Budget` |
| `RagRefresh`, `RagRefresh_proofs` | one source's refresh, its state files and AnythingLLM | `RagSafety`, `RagServed`, `RagEmbedRetry` |
| `ProfileSwap` | guard, webhook, script, chat unit | `SwapOneAlias` |
| `AdmissionBudgetSwap_proofs` | theorems about the gate, the broker and the swap | |
| `RunnerDispatch` | the dispatcher and its queue of issues | `Dispatch` |
| `RunnerTask` | one claimed task: clone, ref, run, report | `Dispatch` |
| `RunnerDispatch_proofs` | theorems about both | |
| `RouterKeys`, `KeyRenewal` | keys issued, revoked, re-read; the runner's key renewed | `Router` |
| `RouterRequest` | a request of any route to its last frame, the router's tool loop | `Router`, `RouterToolWedge` |
| `ToolStream`, `SearchCache`, `WebFetch` | tool calls reassembled; cached searches; guarded fetches | `Router` |
| `IdleRestart` | the idle-gated restart of the chat server | `Router` |
| `Router` | the seven modules above together | `Router`, `RouterToolWedge` |
| `Router_proofs` | theorems about all of them | |
| `HistoryStore` | the dashboard's history: queue, writer, flush, backlog | `Dashboard` |
| `RequestTracker`, `JournalFollower`, `StreamServer`, `HubSources` | the dashboard's other threads | `Dashboard` |
| `MemoryBridge` | the memory vault's MCP bridge | `Dashboard` |
| `Dashboard`, `Dashboard_proofs` | the six modules above together; theorems about all of them | `Dashboard` |
| `ReviewPipeline`, `ReviewPipeline_proofs` | the harness's threads and queues: implement, review, lead fix | `Workforce` |
| `Grading`, `LoopMetric`, `RunWindow` | grading, the loop metric, the window a run is measured in | `Workforce` |
| `Workforce`, `Workforce_proofs` | the four above together, the pipeline under three sets of flags; theorems about all of them | `Workforce` |
| `LabHost`, `SpecService`, `SpecDiff`, `LabProbes`, `LabRules`, `Depot` | the VCF lab's tools | `Lab` |
| `Lab`, `Lab_proofs` | the six above together; theorems about all of them | `Lab` |
| `MC...` | instances for TLC | |

A module of its own exists where the code has state of its own. `MCRunnerDispatch` (which extends
`RunnerDispatch` and `RunnerTask`), `Router` (which extends `RouterKeys`), `Dashboard` (`HistoryStore`),
`Workforce` (`ReviewPipeline`) and `Lab` compose modules that share no variable, the others as instances.
Their `part` says which of them moves. A state of the product is a tuple of states of its parts and
a step moves one of them, so a predicate over one part's variables holds of the product iff it holds while
the others rest in their initial state, and a liveness property of a part depends on that part's fairness
only: the sizes add up instead of multiplying, and nothing is lost.

The order was: what every request passes first, then what spends money, then what can destroy data silently,
then what decides which model answers, then the unattended loop on top; then the rest of the router, the
dashboard, the lab and the harness; then proofs, in the order of the modules.

What would come next:

1. Proofs for the grading, the loop metric and the window, in the way `Dashboard_proofs` does it: a composition
   with constants, one inductive invariant per part.
2. An abstract specification for `EscalationBudget` (an account with holds and postings) and one for
   `RunnerDispatch` (a task is untouched, claimed, or answered once), each with a refinement mapping.
3. A composition of `ProfileSwap` with the slot of `ChatAdmission`, so that the time between guard and
   upstream call has its real length, and a second process in `RagRefresh`.
4. `wf-run-control.sh` (run ids, key files) and the fan bridge's control loop.

## 3. How the models correspond to the code

Conventions. An action is what runs between two points where something else can run: an await that really
suspends, a command of a script, a call to a remote service. A helper whose effect is one value is an
operator with the source's name or idea. A choice the code leaves to the world (an upload fails, an answer
is lost) is a disjunct.

### ChatAdmission
A request is two coroutines: `body` is `hold_slot`, `acq` the task that runs `gate.acquire()`. They are
kept apart because the client can leave (`GiveUp`) at any await of the first, when the second may be in any
place: `AfterGiveUp` is the `finally` block, `EnterLane`, `EnterChat`, `SleepOnChat`, `ReleaseChat`,
`ReleaseLane` are the gates' steps between awaits. `asleep` is the condition's wait list. `FetchSlots` and
`ApplySlots` are the two halves of `refresh_capacity_once`, with the await between them; several coroutines
run it. `cap` changes only in `ApplySlots`, and the lane's capacity is derived from it at each look.

### EscalationBudget
`handle()` runs without suspending up to `_post`, so `Reserve`, `RefuseBudget`, `RefuseDuplicate` and
`RefuseUnfit` are single steps; this is exactly the fact the budget relies on. `PostReturns` has a disjunct
per way `_post` can come back; `Settle` is `Ledger.settle`, including the append that fails. `billed` is a
history variable: what Anthropic has charged, which the program cannot read. `Restart` drops `pending`.
Each call appends at most one row, so the ledger is a function from calls to rows. Costs are small integers.
Every answered 200 is taken to carry its usage block, as the API documents. The grammar of briefs, the streak
of rejections (it changes only a text) and the footer are left out.

### RagRefresh
`tracked` is documents.json, `due` and `outcome` the manifest, `proposals` the `_proposals` directory,
`uploaded` and `attached` AnythingLLM; the rest is the memory of the running process, forgotten when it ends.
`StartRun` is collection, `plan.compute` and `safety_check` (nothing is written before the plan is accepted);
`Upload*` one upload with the save that follows it; `DropRemoved` the removals' save and the start of the
embedding pass; `EmbedBatch` one `update-embeddings` call; `CleanUp` is `cleanup_interrupted_refresh.py`. The
`May...` constants switch what can go wrong, so that a liveness run can exclude what the code does not recover
from. A text is its own hash. The order of uploads within adds and within updates is left open.

### ProfileSwap
`pc` is where `chat()` and `trigger_swap_and_wait` stand for a request; `seen` is the guard's `active`;
`cache` is `_active_backend_cache`; `lock` is `_swap_lock`; `scripts` holds a run of `swap-chat-model.sh`
started by the webhook and one by an operator. The script's steps are its commands that change something:
check, provision (config.env and unit), restart, wait. systemd may call the unit active before the model
answers, and a crashed unit is restarted with whatever the unit file says. The chat slot is not a variable
here: waiting for it is the time between the step to `slot` and `Forward`. (A streamed request on the swap
path takes the slot before it swaps; as far as this module can tell that only shortens the same interval.)
The probe under the lock and the final poll are one step each, the guard's own probe is two.

### RunnerDispatch
GitHub is `labels`, `reported` and `halt`; the process is `pc`, `queue`, the two answers `pick` keeps per
repo and cycle, and `todo`, the calls a handler still has to make. A handler is the sequence it puts into
`todo`, so every order of comment and label edit is the code's, and an exception or a kill can come between
any two. `EditFails` is an edit GitHub has applied in any part before reporting an error, followed by the
read-back that `relabel` does, which may fail too. `running` covers the preparation of the checkout and the
run; its outcomes are the disjuncts after it. `lost` is a history variable: the tasks whose run was cut
short by an exception, a kill or a reboot. A task in `lost` is what the owner repairs by setting
`runner:ready` again (`MakeReady`). The owner does not relabel the task that is being run, and the few
seconds GitHub's list filter may lag are not modelled.

### RunnerTask
One task the dispatcher has claimed. The clone is kept between tasks: its branches, remote-tracking refs, HEAD
and dirtiness are state, and `Push` and `EditClone` (origin and the owner) may move them between any two
commands. A history is a prefix order on a few commits. `Fetch`, `Switch`, `Detach`, `Pull` and the mirror
update are git's commands one by one, `Verify` the comparison of HEAD with the sha of the issue. What the agent
prints is a sequence of blocks, each somebody's report or the preamble's template; `Answer` and `ReadScript`
are `finish()` and the script's report. Assumed: the report of a script is the file it wrote.

### RouterKeys, KeyRenewal, IdleRestart
`RouterKeys` has one actor per `router-keys` process: lock, load, mint or remove, save by rename. The router's
`authenticate` never awaits, but its stat and its read are two steps because the file is other processes'.
`KeyRenewal` has a step per command of the script; `Ends` is `set -e`, a broken ssh or a boot: the command may
have done its work all the same. `IdleRestart` keeps apart the script's three looks (slots twice, then
/healthz) and its restart; requests, the server and the router move in between. A queued request has no other
one to wait for, so it does not stay queued for `IDLE_MIN`.

### RouterRequest, ToolStream, SearchCache, WebFetch
A request is chosen with route, principal, alias, media, length and tools; `Refusals` is the list of checks of
its route in the code's order, and the first that applies answers. Prompt sizes, media kinds and texts are members of small
sets. `Generate`, `ReaderGetsChunk`, `ReaderStops` and `End` are `sse_stream_with_keepalive`'s generator and
its reader task over the queue between them; `Turn` and `RunTool` are the tool loops. The chat server may
answer, fail or be silent at each point and owes nothing. `ToolStream` cuts the bytes of interleaved deltas
anywhere; an event's payload is one line, as the server writes it. `SearchCache` lets lookups, upstream answers and
stores of several handlers interleave; `WebFetch`
chooses a new DNS answer at each hop.

### Dashboard
`RequestTracker`: the journal lines of the chat server reach the tracker in order but only while journalctl is
attached; a slots poll is a fetch outside the lock and an application under it. Task ids start again with every
server run. The loops over the slots of a poll and over the open rows are one step in closed form (`EachSlot`): a
slot's turn reads and writes that slot's row alone and puts at most this row, under a key that names the slot, into
the history, so the turns commute. The first line of a cycle is what says that the journal is up (`report_up`), so
journalctl does not die between the two. `HistoryStore`: the adding thread, the writer and a flush interleave at every queue operation and
flag. `JournalFollower`: the loop, one watcher per child and `stop()`. `StreamServer`: a thread per connection,
peers that leave or stall. `HubSources`: marks of good and stale, keys re-read after a 401, counters that
reset. `MemoryBridge`: requests with their own space in a context variable, each remote call a step.

### Lab
`LabHost` follows a host from its inventory entry to commissioning; each `%firstboot` command is a step that
works only if what it needs is up. `SpecService` runs the layers of one call; what a layer finds, refuses or
raises is chosen when it looks. `SpecDiff` compares documents leaf by leaf. `LabProbes` keeps lookups on threads
that are left behind at their deadline. `LabRules` is arithmetic: the closed forms of the rules beside a
definition that counts, with the octet reduced from 256 to 8. `Depot`: files are the catalogue's content, other bytes
of that size, a part, or absent; a publish may fail, be interrupted or be killed in the middle of a copy.

### Workforce
`ReviewPipeline`: a thread per implementer and per review lane, queues under one condition. A turn is one step
with the outcomes the harness tells apart; workers go away and return, and the health monitor believes what it
saw last. `Grading`: a path is the snapshot's, the agent's, a symlink, the hidden test, or nothing; the agent's
processes run until their scope is killed. `LoopMetric` is the scan of `episodes()` beside the definition of a
loop. `RunWindow`: three units stand for the lists of the script, each step of `open` and `close` may be its last
and the host may be booted between any two; `run` is what `runmeta.validity` makes of two stamps.

## 4. The runs

| Run | Instance | Shows |
|---|---|---|
| `Admission` | 1 owner, 2 scoped requests, reserve 1, layouts of 1 and 3 slots, initial capacity 2, loop and swap refreshing | both counters exact, no lost wake-up, admission keeps the reserve, refines `SlotPool`, every request settles, capacity follows the server |
| `Budget` | 2 calls, 2 briefs, 3 aliases, limits 2 shared and 1, caps 4 a day and 7 a month, window of one tick, 3 days over 2 months | spend in one place, rows cover bills, caps hold up to overlong answers, limits count calls in flight, no paid duplicate, reservations end |
| `RagSafety` | 2 pages, one adopted, 2 texts, batches of 1, everything may fail | hashes describe files, no double attachment, the current document is never detached, listed pages stay, mass removals are approved ones |
| `RagServed` | 2 pages, 2 changes of the source, uploads fail, pages are skipped, no embedding failure | an applied run serves what it extracted, and the corpus converges |
| `RagEmbedRetry` | 2 pages, an embedding batch fails | **violated**: a later run does not attach what failed |
| `SwapOneAlias` | 3 requests (streamed, plain, scoped) for one profile, operator swapping to it, crashes, failures at each step | lock exact, right model, no needless swap, everybody answered |
| `Dispatch` | 3 issues (tier b, script, refused) in 2 repos, 2 tries per edit, 1 aborted run, 2 owner actions; 2 tasks in one clone | labels agree with reports, nothing stranded, reported once, queue never blocked; the commit asked for runs, no local work lost, a clean PASS is the task's own |
| `Router` | 2 key administrators, 3 saves; 3 aliases on 2 backends, 2 turns of 2 calls and 2 chunks; 2 clients, 3 queries, cache of 2; 3 hosts, 2 redirects; 2 calls in 2 parts; 4 runner keys of 3 days; 1 request beside the restart | `KeysTakeEffect`, `OnlyCheckedLeaves`, `AnswersAreWhole`, `EveryAnswerEnds` |
| `RouterToolWedge` | the same | **violated**: a silent server inside a streamed tool iteration is never given up |
| `Dashboard` | 1 slot, 2 server runs of 2 tasks, 1 journal gap; 3 rows, queue of 2, backlog of 1; 3 followed children; 3 connections; 2 sources; 2 requests in 2 spaces | `HistoryIsHonest`, `ShowsWhatHappened`, `NoRowOverwritten`, `NothingHangs` |
| `Lab` | every inventory entry of the shapes named in `MCLab`; 2 calls of a service; 2 changed leaves; 2 files, 2 commands | `OnlyTheDeclared`, `CleanIsEarned`, `LabSettles` |
| `Workforce` | 2 tasks; 1 implementer and 1 lane on a worker with 1 outage and budget 2; 2 implementers; solo; 2 edits of 5 paths; all sessions of up to 12 calls over 2 keys; 3 units, 3 invocations of chat | `OutcomesAreTrue`, `MeasuredRight`, `RunEnds` |

The properties of the composed runs are those of the module they extend (`KeysTakeEffect`, `HistoryIsHonest`,
`OutcomesAreTrue`, `TaskIsTrue`) and conjunctions of the other parts' own, each stated in its module with the
code it is about: for example `ShowsWhatHappened` contains `ViewersCounted` of `StreamServer` and `StoredWhereAsked`
of `MemoryBridge`, `AnswersAreWhole` contains `RunnerKeepsKey` of `KeyRenewal`. The type invariants of the parts are
conjoined with the first of them.

Why the bounds are enough for what they show:

- `Admission`: two scoped requests are needed for one to be past the lane while another is queued on it, and
  the owner to occupy the chat gate meanwhile; layouts below, at and above the number of requests are all
  reached; two refreshers are needed for an older answer to overwrite a newer one. The proofs lift the bounds
  for everything but liveness.
- `Budget`: one call may be in flight while another is judged; day and month both roll over, and a call can be
  admitted in one period and answered in the next; the day's cap holds one dear or two cheap calls.
- `RagSafety`, `RagServed`: two pages suffice to pair one page's addition with another's removal in a batch,
  and to have one removal below and two above the thresholds; two or three files let a page be replaced.
- `SwapOneAlias`: with three requests one holds the lock, one waits for it and one is refused or fails. Only
  one profile is asked for, because with two `ServedByWanted` is false (see below).
- `Dispatch`: `RELABEL_TRIES` is 4 in the code and 2 here: one retry after one half-applied edit already
  reaches every combination of what is left over; a third try repeats the second's situation. Two tasks in one
  clone are one more than a task that finds a fresh clone.
- `Router`: two administrators race for the lock and a third save can undo a second's; a router's signature can
  be taken before and its content after a save. Two turns let a conversation hold the results of an earlier one.
  Three queries overflow a cache of two. Four runner keys let a renewal fail twice and still finish.
- `Dashboard`: two runs repeat task ids; one gap hides a restart; a backlog of one overflows with three rows.
- `Lab`: an octet of 8 has every boundary 256 has; two files let one be whole and one not.
- `Workforce`: an outage in a review and the return of the worker; two tasks let a thread find the queue empty
  while the other's rework is still to come. Twelve calls hold three repetitions of the longest period (4).
  Three invocations of chat are a restart and a boot.

`CHECK_DEADLOCK FALSE` in the swap, dispatch, router, dashboard, lab and workforce configurations: there the
requests, tasks or owner's actions are finitely many, and once all are ended nothing happens any more.

Comments that say "Mutant of X" or "for comparison" mark a plausible wrong version of the definition after it.
Nothing of the specifications uses them; they record which mistake a property excludes, and substituting one
for its original makes TLC find the violation. `PROJECT.json` names one per property.

### Where the code and its own description differ

Two have a run that ends in a counterexample.

- `refresh.py:417-419` says a failed embedding batch is re-attempted by re-running the source. The list of
  paths to attach is in memory only; the next run sees equal hashes and plans nothing (`RagEmbedRetry`).
- `router-app.py:197-198` says `MAX_STREAM_SECONDS` caps the whole stream. The streamed tool loop reads its
  clock only between iterations and reads an iteration's stream without a timeout (`RouterToolWedge`).

Seen while modelling; the properties are stated so that they hold of the code as it is.

Router and swap:
- `router-app.py:1820-1822` promises a 409 rather than an answer from the wrong model. The guard is not
  repeated after the wait for the slot (1918-1974): with requests for two profiles one is answered by the other's.
- `swap-chat-model.sh:64-65` calls a re-run with the loaded profile a no-op. "Loaded" is read from the unit
  file (547), which may be ahead of the running unit after an interrupted run.
- After the router has given up on a swap, the webhook still answers 409 until its script ends
  (`swap-webhook.py:104-105`).
- After a layout shrinks, scoped requests admitted before can occupy the reserved slots until they end
  (`workforce_lane.py:4-6` says the last slots always stay free); `AdmissionKeepsReserve` is about the instant of admission.
- `escalation.py:37-38` speaks of an overshoot of one answer; it is one answer for every call in flight. A
  restart loses every call in flight (377-378).

RAG:
- `refresh.py:349-350` promises that the corpus serves what the handler extracted. Adopted entries are excluded
  from the removal queue (378), so their raw text is served beside the extracted one.
- A batch of `plan_embed_batches` pairs the additions of some pages with the removals of others (511-513): an
  interrupted pass can leave a page with neither document.

Runner:
- A script task's sha is only checked to be in the object store, not on the named branch; an echoed preamble
  template behind a real report turns it into BLOCKED; a script that exits 76 itself is taken for "not ready".
- `agent-runner-key-renew.sh` (`docs/agent-runner.md:82`, "it revokes and re-adds the key"): an expired entry
  is not listed as active, so it is not revoked and `add` refuses the name; when the push fails after the add,
  the fresh entry makes later daily runs say "no renewal needed" while the runner's key is dead; a left-over
  `--out` file makes every later add refuse. `OwnerClears` and a forced run repair all three.
- `wf-window.sh`: the restart timer's job is not in `BUSY_UNITS`, so it may restart chat inside the window (the
  stamps show it); a unit that could not be read is saved as '' and left stopped by `close`;
  `runmeta.validity` reads `window_open`, which is also true after an open that failed, and not `perturbers_active`; two
  opens at once race on the state file.
- `wf-run-control.sh`: a second start of an id before its directory exists passes the single-use check, rewrites
  the key file, and leaves it behind when systemd-run refuses the unit.
- `chat-restart-if-idle.sh`: a tool loop longer than `IDLE_MIN` is idle between its turns; a router restart
  makes `seconds_since_chat` null, and the job then skips until the next chat.

Dashboard and memory:
- A flush that times out leaves a noop that clears a later loss (`history.py:218`); a start missed in a journal
  gap shorter than `unreachable_s` lets two requests share a key (`tracker.py:143`; the design of 2026-10-16
  says otherwise at line 96).
- The server's 503 is written while the lock is held (`server.py:175-177`); any 4xx of the vault makes a space
  known (`memory-vault-bridge.py:87`); `mcp-sdg-server.py:84-88` gives "a-b" and "a_b" one slug.

Lab and depot:
- `vcf_diff_spec` collapses list items of one name and takes null for absent; a YAML date breaks `json.dumps`
  outside `call_handler`. Overlapping TEP ranges are counted twice (`rules/network.py:139`). The probes' vantage note
  counts lookups that were issued, not answered (`probes.py:765`).
- The depot's dry run says "consistent" though nothing was copied; a served file of the right size and wrong
  content is skipped; the last confirmation is by size; SIGKILL leaves the scratch file.

Workforce:
- A review budget above `max_rounds + 1` lets the lead's fix run on a worker's lane (`pipeline.py:434`, `cli.py:344`), a
  third GPU turn; `RunsAreSound` claims the slots and lanes for budgets up to that. `DirectLauncher` leaves processes that called setsid (only the
  scope launcher is modelled); the agent's code can write the JUnit report itself.

## 5. Fairness

| Module | Assumed | Because |
|---|---|---|
| `ChatAdmission` | weak fairness of every request's own steps, of the loop's fetch and of every apply | asyncio runs what can run; `MAX_STREAM_SECONDS` and `CHAT_TIMEOUT` end a stream; `/props` is read with a timeout. A client never has to leave, a server never has to restart, a swap never has to refresh |
| `EscalationBudget` | weak fairness of the return of `_post` | the httpx timeouts and the outer `wait_for` |
| `RagRefresh` | weak fairness of the interval, of a due run and of its steps; strong fairness of a run that fetches a given page and of a successful upload of it | the timer; `_prioritise` fetches first what was fetched longest ago, so no page is left out for ever; an upload that is repeated for ever succeeds some time |
| `ProfileSwap` | weak fairness of every request's own steps | each wait has a timeout except the one for the swap lock, whose holders all have one. Neither the script, the unit nor the operator is assumed to make progress |
| `RunnerDispatch` | weak fairness of the steps of a cycle; strong fairness of a cycle with the lane open, of a positive preflight and of an answer | every call has a timeout; the timer fires every five minutes. A lane that never opens, a sandbox that is never ready, or a model swapped under every run would requeue a task for ever, as the code intends |
| `RouterRequest` | weak fairness of the router's own steps and of its clocks | asyncio and its timers; the chat server and the client owe nothing |
| Dashboard | weak fairness of the poll and the follower's loop, of `stop()`, of each connection's thread, and of the chat server starting and working | threads run, joins and sockets have timeouts, systemd starts the server again. Neither a viewer nor the database owes anything |
| Lab | weak fairness of a host booting and running `%firstboot`, of the operator taking the boot directory away, and of the probing thread | the last two are what the procedure in the docs and the deadline of every lookup provide; a resolver owes nothing |
| `ReviewPipeline` | weak fairness of each thread and of the health monitor | turns end by their time limits; a worker never has to return |

The other modules are checked for safety alone.

## 6. Proofs

Constants are restricted only by the `ASSUME`s of the modules (finite sets of requests and calls, naturals for
capacities, prices and caps, the owner and scoped requests disjoint), which TLC evaluates in each run.

`AdmissionBudgetSwap_proofs`, the gate:
- `AdmissionIInv` is the type invariant, the two counter equations and the wake-up invariant; `PcInv` ties the two
  coroutines of a request (a streaming body has a granted acquire; a body that never arrived has none, only
  scoped requests stand at the lane). `PcInv` is needed because `EndBody` releases on the strength of the body's
  state alone, and the counter equation is preserved only if the acquire side really is granted.
- `HoldersStep` says how the sets of holders change when one coroutine moves; `QuietStep` and `NeutralStep`
  cover the actions that do not touch the counters, and one lemma each the four that do.
- From `AdmissionInvariance` follow `AdmissionTypeCorrect`, `NoSlotLeaked`, `NoWakeupLost`.
  `ReserveKeptAtAdmission` uses that the lane's holders include the scoped requests being served, and the second look in `EnterChat`.
- `ImplementsPool`: `EnterChat` is `Take`, `ReleaseChat` is `Give`, `ApplySlots` is `Resize`, everything else
  is a stutter.

The same module, the broker:
- `PhaseOK` says, for each phase of a call, whether it is reserved, recorded and charged. It is inductive together
  with the type invariant and gives `BooksAreTrue`. That spend is in one place is not inductive by itself: it does
  not say that a call in flight is reserved and has not been charged before (that is the rule that only an unbilled
  attempt is retried).
- `CallsRationed` rests on cardinalities of the sets of calls a limit counts, which grow by one where a call is
  admitted, and on the order of the times a brief was sent and ended.
- `CapsHold` (`SpendWithinCaps`) is about sums. `Load` weighs a call by its row once it has one and by its
  reservation until then. `CapsOK` bounds the load of each day and month by the cap plus `Extra` for every call
  whose row came out dearer than its reservation; a call is admitted only below the cap, and settling it turns
  its weight from reservation to row. A total is the number of units the calls of a set are worth (`Total`, a
  cardinality), so that adding a call or comparing two totals is a fact about disjoint unions and subsets, and no
  induction is needed.

`RagRefresh_proofs`:
- `TypeCorrect`, `StateTrue`, `RemovalsMeant`. The inductive invariant says, for each phase of a run, how the plan in
  memory relates to documents.json and to the files in AnythingLLM: what is queued for attachment has been uploaded,
  is not attached yet and is queued once; what is still to be uploaded or dropped is as it was when the plan was
  made; what is queued for detachment is not what the state points to. The properties alone say nothing of the
  queues, and `EmbedBatch` attaches and detaches on their word.
- `AppliedServes` (`ServedIsApplied`) has the hypothesis `Undisturbed`: nothing adopted, no empty answer of the
  uploader, no failing batch, no death, which is what the run `RagServed` assumes too; with any of them the property is
  false (section 4). Uploads may fail and pages may be skipped. `ServeInv` says that the queues hold exactly the
  difference between what was attached when the run began and what the state points to now.

`AdmissionBudgetSwap_proofs`, the swap:
- `SwapTypeCorrect` and `SwapLockSound`. The two conjuncts of `SwapLockNotLeaked` are inductive together with the type
  invariant; the second is what makes the webhook's exit release the right request's lock.
- `WantedModelServes` (`ServedByWanted`) and `SwapsAreNeeded` (`NoNeedlessSwap`) assume that requests and operator
  ask for one profile (`Only(w)`), as the run does; with two the first is false. `OnlyInv`: from the moment that profile's
  model has answered once, unit file, boot and service can only be that profile or down, and whatever a request
  or a script believes about it was read after that moment.

`RunnerDispatch_proofs`:
- `TypeCorrect`, `LabelsAreTrue`, `NoTaskRunTwice`. The strengthening ties `todo` to the labels and the reports: what
  remains to be sent always leads to the labels the handler means, whatever part of an edit has been applied. The
  labels alone are not inductive, because in the middle of a handler they say less than what has been posted.
- `TaskHolds` (`TaskIsTrue`) is about `RunnerTask`: `TaskInv` says what the clone is after each command of the preparation
  (`Prepared`) and what an answer rests on (`Answers`). The history of a commit is the least set that is closed
  under parents, so that its transitivity needs no induction.

`Router_proofs`: `RouterInv` is a conjunction of one inductive invariant per part; a step of the router is a step or a
stutter of each (`StepsAreParts`).
- `KeysHold` (`KeysTakeEffect`): `IInv` follows a change from the process that makes it to the request that must
  see it. What a process under the lock has loaded is still the file's content, or the operator has replaced the
  file; a signature stands for one content; an authentication matches a content the file has had since it began.
  Without the second, an equal signature would prove nothing about the copy in memory.
- `RequestsAreChecked` (`OnlyCheckedLeaves`): `ReqGate` says which refusals a request has passed at each place it can be;
  `FetchInv` that what is connected to is the address that was vetted, not the name.
- `AnswersStayWhole` (`AnswersAreWhole`): `ReqFrames` (what was written and what is still in the reader's queue are
  consecutive chunks, and an ending is the last frame), `ReqTalk` (settled turns, then the turn in hand with the
  calls not answered yet), `CacheInv` (one genuine entry per query), `ToolInv`, `RenewInv`, `IdleInv`. `ToolInv` has the
  idea: what is under way, in the transport and in the buffer together, is a list of fragments each before its blank
  line, and it is exactly what the calls put together so far lack, in order; cutting the bytes elsewhere does not
  change that list.

`ReviewPipeline_proofs`: `PipelineTrue` (`OutcomesAreTrue`). Each task has one home, a queue, one thread's hands
or its record (`OneHome`, `QueuedOnce`, `HeldOnce`), and the home tells how far it is (`Phases`, `HandPhases`):
as many reviews as rounds before a turn, one round more before a review, no review beyond the budget, and none
left to spend before a fix. The outcome is read off the home the task comes from.

`Workforce_proofs`: `HarnessMeasuresRight` (`MeasuredRight`). `WorkforceInv` is the pipeline's invariant and that of the
part that moves; the runs without a pool and without reviews are instances of `ReviewPipeline_proofs`, whose theorems
are used for their constants.
- `LanesOnlyReview`: a task in a lane's hands has failed there less often than would force it to the lead (`HandPhases`),
  and a fix follows a review that leaves budget after round `max_rounds + 1`, which a budget of at most that many
  reviews never does.
- `GradeInv`: what may leave the workspace is a declared file that is not a link, from the moment it is listed; the
  phases say who may still write. `PassesMeans` is `grade()`'s verdict written out.
- `WindowInv`: what `open` saved is what it found, at each step of opening and closing (`WindowKept`); while a window is
  open nothing that perturbs can be on, and a restart of chat between two stamps shows in the second (`WindowSteady`).
- `LoopsInv`: episodes found are loops and lie in order before the scan, and what the scan has passed over is inside one
  or repeats too seldom. `LoopRepeats` says that the code's count of equal slices and the definition (every call equals
  the one a period later) agree, which takes induction over the repetitions (`Induction`, derived as for the lab) and
  division with remainder; `RepsIs` that the count exists at all.

`Dashboard_proofs`: one inductive invariant per part; while a part moves the others rest.
- `HistoryHolds` (`HistoryIsHonest`): `IInv`. Each row added has one home (queue, writer's hand, backlog, database,
  lost); as long as no flush gave up there is at most one noop, the one waited for, no row added before it is behind
  it, and a row lost since the last call has set the flag that the answer is read from.
- `DashboardHolds` (`ShowsWhatHappened`) and `NoOverwriting` (`NoRowOverwritten`): `TrackInv` has the idea. The tracker
  is about one server run, that of the line it reads next (`View`), or it is blind. Unless it is blind its open rows, its
  cancelled tasks and every key of the present epoch are of that run (`RowsOK`), so a new row can only replace one of its
  own request. The journal is the rest of that run's lines and then starts of later runs, each one more than the one
  before (`LineOK`). A reading may be applied without a journal only while it is of that run (`ReadingOK`). With a journal
  never cut each request the server accepted is in the history, in an open row or in a line not read yet, and in one of
  them (`OnceOK`). `Ends`, `RowsAfter`, `EndsKeep` and `OnceEnds` say once what it does to the rows when some of them end,
  and each handler (a line, a restart, an answer, a silence) is shown to be such an end or an opening. That no slot gets a
  task id beyond the bound needs a counting argument (`TaskLeft`).
- `FollowInv` (one cycle at a time, and an older cycle's watcher finds it ended), `StreamInv` (both counters are the
  cardinalities of what they count), `HubInv`, `MemoryInv`.

`Lab_proofs`: `LabInv` has one inductive invariant per part.
- `LabKeepsToTheDeclared` (`OnlyTheDeclared`): `HostInv` says what the commands of `%firstboot` that are done have
  done, and that the rest are in the script's order; that what is on disk was written by files that were rendered
  from an entry without a refusal. `DepotInv` ties a copy under way to the staged file whose hash was taken.
- `LabCleanIsEarned` (`CleanIsEarned`): `SvcInv` accounts for each layer (run, or named as skipped) and for each
  finding that was dropped (under a subtree the schema refused); `ProbeInv` for each host already visited; `DiffInv`
  for each leaf already passed.
- The rules' arithmetic (`RulesCountRight`) is proved against counting for every pool, range and memory size. The
  library's induction theorems cannot be instantiated here, so the least-number principle is derived from
  the well-foundedness of strict inclusion on finite sets (`Least`), and induction from it. `CountCounts` says that
  `_count_congruent` is a cardinality; `SumsExist` that the recursive sum is a function, by gluing its initial pieces
  together, which makes `SumFacts` and `SumWithout` facts about it.

Only model-checked: the liveness properties. Liveness under fairness and `ENABLED` are beyond the prover. Every other
property of a passing run is stated by a theorem.

## 7. Not modelled

- Router: `/v1/completions` and the Anthropic endpoint share `RouterRequest`'s exchange; the embed and rerank
  semaphore is asyncio's; byte-level image checks are one choice.
- RAG: parsing handlers; two refresh runs at once (the code has no lock against it), a documents.json torn by a crash
  in the middle of a write, the cleanup beside a running refresh.
- Dashboard: the poll timers' arithmetic, pruning, snapshots and series, the page.
- Lab: naming and `.local` rules, workarounds for consumer hardware, the field layout of rendered files, the
  certificate, power and DNS scripts (a remote call and its check at a time).
- Workforce: analysis, bundles, scans, reports, replay, and the gate's checks of one tree.
- `wf-run-control.sh`; the fan and power loops over hardware readings; the deployment scripts, which are idempotent
  I/O; the MCP adapter, which keeps no state.
- The router's restart during a swap.

## 8. Running

```
tlc -workers 2 -config Admission.cfg ChatAdmission        # likewise the other configurations
tlapm AdmissionBudgetSwap_proofs.tla
```

`PROJECT.json` says which module each configuration belongs to, which source lines every definition models,
the hazards of the code and the properties that answer them, and the mutant that each property catches.
