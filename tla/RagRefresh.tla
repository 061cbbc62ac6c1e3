----------------------------- MODULE RagRefresh -----------------------------
(***************************************************************************)
(* The corpus refresh of one source (scripts/rag/refresh.py, lib/plan.py): *)
(* collect the documents of an upstream site, diff them against the        *)
(* persisted documents.json, upload what is new or changed to AnythingLLM, *)
(* and attach and detach documents in batches of embedding calls.          *)
(*                                                                         *)
(* documents.json (tracked), the manifest (due, outcome), the proposals    *)
(* and AnythingLLM (uploaded, attached) outlive a run; everything else is  *)
(* the memory of the running process and is lost when it dies.             *)
(*                                                                         *)
(* A text is a positive integer and stands for its own hash.  A docpath is *)
(* <<u, k>>: the k-th file uploaded for the url u.                         *)
(***************************************************************************)
EXTENDS Integers, Sequences, FiniteSets, SequencesExt

CONSTANTS
    Urls,
    Adopted,            \* urls taken over by migrate_backfill.py
    Texts,              \* what upstream pages can say, a set of positive integers
    BatchSize,          \* embed_batch_size
    RemovalFloor,       \* fewer removals than this are never held back
    MaxDeletePct,       \* max_delete_pct, in percent
    AdditiveOnly,       \* removal_policy is "additive_only"
    Enumerates,         \* the handler reports discovered_urls
    MayHide, MaySkip,   \* enumeration may hide pages, fetching may leave pages out
    MayFailUpload, MayAnswerEmpty, MayFailEmbed, MayDie,   \* what can go wrong
    MaxChanges,         \* bound: changes upstream
    MaxUploads          \* bound: files uploaded for one url

ASSUME RagAssumption ==
    /\ IsFiniteSet(Urls) /\ Adopted \subseteq Urls
    /\ Texts \subseteq Nat \ {0}
    /\ BatchSize \in Nat \ {0} /\ RemovalFloor \in Nat /\ MaxDeletePct \in Nat
    /\ {AdditiveOnly, Enumerates, MayHide, MaySkip, MayFailUpload, MayAnswerEmpty, MayFailEmbed, MayDie} \subseteq BOOLEAN
    /\ MaxChanges \in Nat /\ MaxUploads \in Nat \ {0}

VARIABLES
    live, changes,              \* the upstream site: the text of each page, or NoText
    tracked, due, outcome, proposals,       \* the state directory
    uploaded, attached,         \* AnythingLLM: files per url, docpaths in the workspace
    pc, persisted, texts, present, approved, toUpload, gone, addPaths, rmPaths

upstream == <<live, changes>>
plan     == <<persisted, texts, present, approved, gone>>
vars == <<upstream, tracked, due, outcome, proposals, uploaded, attached,
          pc, plan, toUpload, addPaths, rmPaths>>

NoText   == 0           \* the page does not exist, was not fetched, is not tracked
Migrated == -1          \* the placeholder hash of an adopted document, and its raw text
NoPath   == 0
Untracked == [hash |-> NoText, path |-> NoPath]
Entries   == [hash : Texts \cup {NoText, Migrated}, path : 0..MaxUploads]
DocPaths  == Urls \X (1..MaxUploads)

TypeOK ==
    /\ live \in [Urls -> Texts \cup {NoText}] /\ changes \in 0..MaxChanges
    /\ tracked \in [Urls -> Entries] /\ persisted \in [Urls -> Entries]
    /\ due \in BOOLEAN
    /\ outcome \in {"none", "applied", "embed_error", "died"}
    /\ proposals \subseteq SUBSET Urls
    /\ uploaded \in [Urls -> Seq(Texts \cup {Migrated})]
    /\ \A u \in Urls : Len(uploaded[u]) <= MaxUploads
    /\ attached \subseteq DocPaths
    /\ pc \in {"idle", "uploading", "embedding"}
    /\ texts \in [Urls -> Texts \cup {NoText}]
    /\ present \subseteq Urls /\ toUpload \subseteq Urls /\ gone \subseteq Urls
    /\ approved \subseteq SUBSET Urls /\ Cardinality(approved) <= 1
    /\ addPaths \in Seq(DocPaths) /\ rmPaths \in Seq(DocPaths)

Init ==
    /\ live \in [Urls -> Texts \cup {NoText}] /\ changes = 0
    /\ tracked = [u \in Urls |-> IF u \in Adopted THEN [hash |-> Migrated, path |-> 1] ELSE Untracked]
    /\ due = TRUE /\ outcome = "none" /\ proposals = {}
    /\ uploaded = [u \in Urls |-> IF u \in Adopted THEN <<Migrated>> ELSE <<>>]
    /\ attached = Adopted \X {1}
    /\ pc = "idle" /\ persisted = [u \in Urls |-> Untracked] /\ texts = [u \in Urls |-> NoText]
    /\ present = {} /\ approved = {} /\ toUpload = {} /\ gone = {}
    /\ addPaths = <<>> /\ rmPaths = <<>>

IsTracked(u) == tracked[u].hash # NoText
TrackedUrls  == {u \in Urls : IsTracked(u)}
CurrentPath(u) == <<u, tracked[u].path>>

-----------------------------------------------------------------------------
(* The world: pages change, and the refresh interval elapses.              *)

SourceChanges ==
    /\ changes < MaxChanges
    /\ changes' = changes + 1
    /\ \E u \in Urls, t \in Texts \cup {NoText} : t # live[u] /\ live' = [live EXCEPT ![u] = t]
    /\ UNCHANGED <<tracked, due, outcome, proposals, uploaded, attached, pc, plan, toUpload, addPaths, rmPaths>>

IntervalElapses ==
    /\ due' = TRUE
    /\ UNCHANGED <<upstream, tracked, outcome, proposals, uploaded, attached, pc, plan, toUpload, addPaths, rmPaths>>

-----------------------------------------------------------------------------
(* Collecting and planning.                                                *)

\* handler.collect(): a sitemap shard that cannot be read hides its pages, and
\* a page beyond the fetch budget or whose fetch fails is listed, not fetched.
Listings == LET existing == {u \in Urls : live[u] # NoText}
            IN  IF MayHide THEN SUBSET existing ELSE {existing}
Fetches(listed) == IF MaySkip THEN SUBSET listed ELSE {listed}

\* Mutants of StillThere and Stale: what was not fetched counts as gone, or as
\* changed.
OnlyFetched(listed, fetched) == fetched
AllStale(fetched) == {u \in Urls : tracked[u].hash # live[u]}

\* A handler that enumerates refuses an empty enumeration: collect() raises, and
\* the run ends with nothing changed.
Collected(listed) == Enumerates => listed # {}

\* plan.compute(): what still exists upstream, and what does not.
StillThere(listed, fetched) == IF Enumerates THEN listed ELSE fetched
Removes(there) == IF AdditiveOnly THEN {} ELSE TrackedUrls \ there
Stale(fetched) == {u \in fetched : tracked[u].hash # live[u]}

\* Plan.safety_check()
Unsafe(removes) ==
    /\ Cardinality(removes) >= RemovalFloor
    /\ removes # {}
    /\ Cardinality(removes) * 100 > MaxDeletePct * Cardinality(TrackedUrls)

\* The plan is accepted: a new run holds it in memory.
Begin(listed, fetched, proposal) ==
    /\ pc' = "uploading"
    /\ persisted' = tracked
    /\ texts' = [u \in Urls |-> IF u \in fetched THEN live[u] ELSE NoText]
    /\ present' = listed
    /\ approved' = proposal
    /\ toUpload' = Stale(fetched)
    /\ gone' = Removes(StillThere(listed, fetched))
    /\ addPaths' = <<>> /\ rmPaths' = <<>>
    /\ UNCHANGED <<upstream, tracked, due, outcome, proposals, uploaded, attached>>

\* The plan is written to _proposals/ and the run ends.
Halt(removes) ==
    /\ proposals' = proposals \cup {removes}
    /\ UNCHANGED <<upstream, tracked, due, outcome, uploaded, attached, pc, plan, toUpload, addPaths, rmPaths>>

\* The timer's run, when is_due(), or an operator's with --force.
StartRun(fetchable) ==
    /\ pc = "idle"
    /\ \E listed \in Listings : \E fetched \in Fetches(listed) :
          LET there == StillThere(listed, fetched) IN
          /\ Collected(listed) /\ fetchable \subseteq fetched
          /\ IF Unsafe(Removes(there)) THEN Halt(Removes(there)) ELSE Begin(listed, fetched, {})

\* Mutant of ApproveRun: the plan is not compared with the proposal.
ApproveUnchecked(proposal) ==
    /\ pc = "idle" /\ proposal \in proposals
    /\ \E listed \in Listings : \E fetched \in Fetches(listed) :
          Collected(listed) /\ Begin(listed, fetched, {proposal})

\* refresh.py --approve: no threshold, but nothing beyond what was approved.
ApproveRun(proposal) ==
    /\ pc = "idle" /\ proposal \in proposals
    /\ \E listed \in Listings : \E fetched \in Fetches(listed) :
          LET there == StillThere(listed, fetched) IN
          /\ Collected(listed)
          /\ IF Removes(there) \subseteq proposal THEN Begin(listed, fetched, {proposal})
                                                  ELSE Halt(Removes(there))

-----------------------------------------------------------------------------
(* Applying: uploads, one at a time, adds before updates.                  *)

NextUpload(u) ==
    /\ pc = "uploading" /\ u \in toUpload
    /\ persisted[u].hash # NoText => \A v \in toUpload : persisted[v].hash # NoText
    /\ toUpload' = toUpload \ {u}

\* Mutants of UploadFails: the new hash is saved; the old file is detached.
FailStampsHash(u) ==
    /\ MayFailUpload
    /\ NextUpload(u)
    /\ tracked' = [tracked EXCEPT ![u].hash = texts[u]]
    /\ UNCHANGED <<upstream, due, outcome, proposals, uploaded, attached, pc, plan, addPaths, rmPaths>>
FailDetachesOld(u) ==
    /\ MayFailUpload
    /\ NextUpload(u)
    /\ rmPaths' = IF persisted[u].path # NoPath THEN Append(rmPaths, <<u, persisted[u].path>>) ELSE rmPaths
    /\ UNCHANGED <<upstream, tracked, due, outcome, proposals, uploaded, attached, pc, plan, addPaths>>

UploadFails(u) ==
    /\ MayFailUpload
    /\ NextUpload(u)
    /\ UNCHANGED <<upstream, tracked, due, outcome, proposals, uploaded, attached, pc, plan, addPaths, rmPaths>>

\* Mutants of UploadSucceeds: the upload itself attaches the file
\* (addToWorkspaces); the replaced file is not detached.
UploadAttaches(u) ==
    LET k == Len(uploaded[u]) + 1 IN
    /\ k <= MaxUploads
    /\ NextUpload(u)
    /\ uploaded' = [uploaded EXCEPT ![u] = Append(@, texts[u])]
    /\ tracked' = [tracked EXCEPT ![u] = [hash |-> texts[u], path |-> k]]
    /\ addPaths' = Append(addPaths, <<u, k>>)
    /\ attached' = attached \cup {<<u, k>>}
    /\ UNCHANGED <<upstream, due, outcome, proposals, pc, plan, rmPaths>>
UploadKeepsOld(u) ==
    LET k == Len(uploaded[u]) + 1 IN
    /\ k <= MaxUploads
    /\ NextUpload(u)
    /\ uploaded' = [uploaded EXCEPT ![u] = Append(@, texts[u])]
    /\ tracked' = [tracked EXCEPT ![u] = [hash |-> texts[u], path |-> k]]
    /\ addPaths' = Append(addPaths, <<u, k>>)
    /\ UNCHANGED <<upstream, due, outcome, proposals, attached, pc, plan, rmPaths>>

\* The answer names the new file: it is queued for attachment, the file it
\* replaces for detachment, and documents.json is saved.
UploadSucceeds(u) ==
    LET k == Len(uploaded[u]) + 1
        old == persisted[u] IN
    /\ k <= MaxUploads
    /\ NextUpload(u)
    /\ uploaded' = [uploaded EXCEPT ![u] = Append(@, texts[u])]
    /\ tracked' = [tracked EXCEPT ![u] = [hash |-> texts[u], path |-> k]]
    /\ addPaths' = Append(addPaths, <<u, k>>)
    /\ rmPaths' = IF old.hash \notin {NoText, Migrated} /\ old.path # NoPath
                  THEN Append(rmPaths, <<u, old.path>>) ELSE rmPaths
    /\ UNCHANGED <<upstream, due, outcome, proposals, attached, pc, plan>>

\* The answer names no file: the new hash is saved all the same.
UploadUnnamed(u) ==
    /\ MayAnswerEmpty
    /\ NextUpload(u)
    /\ tracked' = [tracked EXCEPT ![u] = [hash |-> texts[u], path |-> NoPath]]
    /\ UNCHANGED <<upstream, due, outcome, proposals, uploaded, attached, pc, plan, addPaths, rmPaths>>

-----------------------------------------------------------------------------
(* The manifest, the removals and the embedding pass.                      *)

\* The process has ended: its memory is gone.
Forget ==
    /\ pc' = "idle"
    /\ persisted' = [u \in Urls |-> Untracked] /\ texts' = [u \in Urls |-> NoText]
    /\ present' = {} /\ approved' = {} /\ toUpload' = {} /\ gone' = {}
    /\ addPaths' = <<>> /\ rmPaths' = <<>>

\* _update_manifest(success=True), and the approved proposal is archived.
Succeed ==
    /\ due' = FALSE /\ outcome' = "applied"
    /\ proposals' = proposals \ approved
    /\ Forget

\* Planned removals leave documents.json before AnythingLLM is asked to detach
\* them; with nothing to attach or detach the run is over.
DropRemoved ==
    LET detach == SetToSeq({<<u, persisted[u].path>> : u \in {v \in gone : persisted[v].path # NoPath}}) IN
    /\ pc = "uploading" /\ toUpload = {}
    /\ tracked' = [u \in Urls |-> IF u \in gone THEN Untracked ELSE tracked[u]]
    /\ IF addPaths \o rmPaths \o detach = <<>>
       THEN Succeed
       ELSE /\ pc' = "embedding"
            /\ rmPaths' = rmPaths \o detach
            /\ UNCHANGED <<due, outcome, proposals, plan, toUpload, addPaths>>
    /\ UNCHANGED <<upstream, uploaded, attached>>

\* plan_embed_batches: the next BatchSize paths of either side go together.
Batch(s) == {s[i] : i \in 1..Min({BatchSize, Len(s)})}
Rest(s)  == SubSeq(s, BatchSize + 1, Len(s))

\* Mutant of EmbedBatch: as many batches as there are removals.
EmbedRemovals ==
    /\ pc = "embedding"
    /\ attached' = (attached \ Batch(rmPaths)) \cup Batch(addPaths)
    /\ IF Rest(rmPaths) = <<>>
       THEN Succeed
       ELSE /\ addPaths' = Rest(addPaths) /\ rmPaths' = Rest(rmPaths)
            /\ UNCHANGED <<due, outcome, proposals, pc, plan, toUpload>>
    /\ UNCHANGED <<upstream, tracked, uploaded>>

EmbedBatch ==
    /\ pc = "embedding"
    /\ attached' = (attached \ Batch(rmPaths)) \cup Batch(addPaths)
    /\ IF Rest(addPaths) \o Rest(rmPaths) = <<>>
       THEN Succeed
       ELSE /\ addPaths' = Rest(addPaths) /\ rmPaths' = Rest(rmPaths)
            /\ UNCHANGED <<due, outcome, proposals, pc, plan, toUpload>>
    /\ UNCHANGED <<upstream, tracked, uploaded>>

\* A timeout, an error or Ctrl-C: AnythingLLM may still have done the batch.
EmbedFails ==
    /\ MayFailEmbed
    /\ pc = "embedding"
    /\ \/ UNCHANGED attached
       \/ attached' = (attached \ Batch(rmPaths)) \cup Batch(addPaths)
    /\ outcome' = "embed_error"
    /\ Forget
    /\ UNCHANGED <<upstream, tracked, due, proposals, uploaded>>

\* The process is killed, possibly between an upload and saving its entry.
Die ==
    /\ MayDie
    /\ pc # "idle"
    /\ \/ UNCHANGED uploaded
       \/ \E u \in toUpload : /\ pc = "uploading" /\ Len(uploaded[u]) < MaxUploads
                              /\ uploaded' = [uploaded EXCEPT ![u] = Append(@, texts[u])]
    /\ outcome' = "died"
    /\ Forget
    /\ UNCHANGED <<upstream, tracked, due, proposals, attached>>

\* cleanup_interrupted_refresh.py --apply, run while no refresh is.
CleanUp ==
    /\ pc = "idle"
    /\ attached' = attached \cap {CurrentPath(u) : u \in TrackedUrls}
    /\ UNCHANGED <<upstream, tracked, due, outcome, proposals, uploaded, pc, plan, toUpload, addPaths, rmPaths>>

-----------------------------------------------------------------------------
Upload(u) == UploadFails(u) \/ UploadSucceeds(u) \/ UploadUnnamed(u)

Next ==
    \/ SourceChanges \/ IntervalElapses
    \/ StartRun({})
    \/ \E proposal \in proposals : ApproveRun(proposal)
    \/ \E u \in Urls : Upload(u)
    \/ DropRemoved \/ EmbedBatch \/ EmbedFails \/ Die \/ CleanUp

Spec == Init /\ [][Next]_vars

\* The timer starts due runs again and again, each page is fetched again and
\* again (_prioritise takes the one fetched longest ago), and an upload that is
\* tried again and again succeeds some time.
FairSpec ==
    /\ Spec
    /\ WF_vars(IntervalElapses) /\ WF_vars(DropRemoved) /\ WF_vars(EmbedBatch)
    /\ WF_vars(due /\ StartRun({}))
    /\ \A u \in Urls : /\ SF_vars(StartRun({u}))
                       /\ WF_vars(Upload(u)) /\ SF_vars(UploadSucceeds(u))

-----------------------------------------------------------------------------
(* Properties.                                                             *)

\* The stored hash describes the text of the file the entry names, so a page
\* that changes upstream is noticed (refresh_one, "no later refresh could ever
\* notice").
HashDescribesFile ==
    \A u \in Urls : tracked[u].path # NoPath =>
        /\ tracked[u].path <= Len(uploaded[u])
        /\ tracked[u].hash = uploaded[u][tracked[u].path]

\* No docpath is attached twice: one already in the workspace is never queued
\* for attachment, and none is queued twice (upload_raw_text's docstring).
NoDoubleAttach ==
    /\ pc = "embedding" => Range(addPaths) \cap attached = {}
    /\ IsInjective(addPaths)

\* The state and the vault agree, a run or a crash in the middle included.
StateDescribesVault == HashDescribesFile /\ NoDoubleAttach

\* Neither a run nor the cleanup detaches the document the state points to
\* (removes_docpaths, cleanup's orphans).
CurrentNeverDetached ==
    [][\A u \in Urls : CurrentPath(u) \in attached \ attached' => ~IsTracked(u)']_vars

\* A page the source still lists is not dropped from documents.json, however
\* few pages the run fetched (plan.compute's known_urls).
ListedKept == [][Enumerates => \A u \in present : IsTracked(u) => IsTracked(u)']_vars

\* A large share of the documents is dropped in one run only if the operator
\* approved each removal, even if the source changed since (safety_check, drift
\* check of --approve).
Dropped == {u \in TrackedUrls : ~IsTracked(u)'}
MassRemovalApproved == [][Unsafe(Dropped) => \E p \in approved : Dropped \subseteq p]_vars

\* What is taken out of the corpus was meant to be (plan.compute, safety_check).
RemovedOnPurpose == CurrentNeverDetached /\ ListedKept /\ MassRemovalApproved

\* After an applied run every tracked document is in the workspace.
\* "if a batch fails, the uploads are still tracked and re-running the source
\* re-attempts the embedding pass" (refresh.py, above the embedding pass).
AppliedIsServed ==
    pc = "idle" /\ outcome = "applied" =>
        \A u \in TrackedUrls : tracked[u].path # NoPath => CurrentPath(u) \in attached

\* After an applied run a page fetched with its current text is served with no
\* other text: "what the corpus serves is what the handler actually extracted"
\* (refresh.py, on adopted entries).
ServesOnlyExtracted ==
    pc = "idle" /\ outcome = "applied" =>
        \A p \in attached : tracked[p[1]].hash \notin {NoText, Migrated} => p = CurrentPath(p[1])

\* An applied run serves the tracked pages and nothing else.
ServedIsApplied == AppliedIsServed /\ ServesOnlyExtracted

\* Once the source stops changing, and unless it has become empty, the workspace
\* comes to hold exactly its current pages, however many uploads fail on the way
\* (failed uploads keep the old hash and are planned again).
Synced == attached = {<<u, tracked[u].path>> : u \in {v \in Urls : live[v] # NoText}}
          /\ \A u \in Urls : tracked[u].hash = live[u]
CorpusConverges == <>[](Collected({u \in Urls : live[u] # NoText}) => Synced)
=============================================================================
