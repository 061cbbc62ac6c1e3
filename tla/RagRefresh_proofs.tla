--------------------------- MODULE RagRefresh_proofs ---------------------------
(***************************************************************************)
(* Theorems about RagRefresh, for any urls, texts, thresholds and batch    *)
(* size, whatever uploads and embedding calls fail and wherever the        *)
(* process dies.                                                           *)
(*                                                                         *)
(* The inductive invariant says, for each phase of a run, how the plan in  *)
(* memory relates to documents.json and to the files in AnythingLLM: what  *)
(* is queued for attachment is new, what is queued for detachment is not   *)
(* what the state points to, and the removals are the ones the plan was    *)
(* judged by.                                                              *)
(***************************************************************************)
EXTENDS RagRefresh, FiniteSetTheorems, TLAPS

\* What is attached or queued has been uploaded, and what is queued is new.
QueuesOK ==
    /\ \A p \in attached : p[2] <= Len(uploaded[p[1]])
    /\ \A p \in Range(addPaths) : p[2] <= Len(uploaded[p[1]]) /\ p \notin attached
    /\ IsInjective(addPaths)

Idle == /\ addPaths = <<>> /\ rmPaths = <<>> /\ toUpload = {} /\ gone = {}
        /\ present = {} /\ approved = {}

\* What is still to be uploaded or dropped is as it was when the plan was made.
PersistedUrls == {u \in Urls : persisted[u].hash # NoText}
Uploading ==
    /\ \A u \in toUpload : texts[u] \in Texts
    /\ \A u \in toUpload \cup gone : tracked[u] = persisted[u]
    /\ toUpload \cap gone = {} /\ gone \subseteq PersistedUrls /\ PersistedUrls \subseteq TrackedUrls
    /\ Enumerates => gone \cap present = {}
    /\ \/ \E p \in approved : gone \subseteq p
       \/ gone = {} \/ Cardinality(gone) < RemovalFloor
       \/ Cardinality(gone) * 100 <= MaxDeletePct * Cardinality(PersistedUrls)
    /\ \A p \in Range(rmPaths) : p[1] \notin toUpload /\ p[2] < tracked[p[1]].path

\* What is queued for detachment is not what the state points to.
Embedding == \A p \in Range(rmPaths) : IsTracked(p[1]) => p # CurrentPath(p[1])

IInv ==
    /\ TypeOK /\ HashDescribesFile /\ QueuesOK
    /\ pc = "idle"      => Idle
    /\ pc = "uploading" => Uploading
    /\ pc = "embedding" => Embedding

-----------------------------------------------------------------------------
(* Sequences of docpaths.                                                  *)

LEMMA Appended ==
    ASSUME NEW S, NEW s \in Seq(S), NEW x \in S
    PROVE  /\ Append(s, x) \in Seq(S) /\ Len(Append(s, x)) = Len(s) + 1
           /\ \A i \in 1..Len(s) : Append(s, x)[i] = s[i]
           /\ Append(s, x)[Len(s) + 1] = x
           /\ Range(Append(s, x)) = Range(s) \cup {x}
           /\ IsInjective(s) /\ x \notin Range(s) => IsInjective(Append(s, x))
<1>1. /\ Append(s, x) \in Seq(S) /\ Len(Append(s, x)) = Len(s) + 1
      /\ \A i \in 1..Len(s) : Append(s, x)[i] = s[i]
      /\ Append(s, x)[Len(s) + 1] = x
  OBVIOUS
<1>2. /\ DOMAIN s = 1..Len(s) /\ DOMAIN Append(s, x) = 1..(Len(s) + 1) /\ Len(s) \in Nat
  BY <1>1
<1>3. Range(Append(s, x)) = Range(s) \cup {x}
  <2>1. Range(Append(s, x)) \subseteq Range(s) \cup {x}
    BY <1>1, <1>2 DEF Range
  <2>2. x \in Range(Append(s, x))
    BY <1>1, <1>2 DEF Range
  <2>3. Range(s) \subseteq Range(Append(s, x))
    BY <1>1, <1>2 DEF Range
  <2> QED BY <2>1, <2>2, <2>3
<1>4. ASSUME IsInjective(s), x \notin Range(s) PROVE IsInjective(Append(s, x))
  BY <1>1, <1>2, <1>4 DEF Range, IsInjective
<1> QED
  BY <1>1, <1>3, <1>4

LEMMA Concatenated ==
    ASSUME NEW S, NEW s \in Seq(S), NEW t \in Seq(S)
    PROVE  s \o t \in Seq(S) /\ Range(s \o t) \subseteq Range(s) \cup Range(t)
<1>1. s \o t \in Seq(S) /\ Len(s \o t) = Len(s) + Len(t) /\ Len(s) \in Nat /\ Len(t) \in Nat
  OBVIOUS
<1>2. DOMAIN s = 1..Len(s) /\ DOMAIN t = 1..Len(t) /\ DOMAIN (s \o t) = 1..(Len(s) + Len(t))
  BY <1>1
<1>3. ASSUME NEW i \in 1..(Len(s) + Len(t)) PROVE (s \o t)[i] \in Range(s) \cup Range(t)
  <2>1. CASE i \in 1..Len(s)
    <3>1. (s \o t)[i] = s[i]
      BY <2>1
    <3> QED BY <1>2, <2>1, <3>1 DEF Range
  <2>2. CASE i \notin 1..Len(s)
    <3>1. (s \o t)[i] = t[i - Len(s)] /\ i - Len(s) \in 1..Len(t)
      BY <1>1, <2>2
    <3> QED BY <1>2, <3>1 DEF Range
  <2> QED BY <2>1, <2>2
<1> QED
  BY <1>1, <1>2, <1>3 DEF Range

\* A batch takes from the front of a queue and leaves the rest.
LEMMA BatchAndRest ==
    ASSUME NEW S, NEW s \in Seq(S)
    PROVE  /\ Rest(s) \in Seq(S) /\ Range(Rest(s)) \subseteq Range(s) /\ Batch(s) \subseteq Range(s)
           /\ IsInjective(s) => IsInjective(Rest(s)) /\ Range(Rest(s)) \cap Batch(s) = {}
<1>0. BatchSize \in Nat \ {0} /\ Len(s) \in Nat /\ DOMAIN s = 1..Len(s)
  BY RagAssumption
<1>1. /\ Min({BatchSize, Len(s)}) \in Nat
      /\ Min({BatchSize, Len(s)}) <= BatchSize /\ Min({BatchSize, Len(s)}) <= Len(s)
  <2>1. \E x \in {BatchSize, Len(s)} : \A y \in {BatchSize, Len(s)} : x <= y
    BY <1>0
  <2>2. /\ Min({BatchSize, Len(s)}) \in {BatchSize, Len(s)}
        /\ \A y \in {BatchSize, Len(s)} : Min({BatchSize, Len(s)}) <= y
    BY <2>1 DEF Min
  <2> QED BY <1>0, <2>2
<1>2. /\ Rest(s) \in Seq(S) /\ Len(Rest(s)) \in Nat
      /\ \A i \in 1..Len(Rest(s)) : i + BatchSize \in 1..Len(s) /\ Rest(s)[i] = s[i + BatchSize]
  BY <1>0 DEF Rest
<1>3. DOMAIN Rest(s) = 1..Len(Rest(s))
  BY <1>2
<1>4. Range(Rest(s)) \subseteq Range(s)
  BY <1>0, <1>2, <1>3 DEF Range
<1>5. Batch(s) \subseteq Range(s)
  BY <1>0, <1>1 DEF Range, Batch
<1>6. ASSUME IsInjective(s) PROVE IsInjective(Rest(s)) /\ Range(Rest(s)) \cap Batch(s) = {}
  <2>1. IsInjective(Rest(s))
    <3> SUFFICES ASSUME NEW i \in 1..Len(Rest(s)), NEW j \in 1..Len(Rest(s)), Rest(s)[i] = Rest(s)[j]
                 PROVE  i = j
      BY <1>3 DEF IsInjective
    <3>1. s[i + BatchSize] = s[j + BatchSize] /\ i + BatchSize \in 1..Len(s) /\ j + BatchSize \in 1..Len(s)
      BY <1>2
    <3>2. i + BatchSize = j + BatchSize
      BY <1>0, <1>6, <3>1 DEF IsInjective
    <3> QED BY <1>0, <1>2, <3>2
  <2>2. ASSUME NEW i \in 1..Len(Rest(s)), NEW j \in 1..Min({BatchSize, Len(s)}), Rest(s)[i] = s[j]
        PROVE  FALSE
    <3>1. i + BatchSize \in 1..Len(s) /\ j \in 1..Len(s) /\ s[i + BatchSize] = s[j] /\ j # i + BatchSize
      BY <1>0, <1>1, <1>2, <2>2
    <3> QED BY <1>0, <1>6, <3>1 DEF IsInjective
  <2>3. Range(Rest(s)) \cap Batch(s) = {}
    BY <1>3, <2>2 DEF Range, Batch
  <2> QED BY <2>1, <2>3
<1> QED
  BY <1>2, <1>4, <1>5, <1>6

LEMMA Listing ==
    ASSUME NEW S, IsFiniteSet(S)
    PROVE  SetToSeq(S) \in Seq(S) /\ Range(SetToSeq(S)) \subseteq S
<1>1. Cardinality(S) \in Nat /\ ExistsBijection(1..Cardinality(S), S)
  BY FS_CardinalityType
<1>2. PICK f : f \in [1..Cardinality(S) -> S] /\ IsInjective(f)
  BY <1>1 DEF ExistsBijection, Bijection, Injection
<1>3. SetToSeq(S) \in [1..Cardinality(S) -> S]
  BY <1>2 DEF SetToSeq
<1> QED
  BY <1>1, <1>3 DEF Range

-----------------------------------------------------------------------------
(* The site, the start of a run and the uploads.                           *)

LEMMA InitIInv == Init => IInv
<1> SUFFICES ASSUME Init PROVE IInv
  OBVIOUS
<1>1. <<Migrated>> \in Seq(Texts \cup {Migrated}) /\ Len(<<Migrated>>) = 1 /\ <<Migrated>>[1] = Migrated
  OBVIOUS
<1>2. /\ \A u \in Urls : uploaded[u] = IF u \in Adopted THEN <<Migrated>> ELSE <<>>
      /\ \A u \in Urls : tracked[u] = IF u \in Adopted THEN [hash |-> Migrated, path |-> 1] ELSE Untracked
  BY DEF Init
<1>3. TypeOK
  <2>0. MaxUploads \in Nat /\ MaxUploads >= 1 /\ <<>> \in Seq(Texts \cup {Migrated}) /\ Len(<<>>) = 0
    BY RagAssumption
  <2>1. \A u \in Urls : uploaded[u] \in Seq(Texts \cup {Migrated}) /\ Len(uploaded[u]) <= MaxUploads
    <3> SUFFICES ASSUME NEW u \in Urls
                 PROVE  uploaded[u] \in Seq(Texts \cup {Migrated}) /\ Len(uploaded[u]) <= MaxUploads
      OBVIOUS
    <3>1. CASE u \in Adopted
      <4>1. uploaded[u] = <<Migrated>>
        BY <1>2, <3>1
      <4> QED BY <1>1, <2>0, <4>1
    <3>2. CASE u \notin Adopted
      <4>1. uploaded[u] = <<>>
        BY <1>2, <3>2
      <4> QED BY <2>0, <4>1
    <3> QED BY <3>1, <3>2
  <2>2. uploaded \in [Urls -> Seq(Texts \cup {Migrated})]
    BY <2>1 DEF Init
  <2>3. \A u \in Urls : tracked[u] \in Entries
    BY <1>2, RagAssumption DEF Entries, Untracked, NoPath
  <2>4. tracked \in [Urls -> Entries] /\ persisted \in [Urls -> Entries]
    BY <2>3, RagAssumption DEF Init, Entries, Untracked, NoPath
  <2>5. attached \subseteq DocPaths
    BY RagAssumption DEF Init, DocPaths
  <2>6. approved = {} /\ Cardinality(approved) <= 1
    BY FS_EmptySet DEF Init
  <2>7. addPaths \in Seq(DocPaths) /\ rmPaths \in Seq(DocPaths)
    BY DEF Init
  <2> QED
    BY <2>1, <2>2, <2>4, <2>5, <2>6, <2>7, RagAssumption DEF Init, TypeOK
<1>4. HashDescribesFile
  BY <1>1, <1>2 DEF HashDescribesFile, Untracked
<1>5. QueuesOK /\ Idle
  <2>1. \A p \in attached : p[2] = 1 /\ p[1] \in Adopted /\ p[1] \in Urls
    BY RagAssumption DEF Init
  <2>2. Range(addPaths) = {} /\ IsInjective(addPaths)
    BY DEF Init, Range, IsInjective
  <2> QED
    BY <1>1, <1>2, <2>1, <2>2 DEF Init, QueuesOK, Idle
<1> QED
  BY <1>3, <1>4, <1>5 DEF Init, IInv

LEMMA WorldStep == ASSUME IInv, SourceChanges \/ IntervalElapses PROVE IInv'
<1>1. CASE SourceChanges
  <2>1. TypeOK'
    BY <1>1, RagAssumption DEF SourceChanges, plan, IInv, TypeOK
  <2> QED
    BY <1>1, <2>1 DEF SourceChanges, plan, IInv, HashDescribesFile, QueuesOK, Idle, Uploading, Embedding,
           PersistedUrls, TrackedUrls, IsTracked, CurrentPath
<1>2. CASE IntervalElapses
  <2>1. TypeOK'
    BY <1>2 DEF IntervalElapses, upstream, plan, IInv, TypeOK
  <2> QED
    BY <1>2, <2>1 DEF IntervalElapses, upstream, plan, IInv, HashDescribesFile, QueuesOK, Idle, Uploading,
           Embedding, PersistedUrls, TrackedUrls, IsTracked, CurrentPath
<1> QED
  BY <1>1, <1>2

LEMMA HaltStep == ASSUME IInv, NEW removes \in SUBSET Urls, Halt(removes) PROVE IInv'
<1>1. TypeOK'
  BY DEF Halt, upstream, plan, IInv, TypeOK
<1> QED
  BY <1>1 DEF Halt, upstream, plan, IInv, HashDescribesFile, QueuesOK, Idle, Uploading, Embedding,
         PersistedUrls, TrackedUrls, IsTracked, CurrentPath

\* The plan that is begun is either within the threshold or within the proposal.
LEMMA BeginStep ==
    ASSUME IInv, pc = "idle", NEW listed \in Listings, NEW fetched \in Fetches(listed),
           NEW proposal, proposal = {} \/ \E p \in proposals : proposal = {p},
           Begin(listed, fetched, proposal),
           LET removes == Removes(StillThere(listed, fetched)) IN
           ~Unsafe(removes) \/ \E p \in proposal : removes \subseteq p
    PROVE  IInv'
<1> USE DEF Begin
<1> DEFINE removes == Removes(StillThere(listed, fetched))
<1>1. listed \subseteq {u \in Urls : live[u] # NoText} /\ fetched \subseteq listed
  BY DEF Listings, Fetches
<1>2. /\ gone' = removes /\ removes \subseteq TrackedUrls /\ removes \cap fetched = {}
      /\ Enumerates => removes \cap listed = {}
  BY <1>1 DEF Removes, StillThere
<1>3. TypeOK'
  <2>1. texts' \in [Urls -> Texts \cup {NoText}] /\ toUpload' \subseteq Urls /\ present' \subseteq Urls
    BY <1>1 DEF Stale, IInv, TypeOK
  <2>2. approved' \subseteq SUBSET Urls /\ Cardinality(approved') <= 1
    <3>1. CASE proposal = {}
      BY <3>1, FS_EmptySet
    <3>2. ASSUME NEW p \in proposals, proposal = {p}
          PROVE  approved' \subseteq SUBSET Urls /\ Cardinality(approved') <= 1
      <4>1. p \in SUBSET Urls
        BY DEF IInv, TypeOK
      <4>2. Cardinality({p}) = 1
        BY FS_Singleton
      <4> QED BY <3>2, <4>1, <4>2
    <3> QED BY <3>1, <3>2
  <2>3. gone' \subseteq Urls
    BY <1>2 DEF TrackedUrls
  <2>4. addPaths' \in Seq(DocPaths) /\ rmPaths' \in Seq(DocPaths)
    OBVIOUS
  <2> QED
    BY <2>1, <2>2, <2>3, <2>4 DEF upstream, IInv, TypeOK
<1>4. HashDescribesFile' /\ QueuesOK'
  BY DEF IInv, HashDescribesFile, QueuesOK, Range, IsInjective
<1>5. Uploading'
  <2>1. \A u \in toUpload' : u \in fetched /\ texts'[u] \in Texts
    BY <1>1 DEF Stale, IInv, TypeOK
  <2>2. PersistedUrls' = TrackedUrls /\ TrackedUrls' = TrackedUrls
    BY DEF PersistedUrls, TrackedUrls, IsTracked
  <2>3. \/ \E p \in approved' : gone' \subseteq p
        \/ gone' = {} \/ Cardinality(gone') < RemovalFloor
        \/ Cardinality(gone') * 100 <= MaxDeletePct * Cardinality(PersistedUrls')
    <3>1. IsFiniteSet(removes) /\ IsFiniteSet(TrackedUrls)
      BY <1>2, RagAssumption, FS_Subset DEF TrackedUrls
    <3>2. Cardinality(removes) \in Nat /\ Cardinality(TrackedUrls) \in Nat
      BY <3>1, FS_CardinalityType
    <3> HIDE DEF removes
    <3>3. CASE ~Unsafe(removes)
      <4>1. MaxDeletePct \in Nat /\ RemovalFloor \in Nat
        BY RagAssumption
      <4> QED BY <1>2, <2>2, <3>2, <3>3, <4>1 DEF Unsafe
    <3>4. CASE \E p \in proposal : removes \subseteq p
      BY <1>2, <3>4
    <3> QED BY <3>3, <3>4 DEF removes
  <2>4. Range(rmPaths') = {}
    BY DEF Range
  <2> QED
    BY <1>2, <2>1, <2>2, <2>3, <2>4 DEF Uploading
<1> QED
  BY <1>3, <1>4, <1>5 DEF IInv

LEMMA StartStep ==
    ASSUME IInv, StartRun({}) \/ \E proposal \in proposals : ApproveRun(proposal)
    PROVE  IInv' /\ UNCHANGED <<tracked, attached>>
<1>1. ASSUME NEW there PROVE Removes(there) \in SUBSET Urls
  <2>1. TrackedUrls \subseteq Urls
    BY DEF TrackedUrls
  <2> QED
    BY <2>1 DEF Removes
<1>2. CASE StartRun({})
  <2>0. PICK listed \in Listings : \E fetched \in Fetches(listed) :
           IF Unsafe(Removes(StillThere(listed, fetched)))
           THEN Halt(Removes(StillThere(listed, fetched))) ELSE Begin(listed, fetched, {})
    BY <1>2 DEF StartRun
  <2>1. PICK fetched \in Fetches(listed) :
           IF Unsafe(Removes(StillThere(listed, fetched)))
           THEN Halt(Removes(StillThere(listed, fetched))) ELSE Begin(listed, fetched, {})
    BY <2>0
  <2>2. CASE Unsafe(Removes(StillThere(listed, fetched)))
    BY <1>1, <2>1, <2>2, HaltStep DEF Halt
  <2>3. CASE ~Unsafe(Removes(StillThere(listed, fetched)))
    BY <1>2, <2>1, <2>3, BeginStep DEF Begin, StartRun
  <2> QED BY <2>2, <2>3
<1>3. ASSUME NEW proposal \in proposals, ApproveRun(proposal) PROVE IInv' /\ UNCHANGED <<tracked, attached>>
  <2>0. PICK listed \in Listings : \E fetched \in Fetches(listed) :
           IF Removes(StillThere(listed, fetched)) \subseteq proposal
           THEN Begin(listed, fetched, {proposal}) ELSE Halt(Removes(StillThere(listed, fetched)))
    BY <1>3 DEF ApproveRun
  <2>1. PICK fetched \in Fetches(listed) :
           IF Removes(StillThere(listed, fetched)) \subseteq proposal
           THEN Begin(listed, fetched, {proposal}) ELSE Halt(Removes(StillThere(listed, fetched)))
    BY <2>0
  <2>2. CASE Removes(StillThere(listed, fetched)) \subseteq proposal
    BY <1>3, <2>1, <2>2, BeginStep DEF Begin, ApproveRun
  <2>3. CASE ~(Removes(StillThere(listed, fetched)) \subseteq proposal)
    BY <1>1, <2>1, <2>3, HaltStep DEF Halt
  <2> QED BY <2>2, <2>3
<1> QED
  BY <1>2, <1>3

\* The uploads of one page: its new text, its new file, or neither is recorded.
LEMMA UploadStep ==
    ASSUME IInv, NEW u \in Urls, Upload(u)
    PROVE  IInv' /\ UNCHANGED attached /\ \A v \in Urls : IsTracked(v) => IsTracked(v)'
<1>1. /\ pc = "uploading" /\ pc' = pc /\ Uploading /\ u \in toUpload /\ toUpload' = toUpload \ {u}
      /\ UNCHANGED <<upstream, due, outcome, proposals, attached, plan>>
  BY DEF Upload, UploadFails, UploadSucceeds, UploadUnnamed, NextUpload, IInv
<1>2. texts[u] \in Texts /\ tracked[u] = persisted[u] /\ u \notin gone /\ 0 \notin Texts /\ Texts \subseteq Nat
  BY <1>1, RagAssumption DEF Uploading
<1> USE DEF upstream, plan
<1>3. CASE UploadFails(u)
  <2>1. UNCHANGED <<tracked, uploaded, addPaths, rmPaths>>
    BY <1>3 DEF UploadFails
  <2>2. TypeOK' /\ HashDescribesFile' /\ QueuesOK'
    BY <1>1, <2>1 DEF IInv, TypeOK, HashDescribesFile, QueuesOK
  <2>3. Uploading'
    BY <1>1, <2>1 DEF Uploading, PersistedUrls, TrackedUrls, IsTracked
  <2> QED
    BY <1>1, <2>1, <2>2, <2>3 DEF IInv, IsTracked
<1>4. CASE UploadUnnamed(u)
  <2>1. /\ UNCHANGED <<uploaded, addPaths, rmPaths>>
        /\ tracked' = [tracked EXCEPT ![u] = [hash |-> texts[u], path |-> NoPath]]
    BY <1>4 DEF UploadUnnamed
  <2>2. [hash |-> texts[u], path |-> NoPath] \in Entries
    BY <1>2, RagAssumption DEF Entries, NoPath
  <2>3. /\ tracked' \in [Urls -> Entries] /\ tracked'[u] = [hash |-> texts[u], path |-> NoPath]
        /\ \A v \in Urls \ {u} : tracked'[v] = tracked[v]
    BY <2>1, <2>2 DEF IInv, TypeOK
  <2>4. TypeOK' /\ HashDescribesFile' /\ QueuesOK'
    BY <1>1, <2>1, <2>3 DEF IInv, TypeOK, HashDescribesFile, QueuesOK
  <2>5. \A v \in Urls : IsTracked(v) => IsTracked(v)'
    BY <1>2, <2>3 DEF IsTracked, NoText
  <2>6. \A p \in Range(rmPaths) : p[1] \in Urls /\ p[1] # u
    BY <1>1 DEF Uploading, IInv, TypeOK, Range, DocPaths
  <2>7. Uploading'
    BY <1>1, <1>2, <2>1, <2>3, <2>5, <2>6 DEF Uploading, PersistedUrls, TrackedUrls
  <2> QED
    BY <1>1, <2>4, <2>5, <2>7 DEF IInv
<1>5. CASE UploadSucceeds(u)
  <2> DEFINE k == Len(uploaded[u]) + 1
  <2>1. /\ k <= MaxUploads
        /\ uploaded' = [uploaded EXCEPT ![u] = Append(@, texts[u])]
        /\ tracked' = [tracked EXCEPT ![u] = [hash |-> texts[u], path |-> k]]
        /\ addPaths' = Append(addPaths, <<u, k>>)
        /\ rmPaths' = rmPaths \/ (persisted[u].path # NoPath /\ rmPaths' = Append(rmPaths, <<u, persisted[u].path>>))
    BY <1>5 DEF UploadSucceeds
  <2>2. uploaded[u] \in Seq(Texts \cup {Migrated}) /\ Len(uploaded[u]) \in Nat
    BY DEF IInv, TypeOK
  <2>3. k \in 1..MaxUploads /\ <<u, k>> \in DocPaths /\ [hash |-> texts[u], path |-> k] \in Entries
    BY <1>2, <2>1, <2>2, RagAssumption DEF Entries, DocPaths
  <2>4. /\ uploaded'[u] = Append(uploaded[u], texts[u])
        /\ uploaded'[u] \in Seq(Texts \cup {Migrated}) /\ Len(uploaded'[u]) = k
        /\ uploaded'[u][k] = texts[u]
        /\ \A v \in Urls \ {u} : uploaded'[v] = uploaded[v]
        /\ uploaded' \in [Urls -> Seq(Texts \cup {Migrated})]
    BY <1>2, <2>1, <2>2, Appended DEF IInv, TypeOK
  <2>5. /\ tracked' \in [Urls -> Entries] /\ tracked'[u] = [hash |-> texts[u], path |-> k]
        /\ \A v \in Urls \ {u} : tracked'[v] = tracked[v]
    BY <2>1, <2>3 DEF IInv, TypeOK
  <2>6. persisted[u].path \in 0..MaxUploads /\ persisted[u].path < k
    <3>1. persisted[u] \in Entries /\ tracked[u].path = persisted[u].path
      BY <1>2 DEF IInv, TypeOK
    <3>2. persisted[u].path \in 0..MaxUploads
      BY <3>1 DEF Entries
    <3> QED BY <2>2, <3>1, <3>2 DEF IInv, HashDescribesFile, NoPath
  <2>7. /\ addPaths \in Seq(DocPaths) /\ rmPaths \in Seq(DocPaths)
        /\ \A p \in Range(addPaths) \cup Range(rmPaths) : p \in DocPaths
    BY DEF IInv, TypeOK, Range
  <2>8. /\ addPaths' \in Seq(DocPaths) /\ Range(addPaths') = Range(addPaths) \cup {<<u, k>>}
        /\ <<u, k>> \notin Range(addPaths) => IsInjective(addPaths')
    <3> HIDE DEF k
    <3>1. IsInjective(addPaths)
      BY DEF IInv, QueuesOK
    <3>2. ASSUME NEW x \in DocPaths, addPaths' = Append(addPaths, x)
          PROVE  /\ addPaths' \in Seq(DocPaths) /\ Range(addPaths') = Range(addPaths) \cup {x}
                 /\ x \notin Range(addPaths) => IsInjective(addPaths')
      BY <2>7, <3>1, <3>2, Appended
    <3> QED BY <2>1, <2>3, <3>2
  <2>9. /\ rmPaths' \in Seq(DocPaths)
        /\ \A p \in Range(rmPaths') : p \in Range(rmPaths) \/ p = <<u, persisted[u].path>>
    <3>1. CASE rmPaths' = rmPaths
      BY <2>7, <3>1
    <3>2. CASE persisted[u].path # NoPath /\ rmPaths' = Append(rmPaths, <<u, persisted[u].path>>)
      <4>1. <<u, persisted[u].path>> \in DocPaths
        BY <2>6, <3>2, RagAssumption DEF DocPaths, NoPath
      <4> QED BY <2>7, <3>2, <4>1, Appended
    <3> QED BY <2>1, <3>1, <3>2
  <2>10. TypeOK'
    <3>1. \A v \in Urls : Len(uploaded'[v]) <= MaxUploads
      BY <2>1, <2>4 DEF IInv, TypeOK
    <3> QED
      BY <1>1, <2>4, <2>5, <2>8, <2>9, <3>1 DEF IInv, TypeOK
  <2>11. HashDescribesFile'
    <3> SUFFICES ASSUME NEW v \in Urls, tracked'[v].path # NoPath
                 PROVE  /\ tracked'[v].path <= Len(uploaded'[v])
                        /\ tracked'[v].hash = uploaded'[v][tracked'[v].path]
      BY DEF HashDescribesFile
    <3>1. CASE v = u
      BY <2>2, <2>4, <2>5, <3>1
    <3>2. CASE v # u
      BY <2>4, <2>5, <3>2 DEF IInv, HashDescribesFile
    <3> QED BY <3>1, <3>2
  <2>12. QueuesOK'
    <3>1. ASSUME NEW v \in Urls
          PROVE  Len(uploaded[v]) \in Nat /\ Len(uploaded[v]) <= Len(uploaded'[v])
      <4>1. uploaded[v] \in Seq(Texts \cup {Migrated})
        BY DEF IInv, TypeOK
      <4> QED BY <2>2, <2>4, <4>1
    <3>2. \A p \in attached \cup Range(addPaths) : /\ p[1] \in Urls /\ p[2] \in Nat
                                                  /\ p[2] <= Len(uploaded[p[1]])
      BY <2>7 DEF IInv, TypeOK, QueuesOK, DocPaths
    <3>3. <<u, k>> \notin attached \cup Range(addPaths)
      BY <2>2, <3>2
    <3>4. \A p \in attached \cup Range(addPaths) : p[2] <= Len(uploaded'[p[1]])
      BY <3>1, <3>2, <2>4
    <3>5. \A p \in Range(addPaths') : p[2] <= Len(uploaded'[p[1]]) /\ p \notin attached
      BY <2>2, <2>4, <2>8, <3>3, <3>4 DEF IInv, QueuesOK
    <3> QED
      BY <1>1, <2>8, <3>3, <3>4, <3>5 DEF QueuesOK
  <2>13. \A v \in Urls : IsTracked(v) => IsTracked(v)'
    BY <1>2, <2>5 DEF IsTracked, NoText
  <2>14. Uploading'
    <3>1. \A p \in Range(rmPaths') : p[1] \notin toUpload' /\ p[2] < tracked'[p[1]].path
      <4> SUFFICES ASSUME NEW p \in Range(rmPaths')
                   PROVE  p[1] \notin toUpload' /\ p[2] < tracked'[p[1]].path
        OBVIOUS
      <4>1. CASE p \in Range(rmPaths)
        <5>1. p[1] \in Urls /\ p[1] \notin toUpload /\ p[2] < tracked[p[1]].path
          BY <1>1, <2>7, <4>1 DEF Uploading, DocPaths
        <5> QED BY <1>1, <2>5, <5>1
      <4>2. CASE p = <<u, persisted[u].path>>
        BY <1>1, <2>5, <2>6, <4>2
      <4> QED BY <2>9, <4>1, <4>2
    <3>2. \A v \in toUpload' \cup gone' : tracked'[v] = persisted'[v]
      BY <1>1, <1>2, <2>5 DEF Uploading, IInv, TypeOK
    <3>3. PersistedUrls' = PersistedUrls /\ TrackedUrls \subseteq TrackedUrls'
      BY <1>1, <2>13 DEF PersistedUrls, TrackedUrls
    <3> QED
      BY <1>1, <3>1, <3>2, <3>3 DEF Uploading
  <2> QED
    BY <1>1, <2>10, <2>11, <2>12, <2>13, <2>14 DEF IInv
<1> QED
  BY <1>3, <1>4, <1>5 DEF Upload

-----------------------------------------------------------------------------
(* The removals, the embedding pass and the end of a run.                  *)

\* Whichever way a run ends, its memory is gone.
LEMMA ForgetStep ==
    ASSUME IInv, Forget, UNCHANGED upstream,
           tracked' \in [Urls -> Entries], due' \in BOOLEAN,
           outcome' \in {"none", "applied", "embed_error", "died"}, proposals' \subseteq proposals,
           uploaded' \in [Urls -> Seq(Texts \cup {Migrated})],
           \A u \in Urls : Len(uploaded'[u]) <= MaxUploads,
           attached' \subseteq DocPaths, HashDescribesFile',
           \A p \in attached' : p[2] <= Len(uploaded'[p[1]])
    PROVE  IInv'
<1> USE DEF Forget, upstream
<1>1. Cardinality(approved') <= 1
  BY FS_EmptySet
<1>2. Range(addPaths') = {} /\ IsInjective(addPaths')
  BY DEF Range, IsInjective
<1>3. persisted' \in [Urls -> Entries]
  BY RagAssumption DEF Untracked, Entries, NoPath
<1>4. TypeOK'
  BY <1>1, <1>3 DEF IInv, TypeOK
<1> QED
  BY <1>2, <1>4 DEF IInv, QueuesOK, Idle

LEMMA DropStep ==
    ASSUME IInv, DropRemoved
    PROVE  /\ IInv' /\ UNCHANGED attached
           /\ pc = "uploading" /\ \A u \in Urls \ gone : IsTracked(u) => IsTracked(u)'
<1> DEFINE D == {<<u, persisted[u].path>> : u \in {v \in gone : persisted[v].path # NoPath}}
           detach == SetToSeq(D)
<1>1. /\ pc = "uploading" /\ Uploading /\ UNCHANGED <<upstream, uploaded, attached>>
      /\ tracked' = [u \in Urls |-> IF u \in gone THEN Untracked ELSE tracked[u]]
      /\ \/ Succeed
         \/ /\ pc' = "embedding" /\ rmPaths' = rmPaths \o detach
            /\ UNCHANGED <<due, outcome, proposals, plan, toUpload, addPaths>>
  BY DEF DropRemoved, IInv
<1>2. D \subseteq DocPaths /\ (\A p \in D : p[1] \in gone)
  <2>1. \A u \in gone : u \in Urls /\ persisted[u].path \in 0..MaxUploads
    BY DEF IInv, TypeOK, Entries
  <2> QED BY <2>1, RagAssumption DEF DocPaths, NoPath
<1>3. IsFiniteSet(D)
  <2>1. MaxUploads \in Int /\ 1 \in Int
    BY RagAssumption
  <2>2. IsFiniteSet(1..MaxUploads)
    BY <2>1, FS_Interval
  <2>3. IsFiniteSet(DocPaths)
    BY <2>2, RagAssumption, FS_Product DEF DocPaths
  <2> QED BY <1>2, <2>3, FS_Subset
<1>4. detach \in Seq(DocPaths) /\ Range(detach) \subseteq D
  <2>1. detach \in Seq(D) /\ Range(detach) \subseteq D
    BY <1>3, Listing
  <2>2. Seq(D) \subseteq Seq(DocPaths)
    BY <1>2
  <2> QED BY <2>1, <2>2
<1> HIDE DEF D, detach
<1>5. tracked' \in [Urls -> Entries] /\ (\A u \in Urls \ gone : tracked'[u] = tracked[u])
      /\ \A u \in gone : tracked'[u] = Untracked
  BY <1>1, RagAssumption DEF IInv, TypeOK, Entries, Untracked, NoPath
<1>6. HashDescribesFile'
  BY <1>1, <1>5 DEF IInv, HashDescribesFile, Untracked
<1>7. CASE Succeed
  <2>1. Forget /\ due' \in BOOLEAN /\ outcome' = "applied" /\ proposals' \subseteq proposals
    BY <1>7 DEF Succeed
  <2>2. IInv'
    BY <1>1, <1>5, <1>6, <2>1, ForgetStep DEF IInv, TypeOK, QueuesOK
  <2> QED BY <1>1, <1>5, <2>2 DEF IsTracked
<1>8. CASE /\ pc' = "embedding" /\ rmPaths' = rmPaths \o detach
           /\ UNCHANGED <<due, outcome, proposals, plan, toUpload, addPaths>>
  <2>1. rmPaths' \in Seq(DocPaths) /\ Range(rmPaths') \subseteq Range(rmPaths) \cup Range(detach)
    BY <1>4, <1>8, Concatenated DEF IInv, TypeOK
  <2>2. TypeOK' /\ QueuesOK'
    BY <1>1, <1>5, <1>8, <2>1 DEF upstream, plan, IInv, TypeOK, QueuesOK
  <2>3. Embedding'
    <3> SUFFICES ASSUME NEW p \in Range(rmPaths'), IsTracked(p[1])'
                 PROVE  p # CurrentPath(p[1])'
      BY DEF Embedding
    <3>1. p \in DocPaths
      BY <2>1 DEF Range
    <3>2. p[1] \notin gone
      BY <1>5, <3>1 DEF IsTracked, Untracked
    <3>3. p \in Range(rmPaths) /\ tracked'[p[1]] = tracked[p[1]] /\ tracked[p[1]].path \in Nat /\ p[2] \in Nat
      BY <1>2, <1>4, <1>5, <2>1, <3>1, <3>2 DEF DocPaths, IInv, TypeOK, Entries
    <3> QED BY <1>1, <3>3 DEF Uploading, CurrentPath
  <2> QED BY <1>1, <1>5, <1>6, <1>8, <2>2, <2>3 DEF IInv, IsTracked
<1> QED
  BY <1>1, <1>7, <1>8

\* What a batch leaves attached has been uploaded, and is not what is to go.
LEMMA BatchAttached ==
    ASSUME IInv, pc = "embedding", UNCHANGED <<tracked, uploaded>>,
           attached' = (attached \ Batch(rmPaths)) \cup Batch(addPaths)
    PROVE  /\ attached' \subseteq DocPaths
           /\ \A p \in attached' : p[2] <= Len(uploaded'[p[1]])
           /\ \A u \in Urls : CurrentPath(u) \in attached \ attached' => ~IsTracked(u)'
<1>1. Batch(addPaths) \subseteq Range(addPaths) /\ Batch(rmPaths) \subseteq Range(rmPaths)
  BY BatchAndRest DEF IInv, TypeOK
<1>2. Range(addPaths) \subseteq DocPaths
  BY DEF IInv, TypeOK, Range
<1>3. \A p \in attached' : p[2] <= Len(uploaded'[p[1]])
  BY <1>1 DEF IInv, QueuesOK
<1>4. ASSUME NEW u \in Urls, CurrentPath(u) \in attached \ attached' PROVE ~IsTracked(u)'
  <2>1. CurrentPath(u) \in Range(rmPaths) /\ CurrentPath(u)[1] = u
    BY <1>1, <1>4 DEF CurrentPath
  <2> QED BY <2>1 DEF IInv, Embedding, IsTracked
<1> QED
  BY <1>1, <1>2, <1>3, <1>4 DEF IInv, TypeOK

LEMMA EmbedStep ==
    ASSUME IInv, EmbedBatch
    PROVE  /\ IInv' /\ UNCHANGED tracked
           /\ \A u \in Urls : CurrentPath(u) \in attached \ attached' => ~IsTracked(u)'
<1>1. /\ pc = "embedding" /\ Embedding /\ UNCHANGED <<upstream, tracked, uploaded>>
      /\ attached' = (attached \ Batch(rmPaths)) \cup Batch(addPaths)
      /\ \/ Succeed
         \/ /\ addPaths' = Rest(addPaths) /\ rmPaths' = Rest(rmPaths)
            /\ UNCHANGED <<due, outcome, proposals, pc, plan, toUpload>>
  BY DEF EmbedBatch, IInv
<1>2. /\ attached' \subseteq DocPaths /\ \A p \in attached' : p[2] <= Len(uploaded'[p[1]])
      /\ \A u \in Urls : CurrentPath(u) \in attached \ attached' => ~IsTracked(u)'
  BY <1>1, BatchAttached
<1>3. HashDescribesFile'
  BY <1>1 DEF IInv, HashDescribesFile
<1>4. CASE Succeed
  <2>1. Forget /\ due' \in BOOLEAN /\ outcome' = "applied" /\ proposals' \subseteq proposals
    BY <1>4 DEF Succeed
  <2>2. IInv'
    BY <1>1, <1>2, <1>3, <2>1, ForgetStep DEF IInv, TypeOK
  <2> QED BY <1>1, <1>2, <2>2
<1>5. CASE /\ addPaths' = Rest(addPaths) /\ rmPaths' = Rest(rmPaths)
           /\ UNCHANGED <<due, outcome, proposals, pc, plan, toUpload>>
  <2>1. /\ addPaths' \in Seq(DocPaths) /\ rmPaths' \in Seq(DocPaths)
        /\ Range(addPaths') \subseteq Range(addPaths) /\ Range(rmPaths') \subseteq Range(rmPaths)
        /\ IsInjective(addPaths') /\ Range(addPaths') \cap Batch(addPaths) = {}
    BY <1>5, BatchAndRest DEF IInv, TypeOK, QueuesOK
  <2>2. TypeOK'
    BY <1>1, <1>2, <1>5, <2>1 DEF upstream, plan, IInv, TypeOK
  <2>3. QueuesOK'
    BY <1>1, <1>2, <2>1 DEF IInv, QueuesOK
  <2>4. Embedding'
    BY <1>1, <2>1 DEF Embedding, IsTracked, CurrentPath
  <2> QED BY <1>1, <1>2, <1>3, <1>5, <2>2, <2>3, <2>4 DEF IInv
<1> QED
  BY <1>1, <1>4, <1>5

LEMMA EmbedFailsStep ==
    ASSUME IInv, EmbedFails
    PROVE  /\ IInv' /\ UNCHANGED tracked
           /\ \A u \in Urls : CurrentPath(u) \in attached \ attached' => ~IsTracked(u)'
<1>1. /\ pc = "embedding" /\ Forget /\ outcome' = "embed_error"
      /\ UNCHANGED <<upstream, tracked, due, proposals, uploaded>>
  BY DEF EmbedFails
<1>2. /\ attached' \subseteq DocPaths /\ \A p \in attached' : p[2] <= Len(uploaded'[p[1]])
      /\ \A u \in Urls : CurrentPath(u) \in attached \ attached' => ~IsTracked(u)'
  <2>1. CASE UNCHANGED attached
    BY <1>1, <2>1 DEF IInv, TypeOK, QueuesOK
  <2>2. CASE attached' = (attached \ Batch(rmPaths)) \cup Batch(addPaths)
    BY <1>1, <2>2, BatchAttached
  <2> QED BY <2>1, <2>2 DEF EmbedFails
<1>3. HashDescribesFile'
  BY <1>1 DEF IInv, HashDescribesFile
<1>4. IInv'
  BY <1>1, <1>2, <1>3, ForgetStep DEF IInv, TypeOK
<1> QED
  BY <1>1, <1>2, <1>4

LEMMA DieStep == ASSUME IInv, Die PROVE IInv' /\ UNCHANGED <<tracked, attached>>
<1>1. /\ Forget /\ outcome' = "died"
      /\ UNCHANGED <<upstream, tracked, due, proposals, attached>>
  BY DEF Die
<1>2. /\ uploaded' \in [Urls -> Seq(Texts \cup {Migrated})]
      /\ \A v \in Urls : /\ Len(uploaded'[v]) <= MaxUploads /\ Len(uploaded[v]) <= Len(uploaded'[v])
                         /\ Len(uploaded[v]) \in Nat /\ Len(uploaded'[v]) \in Nat
                         /\ \A i \in 1..Len(uploaded[v]) : uploaded'[v][i] = uploaded[v][i]
  <2>1. CASE UNCHANGED uploaded
    BY <2>1 DEF IInv, TypeOK
  <2>2. CASE \E u \in toUpload : /\ pc = "uploading" /\ Len(uploaded[u]) < MaxUploads
                                 /\ uploaded' = [uploaded EXCEPT ![u] = Append(@, texts[u])]
    <3>1. PICK u \in toUpload : /\ pc = "uploading" /\ Len(uploaded[u]) < MaxUploads
                                /\ uploaded' = [uploaded EXCEPT ![u] = Append(@, texts[u])]
      BY <2>2
    <3>2. u \in Urls /\ texts[u] \in Texts \cup {Migrated} /\ uploaded[u] \in Seq(Texts \cup {Migrated})
      BY <3>1 DEF IInv, TypeOK, Uploading
    <3>3. /\ uploaded'[u] \in Seq(Texts \cup {Migrated}) /\ Len(uploaded'[u]) = Len(uploaded[u]) + 1
          /\ \A i \in 1..Len(uploaded[u]) : uploaded'[u][i] = uploaded[u][i]
      BY <3>1, <3>2, Appended DEF IInv, TypeOK
    <3>4. \A v \in Urls \ {u} : uploaded'[v] = uploaded[v]
      BY <3>1 DEF IInv, TypeOK
    <3>5. uploaded' \in [Urls -> Seq(Texts \cup {Migrated})]
      BY <3>1, <3>2, <3>3 DEF IInv, TypeOK
    <3>6. Len(uploaded[u]) \in Nat /\ MaxUploads \in Nat
      BY <3>2, RagAssumption
    <3>7. ASSUME NEW v \in Urls
          PROVE  /\ Len(uploaded'[v]) <= MaxUploads /\ Len(uploaded[v]) <= Len(uploaded'[v])
                 /\ Len(uploaded[v]) \in Nat /\ Len(uploaded'[v]) \in Nat
                 /\ \A i \in 1..Len(uploaded[v]) : uploaded'[v][i] = uploaded[v][i]
      <4>1. CASE v = u
        BY <3>1, <3>3, <3>6, <4>1
      <4>2. CASE v # u
        BY <3>4, <4>2 DEF IInv, TypeOK
      <4> QED BY <4>1, <4>2
    <3> QED BY <3>5, <3>7
  <2> QED BY <2>1, <2>2 DEF Die
<1>3. HashDescribesFile'
  <2> SUFFICES ASSUME NEW u \in Urls, tracked[u].path # NoPath
               PROVE  /\ tracked[u].path <= Len(uploaded'[u])
                      /\ tracked[u].hash = uploaded'[u][tracked[u].path]
    BY <1>1 DEF HashDescribesFile
  <2>1. tracked[u].path \in 0..MaxUploads /\ tracked[u].path <= Len(uploaded[u])
        /\ tracked[u].hash = uploaded[u][tracked[u].path]
    BY DEF IInv, TypeOK, Entries, HashDescribesFile
  <2>2. tracked[u].path \in 1..Len(uploaded[u])
    BY <1>2, <2>1, RagAssumption DEF NoPath
  <2> QED BY <1>2, <2>1, <2>2, RagAssumption
<1>4. attached' \subseteq DocPaths /\ \A p \in attached' : p[2] <= Len(uploaded'[p[1]])
  <2>1. \A p \in attached : p[1] \in Urls /\ p[2] \in Nat /\ p[2] <= Len(uploaded[p[1]])
    BY DEF IInv, TypeOK, QueuesOK, DocPaths
  <2> QED BY <1>1, <1>2, <2>1 DEF IInv, TypeOK
<1>5. IInv'
  BY <1>1, <1>2, <1>3, <1>4, ForgetStep DEF IInv, TypeOK
<1> QED
  BY <1>1, <1>5

LEMMA CleanUpStep ==
    ASSUME IInv, CleanUp
    PROVE  /\ IInv' /\ UNCHANGED <<tracked, pc>>
           /\ \A u \in Urls : CurrentPath(u) \in attached \ attached' => ~IsTracked(u)'
<1>1. TypeOK'
  BY DEF CleanUp, upstream, plan, IInv, TypeOK
<1>2. HashDescribesFile' /\ QueuesOK'
  BY DEF CleanUp, IInv, HashDescribesFile, QueuesOK
<1>3. pc = "idle" /\ Idle'
  BY DEF CleanUp, plan, IInv, Idle
<1> QED
  BY <1>1, <1>2, <1>3 DEF CleanUp, IInv, TrackedUrls, IsTracked

-----------------------------------------------------------------------------
(* Every step, and what follows.                                           *)

LEMMA NextIInv == ASSUME IInv, [Next]_vars PROVE IInv'
<1>1. CASE SourceChanges \/ IntervalElapses
  BY <1>1, WorldStep
<1>2. CASE StartRun({}) \/ \E proposal \in proposals : ApproveRun(proposal)
  BY <1>2, StartStep
<1>3. ASSUME NEW u \in Urls, Upload(u) PROVE IInv'
  BY <1>3, UploadStep
<1>4. CASE DropRemoved
  BY <1>4, DropStep
<1>5. CASE EmbedBatch \/ EmbedFails
  BY <1>5, EmbedStep, EmbedFailsStep
<1>6. CASE Die \/ CleanUp
  BY <1>6, DieStep, CleanUpStep
<1>7. CASE UNCHANGED vars
  <2>1. TypeOK'
    BY <1>7 DEF vars, upstream, plan, IInv, TypeOK
  <2> QED
    BY <1>7, <2>1 DEF vars, upstream, plan, IInv, HashDescribesFile, QueuesOK, Idle, Uploading, Embedding,
           PersistedUrls, TrackedUrls, IsTracked, CurrentPath
<1> QED
  BY <1>1, <1>2, <1>3, <1>4, <1>5, <1>6, <1>7 DEF Next

LEMMA Invariance == Spec => []IInv
<1>1. Init => IInv
  BY InitIInv
<1>2. IInv /\ [Next]_vars => IInv'
  BY NextIInv
<1> QED
  BY <1>1, <1>2, PTL DEF Spec

\* documents.json, the plan in memory and the workspace keep their shapes
\* through every run, failure and crash (state.py, plan.py, refresh.py).
THEOREM TypeCorrect == Spec => []TypeOK
<1>1. IInv => TypeOK
  BY DEF IInv
<1> QED
  BY <1>1, Invariance, PTL

\* The hash in documents.json is that of the file its entry names, and no file
\* is queued for attachment twice or while attached (refresh_one, apply_plan).
THEOREM StateTrue == Spec => []StateDescribesVault
<1>1. IInv => StateDescribesVault
  BY DEF IInv, QueuesOK, StateDescribesVault, NoDoubleAttach
<1> QED
  BY <1>1, Invariance, PTL

\* Only the cleanup of the removals lets a page go, and it lets go what is gone.
LEMMA OnlyDropUntracks ==
    ASSUME IInv, [Next]_vars, NEW v \in Urls, IsTracked(v), ~IsTracked(v)'
    PROVE  DropRemoved /\ pc = "uploading" /\ v \in gone
<1>1. CASE SourceChanges \/ IntervalElapses \/ UNCHANGED vars
  BY <1>1 DEF SourceChanges, IntervalElapses, vars, IsTracked
<1>2. CASE StartRun({}) \/ \E proposal \in proposals : ApproveRun(proposal)
  BY <1>2, StartStep DEF IsTracked
<1>3. CASE \E u \in Urls : Upload(u)
  BY <1>3, UploadStep
<1>4. CASE DropRemoved
  BY <1>4, DropStep
<1>5. CASE EmbedBatch \/ EmbedFails \/ Die \/ CleanUp
  BY <1>5, EmbedStep, EmbedFailsStep, DieStep, CleanUpStep DEF IsTracked
<1> QED
  BY <1>1, <1>2, <1>3, <1>4, <1>5 DEF Next

LEMMA NoCurrentDetached ==
    ASSUME IInv, [Next]_vars, NEW u \in Urls, CurrentPath(u) \in attached \ attached'
    PROVE  ~IsTracked(u)'
<1>1. CASE SourceChanges \/ IntervalElapses \/ UNCHANGED vars
  BY <1>1 DEF SourceChanges, IntervalElapses, vars
<1>2. CASE StartRun({}) \/ \E proposal \in proposals : ApproveRun(proposal)
  BY <1>2, StartStep
<1>3. CASE \E v \in Urls : Upload(v)
  BY <1>3, UploadStep
<1>4. CASE DropRemoved
  BY <1>4, DropStep
<1>5. CASE EmbedBatch \/ EmbedFails \/ Die \/ CleanUp
  BY <1>5, EmbedStep, EmbedFailsStep, DieStep, CleanUpStep
<1> QED
  BY <1>1, <1>2, <1>3, <1>4, <1>5 DEF Next

\* What a removal takes is within the threshold, or was approved.
LEMMA LargeDropApproved ==
    ASSUME IInv, [Next]_vars, Unsafe(Dropped)
    PROVE  \E p \in approved : Dropped \subseteq p
<1>1. Dropped \subseteq gone /\ Dropped # {}
  BY OnlyDropUntracks DEF Dropped, TrackedUrls, Unsafe
<1>2. Uploading
  BY <1>1, OnlyDropUntracks DEF Dropped, TrackedUrls, IInv
<1>3. IsFiniteSet(gone) /\ IsFiniteSet(TrackedUrls)
  BY RagAssumption, FS_Subset DEF IInv, TypeOK, TrackedUrls
<1>4. IsFiniteSet(Dropped) /\ Cardinality(Dropped) <= Cardinality(gone)
  BY <1>1, <1>3, FS_Subset
<1>5. IsFiniteSet(PersistedUrls) /\ Cardinality(PersistedUrls) <= Cardinality(TrackedUrls)
  BY <1>2, <1>3, FS_Subset DEF Uploading
<1>6. /\ Cardinality(Dropped) \in Nat /\ Cardinality(gone) \in Nat
      /\ Cardinality(PersistedUrls) \in Nat /\ Cardinality(TrackedUrls) \in Nat
  BY <1>3, <1>4, <1>5, FS_CardinalityType
<1>7. MaxDeletePct \in Nat /\ RemovalFloor \in Nat
  BY RagAssumption
<1>8. ~(Cardinality(gone) < RemovalFloor)
  BY <1>4, <1>6, <1>7 DEF Unsafe
<1>9. ~(Cardinality(gone) * 100 <= MaxDeletePct * Cardinality(PersistedUrls))
  <2>1. MaxDeletePct * Cardinality(PersistedUrls) <= MaxDeletePct * Cardinality(TrackedUrls)
    BY <1>5, <1>6, <1>7
  <2>2. Cardinality(Dropped) * 100 > MaxDeletePct * Cardinality(TrackedUrls)
    BY DEF Unsafe
  <2>3. MaxDeletePct * Cardinality(PersistedUrls) \in Nat /\ MaxDeletePct * Cardinality(TrackedUrls) \in Nat
    BY <1>6, <1>7
  <2> QED BY <1>4, <1>6, <2>1, <2>2, <2>3
<1>10. PICK p \in approved : gone \subseteq p
  BY <1>1, <1>2, <1>8, <1>9 DEF Uploading
<1> QED
  BY <1>1, <1>10

\* A document the state points to is never detached, a page still listed is
\* never dropped, and a large share is dropped only with the operator's approval
\* (plan.compute, safety_check, cleanup_interrupted_refresh.py).
THEOREM RemovalsMeant == Spec => RemovedOnPurpose
<1>1. IInv /\ [Next]_vars =>
        [\A u \in Urls : CurrentPath(u) \in attached \ attached' => ~IsTracked(u)']_vars
  BY NoCurrentDetached
<1>2. IInv /\ [Next]_vars =>
        [Enumerates => \A u \in present : IsTracked(u) => IsTracked(u)']_vars
  <2> SUFFICES ASSUME IInv, [Next]_vars, Enumerates, NEW u \in present, IsTracked(u)
               PROVE  IsTracked(u)'
    OBVIOUS
  <2>1. u \in Urls
    BY DEF IInv, TypeOK
  <2> QED BY <2>1, OnlyDropUntracks DEF IInv, Uploading
<1>3. IInv /\ [Next]_vars => [Unsafe(Dropped) => \E p \in approved : Dropped \subseteq p]_vars
  BY LargeDropApproved
<1>4. Spec => CurrentNeverDetached
  BY <1>1, Invariance, PTL DEF Spec, CurrentNeverDetached
<1>5. Spec => ListedKept
  BY <1>2, Invariance, PTL DEF Spec, ListedKept
<1>6. Spec => MassRemovalApproved
  BY <1>3, Invariance, PTL DEF Spec, MassRemovalApproved
<1> QED
  BY <1>4, <1>5, <1>6 DEF RemovedOnPurpose
-----------------------------------------------------------------------------
(* What an applied run serves, where nothing fails on the way to           *)
(* AnythingLLM but uploads: every answer names its file, no embedding call *)
(* fails, no run dies and no document was adopted.  Then the workspace is  *)
(* at all times what the state says, give or take the queues of the run.   *)

Undisturbed == Adopted = {} /\ ~MayAnswerEmpty /\ ~MayFailEmbed /\ ~MayDie

Current == {CurrentPath(u) : u \in TrackedUrls}
Changed == {u \in Urls : tracked[u] # persisted[u]}
OldPath(u) == <<u, persisted[u].path>>

\* An entry has a text of its own and a file, or neither.
EntriesSound ==
    \A u \in Urls :
        /\ tracked[u].hash # Migrated   /\ (tracked[u].hash = NoText   <=> tracked[u].path = NoPath)
        /\ persisted[u].hash # Migrated /\ (persisted[u].hash = NoText <=> persisted[u].path = NoPath)

QueuesHoldTheChange ==
    /\ attached = {OldPath(u) : u \in PersistedUrls}
    /\ Range(addPaths) = {CurrentPath(u) : u \in Changed}
    /\ Range(rmPaths)  = {OldPath(u) : u \in Changed \cap PersistedUrls}
    /\ \A u \in Changed : IsTracked(u) /\ tracked[u].path # persisted[u].path

QueuesLeadToCurrent ==
    /\ (attached \ Range(rmPaths)) \cup Range(addPaths) = Current
    /\ Range(addPaths) \cap Range(rmPaths) = {}

ServeInv ==
    /\ IInv /\ EntriesSound
    /\ pc = "idle"      => attached = Current
    /\ pc = "uploading" => QueuesHoldTheChange
    /\ pc = "embedding" => QueuesLeadToCurrent

LEMMA EmptyRange == ASSUME NEW S, NEW s \in Seq(S) PROVE Range(s) = {} <=> s = <<>>
BY DEF Range

\* Nothing of a queue is left out between its batch and its rest.
LEMMA BatchTakesFront ==
    ASSUME NEW S, NEW s \in Seq(S)
    PROVE  Range(s) = Batch(s) \cup Range(Rest(s))
<1>0. BatchSize \in Nat \ {0} /\ Len(s) \in Nat /\ DOMAIN s = 1..Len(s)
  BY RagAssumption
<1>1. Batch(s) \cup Range(Rest(s)) \subseteq Range(s)
  BY BatchAndRest
<1>2. ASSUME NEW i \in 1..Len(s) PROVE s[i] \in Batch(s) \cup Range(Rest(s))
  <2>1. CASE i <= BatchSize
    <3>1. i \in 1..Min({BatchSize, Len(s)})
      <4>1. \E x \in {BatchSize, Len(s)} : \A y \in {BatchSize, Len(s)} : x <= y
        BY <1>0
      <4>2. Min({BatchSize, Len(s)}) \in {BatchSize, Len(s)}
        BY <4>1 DEF Min
      <4> QED BY <1>0, <1>2, <2>1, <4>2
    <3> QED BY <3>1 DEF Batch
  <2>2. CASE i > BatchSize
    <3>1. /\ Rest(s) \in Seq(S) /\ i - BatchSize \in 1..Len(Rest(s))
          /\ Rest(s)[i - BatchSize] = s[i]
      BY <1>0, <1>2, <2>2 DEF Rest
    <3> QED BY <3>1 DEF Range
  <2> QED BY <1>0, <2>1, <2>2
<1> QED
  BY <1>0, <1>1, <1>2 DEF Range

LEMMA ConcatenatedAll ==
    ASSUME NEW S, NEW s \in Seq(S), NEW t \in Seq(S)
    PROVE  Range(s \o t) = Range(s) \cup Range(t)
<1>1. s \o t \in Seq(S) /\ Len(s \o t) = Len(s) + Len(t) /\ Len(s) \in Nat /\ Len(t) \in Nat
  OBVIOUS
<1>2. DOMAIN s = 1..Len(s) /\ DOMAIN t = 1..Len(t) /\ DOMAIN (s \o t) = 1..(Len(s) + Len(t))
  BY <1>1
<1>3. \A i \in 1..Len(s) : (s \o t)[i] = s[i] /\ i \in 1..(Len(s) + Len(t))
  BY <1>1
<1>4. \A i \in 1..Len(t) : (s \o t)[i + Len(s)] = t[i] /\ i + Len(s) \in 1..(Len(s) + Len(t))
  BY <1>1
<1>5. Range(s) \subseteq Range(s \o t)
  BY <1>2, <1>3 DEF Range
<1>6. Range(t) \subseteq Range(s \o t)
  BY <1>2, <1>4 DEF Range
<1> QED
  BY <1>5, <1>6, Concatenated

LEMMA ListedAll == ASSUME NEW S, IsFiniteSet(S) PROVE Range(SetToSeq(S)) = S
<1> DEFINE n == Cardinality(S)
           f == SetToSeq(S)
<1>1. n \in Nat /\ ExistsBijection(1..n, S)
  BY FS_CardinalityType
<1>2. PICK g : g \in [1..n -> S] /\ IsInjective(g)
  BY <1>1 DEF ExistsBijection, Bijection, Injection
<1>3. f \in [1..n -> S] /\ IsInjective(f)
  BY <1>2 DEF SetToSeq
<1>4. f \in Injection(1..n, S)
  BY <1>3 DEF Injection, IsInjective
<1>5. Cardinality(1..n) = n
  <2>1. 1 \in Int /\ n \in Int
    BY <1>1
  <2>2. Cardinality(1..n) = IF 1 > n THEN 0 ELSE n - 1 + 1
    BY <2>1, FS_Interval, Zenon
  <2> QED BY <1>1, <2>2
<1>6. f \in Surjection(1..n, S)
  BY <1>4, <1>5, FS_Injection
<1> QED
  BY <1>3, <1>6 DEF Surjection, Range
-----------------------------------------------------------------------------
LEMMA InitServe == ASSUME Undisturbed, Init PROVE ServeInv
<1>1. IInv
  BY InitIInv
<1>2. /\ \A u \in Urls : tracked[u] = Untracked /\ persisted[u] = Untracked
      /\ attached = {} /\ pc = "idle"
  BY DEF Undisturbed, Init
<1>3. EntriesSound
  BY <1>2 DEF EntriesSound, Untracked, NoText, Migrated, NoPath
<1>4. Current = {}
  BY <1>2 DEF Current, TrackedUrls, IsTracked, Untracked
<1> QED
  BY <1>1, <1>2, <1>3, <1>4 DEF ServeInv

\* A step that touches neither the entries, nor the workspace, nor the queues.
LEMMA KeepServe ==
    ASSUME ServeInv, IInv', UNCHANGED <<tracked, persisted, attached, pc, addPaths, rmPaths>>
    PROVE  ServeInv'
<1>1. EntriesSound'
  BY DEF ServeInv, EntriesSound
<1>2. UNCHANGED <<Current, PersistedUrls, Changed>>
  BY DEF Current, PersistedUrls, Changed, TrackedUrls, IsTracked, CurrentPath
<1>3. QueuesHoldTheChange => QueuesHoldTheChange'
  BY <1>2 DEF QueuesHoldTheChange, OldPath, CurrentPath, IsTracked
<1>4. QueuesLeadToCurrent => QueuesLeadToCurrent'
  BY <1>2 DEF QueuesLeadToCurrent
<1> QED
  BY <1>1, <1>2, <1>3, <1>4 DEF ServeInv

LEMMA BeginServe ==
    ASSUME ServeInv, IInv', pc = "idle", NEW listed, NEW fetched, NEW proposal, Begin(listed, fetched, proposal)
    PROVE  ServeInv'
<1>1. /\ pc' = "uploading" /\ persisted' = tracked /\ tracked' = tracked /\ attached' = attached
      /\ addPaths' = <<>> /\ rmPaths' = <<>>
  BY DEF Begin
<1>2. EntriesSound'
  BY <1>1 DEF ServeInv, EntriesSound
<1>3. Changed' = {} /\ PersistedUrls' = TrackedUrls
  BY <1>1 DEF Changed, PersistedUrls, TrackedUrls, IsTracked
<1>4. Range(addPaths') = {} /\ Range(rmPaths') = {}
  BY <1>1 DEF Range
<1>5. attached' = {OldPath(u)' : u \in PersistedUrls'}
  BY <1>1, <1>3 DEF ServeInv, Current, OldPath, CurrentPath
<1>6. QueuesHoldTheChange'
  BY <1>3, <1>4, <1>5 DEF QueuesHoldTheChange
<1> QED
  BY <1>1, <1>2, <1>6 DEF ServeInv

\* The run ends with the workspace as the state says.
LEMMA ForgetServe ==
    ASSUME IInv', Forget, attached' = Current',
           \A u \in Urls : tracked'[u].hash # Migrated /\ (tracked'[u].hash = NoText <=> tracked'[u].path = NoPath)
    PROVE  ServeInv'
<1>1. pc' = "idle" /\ \A u \in Urls : persisted'[u] = Untracked
  BY DEF Forget
<1>2. EntriesSound'
  BY <1>1 DEF EntriesSound, Untracked, NoText, Migrated, NoPath
<1> QED
  BY <1>1, <1>2 DEF ServeInv

-----------------------------------------------------------------------------
(* The uploads.                                                            *)

LEMMA UploadServe ==
    ASSUME Undisturbed, ServeInv, IInv', NEW u \in Urls, UploadSucceeds(u)
    PROVE  ServeInv'
<1> DEFINE k   == Len(uploaded[u]) + 1
           new == [hash |-> texts[u], path |-> k]
<1>0. IInv /\ Uploading /\ EntriesSound /\ QueuesHoldTheChange /\ pc = "uploading" /\ u \in toUpload
  BY DEF UploadSucceeds, NextUpload, ServeInv, IInv
<1>1. /\ tracked' = [tracked EXCEPT ![u] = new]
      /\ addPaths' = Append(addPaths, <<u, k>>)
      /\ rmPaths' = IF persisted[u].hash \notin {NoText, Migrated} /\ persisted[u].path # NoPath
                    THEN Append(rmPaths, <<u, persisted[u].path>>) ELSE rmPaths
      /\ pc' = "uploading" /\ UNCHANGED <<persisted, attached>> /\ k <= MaxUploads
  BY <1>0 DEF UploadSucceeds, plan
<1>2. /\ tracked \in [Urls -> Entries] /\ persisted \in [Urls -> Entries]
      /\ addPaths \in Seq(DocPaths) /\ rmPaths \in Seq(DocPaths) /\ Len(uploaded[u]) \in Nat
  BY <1>0 DEF IInv, TypeOK
<1>3. tracked'[u] = new /\ \A v \in Urls \ {u} : tracked'[v] = tracked[v]
  BY <1>1, <1>2
<1>4. tracked[u] = persisted[u] /\ texts[u] \in Texts /\ texts[u] \in Nat \ {0}
  BY <1>0, RagAssumption DEF Uploading
<1>5. persisted[u].path # k
  <2>1. CASE persisted[u].path = NoPath
    BY <1>2, <2>1 DEF NoPath
  <2>2. CASE persisted[u].path # NoPath
    <3>1. persisted[u].path <= Len(uploaded[u])
      BY <1>0, <1>4, <2>2 DEF IInv, HashDescribesFile
    <3> QED BY <1>2, <3>1
  <2> QED BY <2>1, <2>2
<1>6. EntriesSound'
  <2>1. new.hash # Migrated /\ new.hash # NoText /\ new.path # NoPath
    BY <1>2, <1>4 DEF Migrated, NoText, NoPath
  <2> QED BY <1>0, <1>1, <1>3, <2>1 DEF EntriesSound
<1>7. u \notin Changed /\ Changed' = Changed \cup {u} /\ PersistedUrls' = PersistedUrls
  <2>1. tracked'[u] # persisted[u]
    BY <1>3, <1>5
  <2>2. PersistedUrls' = PersistedUrls
    BY <1>1 DEF PersistedUrls
  <2>3. u \notin Changed
    BY <1>4 DEF Changed
  <2>4. Changed' = Changed \cup {u}
    BY <1>1, <1>3, <2>1 DEF Changed
  <2> QED BY <2>2, <2>3, <2>4
<1>8. /\ CurrentPath(u)' = <<u, k>> /\ OldPath(u)' = OldPath(u)
      /\ \A v \in Changed : CurrentPath(v)' = CurrentPath(v)
  BY <1>1, <1>3, <1>7 DEF CurrentPath, OldPath, Changed
<1>9. attached' = {OldPath(v)' : v \in PersistedUrls'}
  <2>1. attached = {<<v, persisted[v].path>> : v \in PersistedUrls}
    BY <1>0 DEF QueuesHoldTheChange, OldPath
  <2> QED BY <1>1, <1>7, <2>1 DEF OldPath
<1>10. Range(addPaths') = {CurrentPath(v)' : v \in Changed'}
  <2>1. Range(addPaths') = Range(addPaths) \cup {<<u, k>>}
    <3>1. <<u, k>> \in DocPaths
      BY <1>1, <1>2, RagAssumption DEF DocPaths
    <3> HIDE DEF k
    <3> DEFINE S == DocPaths
               p == <<u, k>>
    <3>2. addPaths \in Seq(S) /\ p \in S /\ addPaths' = Append(addPaths, p)
      BY <1>1, <1>2, <3>1
    <3> HIDE DEF S, p
    <3>3. Range(addPaths') = Range(addPaths) \cup {p}
      BY <3>2, Appended
    <3> QED BY <3>3 DEF p
  <2>2. Range(addPaths) = {<<v, tracked[v].path>> : v \in Changed}
    BY <1>0 DEF QueuesHoldTheChange, CurrentPath
  <2>3. \A v \in Changed : tracked'[v] = tracked[v]
    BY <1>3, <1>7 DEF Changed
  <2>4. Range(addPaths') = {<<v, tracked'[v].path>> : v \in Changed \cup {u}}
    BY <1>3, <2>1, <2>2, <2>3
  <2> QED BY <1>7, <2>4 DEF CurrentPath
<1>11. Range(rmPaths') = {OldPath(v)' : v \in Changed' \cap PersistedUrls'}
  <2>1. Range(rmPaths) = {<<v, persisted[v].path>> : v \in Changed \cap PersistedUrls}
    BY <1>0 DEF QueuesHoldTheChange, OldPath
  <2>2. CASE u \in PersistedUrls
    <3>1. rmPaths' = Append(rmPaths, <<u, persisted[u].path>>)
      BY <1>0, <1>1, <2>2 DEF PersistedUrls, EntriesSound, NoText
    <3>2. <<u, persisted[u].path>> \in DocPaths
      BY <1>0, <1>2, <2>2, RagAssumption DEF PersistedUrls, EntriesSound, DocPaths, Entries, NoPath
    <3>3. Range(rmPaths') = Range(rmPaths) \cup {<<u, persisted[u].path>>}
      <4> DEFINE S == DocPaths
                 p == <<u, persisted[u].path>>
      <4>1. rmPaths \in Seq(S) /\ p \in S /\ rmPaths' = Append(rmPaths, p)
        BY <1>2, <3>1, <3>2
      <4> HIDE DEF S, p
      <4>2. Range(rmPaths') = Range(rmPaths) \cup {p}
        BY <4>1, Appended
      <4> QED BY <4>2 DEF p
    <3>4. (Changed \cup {u}) \cap PersistedUrls = (Changed \cap PersistedUrls) \cup {u}
      BY <2>2
    <3>5. Range(rmPaths') = {<<v, persisted[v].path>> : v \in (Changed \cup {u}) \cap PersistedUrls}
      BY <2>1, <3>3, <3>4
    <3> QED BY <1>1, <1>7, <3>5 DEF OldPath
  <2>3. CASE u \notin PersistedUrls
    <3>1. rmPaths' = rmPaths
      BY <1>1, <2>3 DEF PersistedUrls
    <3>2. (Changed \cup {u}) \cap PersistedUrls = Changed \cap PersistedUrls
      BY <2>3
    <3>3. Range(rmPaths') = {<<v, persisted[v].path>> : v \in (Changed \cup {u}) \cap PersistedUrls}
      BY <2>1, <3>1, <3>2
    <3> QED BY <1>1, <1>7, <3>3 DEF OldPath
  <2> QED BY <2>2, <2>3
<1>12. \A v \in Changed' : IsTracked(v)' /\ tracked'[v].path # persisted'[v].path
  <2>1. \A v \in Changed : tracked'[v] = tracked[v] /\ IsTracked(v) /\ tracked[v].path # persisted[v].path
    BY <1>0, <1>3, <1>7 DEF QueuesHoldTheChange, Changed
  <2>2. tracked'[u].hash # NoText /\ tracked'[u].path # persisted[u].path
    BY <1>3, <1>4, <1>5 DEF NoText
  <2> QED BY <1>1, <1>7, <2>1, <2>2 DEF IsTracked
<1>13. QueuesHoldTheChange'
  BY <1>9, <1>10, <1>11, <1>12 DEF QueuesHoldTheChange
<1> QED
  BY <1>1, <1>6, <1>13 DEF ServeInv
-----------------------------------------------------------------------------
(* The removals and the embedding batches.                                 *)

\* The queues, with the removals added, lead from what is attached to what the
\* state says once the removals have left it.
LEMMA RemovalsJoinTheQueues ==
    ASSUME IInv, Uploading, EntriesSound, QueuesHoldTheChange,
           tracked' = [u \in Urls |-> IF u \in gone THEN Untracked ELSE tracked[u]],
           NEW removed, removed = Range(rmPaths) \cup {OldPath(u) : u \in gone}
    PROVE  /\ (attached \ removed) \cup Range(addPaths) = Current'
           /\ Range(addPaths) \cap removed = {}
<1>1. /\ gone \subseteq PersistedUrls /\ gone \cap Changed = {} /\ PersistedUrls \subseteq TrackedUrls
      /\ Changed \subseteq TrackedUrls /\ TrackedUrls \subseteq Urls
      /\ \A u \in Urls \ Changed : tracked[u] = persisted[u]
  BY DEF Uploading, QueuesHoldTheChange, Changed, TrackedUrls, IInv, TypeOK
<1>2. TrackedUrls \subseteq PersistedUrls \cup Changed
  BY <1>1 DEF TrackedUrls, PersistedUrls, IsTracked
<1>3. TrackedUrls' = TrackedUrls \ gone
  BY <1>1 DEF TrackedUrls, IsTracked, Untracked
<1>4. \A u \in TrackedUrls' : tracked'[u] = tracked[u]
  BY <1>1, <1>3
<1>5. Current' = {<<u, tracked[u].path>> : u \in TrackedUrls \ gone}
  <2>1. Current' = {<<u, tracked'[u].path>> : u \in TrackedUrls'}
    BY DEF Current, CurrentPath
  <2> QED BY <1>3, <1>4, <2>1
<1>6. /\ attached = {<<u, persisted[u].path>> : u \in PersistedUrls}
      /\ Range(addPaths) = {<<u, tracked[u].path>> : u \in Changed}
      /\ Range(rmPaths) = {<<u, persisted[u].path>> : u \in Changed \cap PersistedUrls}
      /\ \A u \in Changed : tracked[u].path # persisted[u].path
  BY DEF QueuesHoldTheChange, OldPath, CurrentPath
<1>7. removed = {<<u, persisted[u].path>> : u \in (Changed \cap PersistedUrls) \cup gone}
  <2>1. removed = Range(rmPaths) \cup {<<u, persisted[u].path>> : u \in gone}
    BY DEF OldPath
  <2> QED BY <1>6, <2>1
<1>8. attached \ removed = {<<u, persisted[u].path>> : u \in (PersistedUrls \ Changed) \ gone}
  BY <1>1, <1>6, <1>7
<1>9. \A u \in PersistedUrls \ Changed : tracked[u] = persisted[u]
  BY <1>1
<1>10. attached \ removed = {<<u, tracked[u].path>> : u \in (PersistedUrls \ Changed) \ gone}
  BY <1>8, <1>9
<1>11. TrackedUrls \ gone = ((PersistedUrls \ Changed) \ gone) \cup Changed
  BY <1>1, <1>2
<1>12. (attached \ removed) \cup Range(addPaths) = Current'
  BY <1>5, <1>6, <1>10, <1>11
<1>13. Range(addPaths) \cap removed = {}
  BY <1>1, <1>6, <1>7
<1> QED
  BY <1>12, <1>13

LEMMA DropServe == ASSUME ServeInv, IInv', DropRemoved PROVE ServeInv'
<1> DEFINE D == {<<u, persisted[u].path>> : u \in {v \in gone : persisted[v].path # NoPath}}
           detach == SetToSeq(D)
           removed == Range(rmPaths) \cup D
<1>1. /\ pc = "uploading" /\ IInv /\ Uploading /\ EntriesSound /\ QueuesHoldTheChange
      /\ UNCHANGED attached
      /\ tracked' = [u \in Urls |-> IF u \in gone THEN Untracked ELSE tracked[u]]
      /\ \/ addPaths \o rmPaths \o detach = <<>> /\ Succeed
         \/ /\ pc' = "embedding" /\ rmPaths' = rmPaths \o detach
            /\ UNCHANGED <<plan, addPaths>>
  BY DEF DropRemoved, ServeInv, IInv
<1>2. gone \subseteq Urls /\ \A u \in gone : persisted[u].path # NoPath /\ persisted[u].path \in 1..MaxUploads
  <2>1. \A u \in gone : u \in Urls /\ persisted[u].path \in 0..MaxUploads /\ persisted[u].path # NoPath
    BY <1>1 DEF IInv, TypeOK, Entries, Uploading, PersistedUrls, EntriesSound
  <2> QED BY <2>1, RagAssumption DEF NoPath
<1>3. D = {OldPath(u) : u \in gone} /\ D \subseteq DocPaths
  BY <1>2 DEF OldPath, DocPaths
<1>4. IsFiniteSet(D)
  <2>1. MaxUploads \in Int /\ 1 \in Int
    BY RagAssumption
  <2>2. IsFiniteSet(1..MaxUploads)
    BY <2>1, FS_Interval
  <2>3. IsFiniteSet(DocPaths)
    BY <2>2, RagAssumption, FS_Product DEF DocPaths
  <2> QED BY <1>3, <2>3, FS_Subset
<1>5. detach \in Seq(DocPaths) /\ Range(detach) = D
  <2>1. detach \in Seq(D) /\ Range(detach) = D
    BY <1>4, Listing, ListedAll
  <2>2. Seq(D) \subseteq Seq(DocPaths)
    BY <1>3
  <2> QED BY <2>1, <2>2
<1>6. removed = Range(rmPaths) \cup {OldPath(u) : u \in gone}
  BY <1>3
<1> HIDE DEF D, detach, removed
<1>7. /\ (attached \ removed) \cup Range(addPaths) = Current'
      /\ Range(addPaths) \cap removed = {}
  BY <1>1, <1>6, RemovalsJoinTheQueues
<1>8. \A u \in Urls : tracked'[u].hash # Migrated /\ (tracked'[u].hash = NoText <=> tracked'[u].path = NoPath)
  <2>1. \A u \in Urls : tracked'[u] = IF u \in gone THEN Untracked ELSE tracked[u]
    BY <1>1
  <2>2. Untracked.hash = NoText /\ Untracked.path = NoPath /\ NoText # Migrated
    BY DEF Untracked, NoText, Migrated
  <2> QED BY <1>1, <2>1, <2>2 DEF EntriesSound
<1>9. addPaths \in Seq(DocPaths) /\ rmPaths \in Seq(DocPaths) /\ rmPaths \o detach \in Seq(DocPaths)
      /\ Range(rmPaths \o detach) = removed
  BY <1>1, <1>5, ConcatenatedAll DEF IInv, TypeOK, removed
<1>10. CASE addPaths \o rmPaths \o detach = <<>> /\ Succeed
  <2>1. addPaths \o rmPaths \in Seq(DocPaths) /\ Range(addPaths \o rmPaths) = Range(addPaths) \cup Range(rmPaths)
    BY <1>9, ConcatenatedAll
  <2>2. Range((addPaths \o rmPaths) \o detach) = Range(addPaths \o rmPaths) \cup Range(detach)
    <3> DEFINE queued == addPaths \o rmPaths
    <3>1. queued \in Seq(DocPaths) /\ detach \in Seq(DocPaths)
      BY <1>5, <2>1
    <3> HIDE DEF queued
    <3>2. Range(queued \o detach) = Range(queued) \cup Range(detach)
      BY <3>1, ConcatenatedAll
    <3> QED BY <3>2 DEF queued
  <2>3. Range((addPaths \o rmPaths) \o detach) = {}
    BY <1>10 DEF Range
  <2>4. Range(addPaths) = {} /\ removed = {}
    BY <1>5, <2>1, <2>2, <2>3 DEF removed
  <2>5. attached' = Current'
    BY <1>1, <1>7, <2>4
  <2> QED BY <1>8, <1>10, <2>5, ForgetServe DEF Succeed
<1>11. CASE /\ pc' = "embedding" /\ rmPaths' = rmPaths \o detach
            /\ UNCHANGED <<plan, addPaths>>
  <2>1. EntriesSound'
    BY <1>1, <1>8, <1>11 DEF EntriesSound, plan
  <2>2. Range(rmPaths') = removed /\ Range(addPaths') = Range(addPaths)
    BY <1>9, <1>11
  <2>3. QueuesLeadToCurrent'
    BY <1>1, <1>7, <2>2 DEF QueuesLeadToCurrent
  <2> QED BY <1>11, <2>1, <2>3 DEF ServeInv
<1> QED
  BY <1>1, <1>10, <1>11

LEMMA EmbedServe == ASSUME ServeInv, IInv', EmbedBatch PROVE ServeInv'
<1>1. /\ pc = "embedding" /\ IInv /\ EntriesSound /\ QueuesLeadToCurrent /\ UNCHANGED <<upstream, tracked>>
      /\ attached' = (attached \ Batch(rmPaths)) \cup Batch(addPaths)
      /\ \/ Rest(addPaths) \o Rest(rmPaths) = <<>> /\ Succeed
         \/ /\ addPaths' = Rest(addPaths) /\ rmPaths' = Rest(rmPaths)
            /\ UNCHANGED <<pc, plan>>
  BY DEF EmbedBatch, ServeInv
<1>2. addPaths \in Seq(DocPaths) /\ rmPaths \in Seq(DocPaths)
  BY <1>1 DEF IInv, TypeOK
<1>3. /\ Rest(addPaths) \in Seq(DocPaths) /\ Rest(rmPaths) \in Seq(DocPaths)
      /\ Range(addPaths) = Batch(addPaths) \cup Range(Rest(addPaths))
      /\ Range(rmPaths) = Batch(rmPaths) \cup Range(Rest(rmPaths))
  BY <1>2, BatchAndRest, BatchTakesFront
<1>4. Current' = Current
  BY <1>1 DEF Current, TrackedUrls, IsTracked, CurrentPath
<1>5. /\ (attached' \ Range(Rest(rmPaths))) \cup Range(Rest(addPaths)) = Current'
      /\ Range(Rest(addPaths)) \cap Range(Rest(rmPaths)) = {}
  BY <1>1, <1>3, <1>4 DEF QueuesLeadToCurrent
<1>6. CASE Rest(addPaths) \o Rest(rmPaths) = <<>> /\ Succeed
  <2>1. Range(Rest(addPaths) \o Rest(rmPaths)) = Range(Rest(addPaths)) \cup Range(Rest(rmPaths))
    BY <1>3, ConcatenatedAll
  <2>2. Range(Rest(addPaths) \o Rest(rmPaths)) = {}
    BY <1>6 DEF Range
  <2>3. attached' = Current'
    BY <1>5, <2>1, <2>2
  <2>4. \A u \in Urls : tracked'[u].hash # Migrated /\ (tracked'[u].hash = NoText <=> tracked'[u].path = NoPath)
    BY <1>1 DEF EntriesSound
  <2> QED BY <1>6, <2>3, <2>4, ForgetServe DEF Succeed
<1>7. CASE addPaths' = Rest(addPaths) /\ rmPaths' = Rest(rmPaths) /\ UNCHANGED <<pc, plan>>
  <2>1. EntriesSound'
    BY <1>1, <1>7 DEF EntriesSound, plan
  <2>2. QueuesLeadToCurrent'
    BY <1>5, <1>7 DEF QueuesLeadToCurrent
  <2> QED BY <1>1, <1>7, <2>1, <2>2 DEF ServeInv
<1> QED
  BY <1>1, <1>6, <1>7

-----------------------------------------------------------------------------
LEMMA NextServe == ASSUME Undisturbed, ServeInv, [Next]_vars PROVE ServeInv'
<1>0. IInv'
  BY NextIInv DEF ServeInv
<1>1. CASE SourceChanges \/ IntervalElapses \/ UNCHANGED vars
  BY <1>0, <1>1, KeepServe DEF SourceChanges, IntervalElapses, vars, plan
<1>2. CASE StartRun({})
  <2>1. PICK listed \in Listings : \E fetched \in Fetches(listed) :
           \/ Halt(Removes(StillThere(listed, fetched)))
           \/ pc = "idle" /\ Begin(listed, fetched, {})
    BY <1>2 DEF StartRun
  <2>2. PICK fetched \in Fetches(listed) :
           \/ Halt(Removes(StillThere(listed, fetched)))
           \/ pc = "idle" /\ Begin(listed, fetched, {})
    BY <2>1
  <2>3. CASE Halt(Removes(StillThere(listed, fetched)))
    BY <1>0, <2>3, KeepServe DEF Halt, plan
  <2> QED BY <1>0, <2>2, <2>3, BeginServe
<1>3. ASSUME NEW proposal \in proposals, ApproveRun(proposal) PROVE ServeInv'
  <2>1. PICK listed \in Listings : \E fetched \in Fetches(listed) :
           \/ Halt(Removes(StillThere(listed, fetched)))
           \/ pc = "idle" /\ Begin(listed, fetched, {proposal})
    BY <1>3 DEF ApproveRun
  <2>2. PICK fetched \in Fetches(listed) :
           \/ Halt(Removes(StillThere(listed, fetched)))
           \/ pc = "idle" /\ Begin(listed, fetched, {proposal})
    BY <2>1
  <2>3. CASE Halt(Removes(StillThere(listed, fetched)))
    BY <1>0, <2>3, KeepServe DEF Halt, plan
  <2> QED BY <1>0, <2>2, <2>3, BeginServe
<1>4. ASSUME NEW u \in Urls, Upload(u) PROVE ServeInv'
  <2>1. CASE UploadFails(u)
    BY <1>0, <2>1, KeepServe DEF UploadFails, plan
  <2>2. CASE UploadSucceeds(u)
    BY <1>0, <2>2, UploadServe
  <2>3. ~UploadUnnamed(u)
    BY DEF UploadUnnamed, Undisturbed
  <2> QED BY <1>4, <2>1, <2>2, <2>3 DEF Upload
<1>5. CASE DropRemoved
  BY <1>0, <1>5, DropServe
<1>6. CASE EmbedBatch
  BY <1>0, <1>6, EmbedServe
<1>7. ~EmbedFails /\ ~Die
  BY DEF EmbedFails, Die, Undisturbed
<1>8. CASE CleanUp
  <2>1. attached' = attached
    BY <1>8 DEF CleanUp, ServeInv, Current
  <2> QED BY <1>0, <1>8, <2>1, KeepServe DEF CleanUp, plan
<1> QED
  BY <1>1, <1>2, <1>3, <1>4, <1>5, <1>6, <1>7, <1>8 DEF Next

\* Where nothing but uploads fails, a run that is over has left in the workspace
\* every tracked document with the text last extracted, and no other: each change
\* of the state reaches AnythingLLM, whatever the batch size and however many
\* uploads fail (apply_plan, the embedding pass and its batches).
THEOREM AppliedServes == ASSUME Undisturbed PROVE Spec => []ServedIsApplied
<1>1. Init => ServeInv
  BY InitServe
<1>2. ServeInv /\ [Next]_vars => ServeInv'
  BY NextServe
<1>3. ServeInv => ServedIsApplied
  <2> SUFFICES ASSUME ServeInv, pc = "idle" PROVE ServedIsApplied
    BY DEF ServedIsApplied, AppliedIsServed, ServesOnlyExtracted
  <2>1. attached = {<<u, tracked[u].path>> : u \in TrackedUrls}
    BY DEF ServeInv, Current, CurrentPath
  <2>2. AppliedIsServed
    BY <2>1 DEF AppliedIsServed, CurrentPath
  <2>3. ServesOnlyExtracted
    BY <2>1 DEF ServesOnlyExtracted, CurrentPath
  <2> QED BY <2>2, <2>3 DEF ServedIsApplied
<1> QED
  BY <1>1, <1>2, <1>3, PTL DEF Spec
=============================================================================
