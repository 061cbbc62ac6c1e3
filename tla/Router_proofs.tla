----------------------------- MODULE Router_proofs -----------------------------
(***************************************************************************)
(* Theorems about the router, for any number of router-keys processes,     *)
(* names, keys, clients, calls, turns and chunks, whatever fails and       *)
(* whatever the operator, the client and the chat server do.               *)
(*                                                                         *)
(* Each part has an inductive invariant of its own:                        *)
(*   IInv      follows a change from the router-keys process that makes it *)
(*             to the request that must see it: what a process under the   *)
(*             lock has loaded is still the file's content, or the         *)
(*             operator has replaced the file and nothing is promised any  *)
(*             more; a signature stands for one content; an authentication *)
(*             matches a content the file has had since it began;          *)
(*   ReqInv    how far a request has come says which refusals it passed,   *)
(*             what was written to the client is the chunks in order and   *)
(*             at most one ending after them, and the conversation is      *)
(*             settled turns with the one in hand;                         *)
(*   CacheInv  one genuine entry per query;                                *)
(*   ToolInv   what is under way, in the transport or in the buffer, is    *)
(*             exactly what the calls put together so far lack, in order;  *)
(*   FetchInv  what web_fetch connects to is the address it vetted;        *)
(*   RenewInv  the run of the renewal that is past a command has done it;  *)
(*   IdleInv   the clock the restart reads is one an arrival sets back.    *)
(* RouterInv is their conjunction; the parts share no variable, so a step  *)
(* of the router is a step or a stutter of each.                           *)
(***************************************************************************)
EXTENDS Router, SequenceTheorems, FiniteSetTheorems, TLAPS

-----------------------------------------------------------------------------
(* The keys.                                                               *)

Ops == {"add", "revoke", "revokeAll"}
Processes == [pc : {"idle", "locked", "loaded"}, op : Ops, name : Names, data : SUBSET Entries,
              key : 0..MaxMinted]
Authentications == [pc : {"idle", "stat", "read", "match", "done"}, key : 0..MaxMinted,
                    before : SUBSET Keys, promised : SUBSET Keys, ok : BOOLEAN]

Types ==
    /\ TypeOK
    /\ admin \in [Admins -> Processes]
    /\ store \in [sig : 0..MaxSaves, entries : SUBSET Entries]
    /\ auth \in Authentications
    /\ added \subseteq Keys /\ revoked \subseteq Keys

\* Only the holder of the lock is at work on the file.
LockHeld == \A a \in Admins : admin[a].pc # "idle" => lock = a

\* A key stands for one entry, and no key is known that was not minted.
OneEntryEach(set) == \A e, f \in set : e.key = f.key => e = f
KeysMinted ==
    /\ OneEntryEach(file.keys)
    /\ KeysOf(file.keys) \cup KeysOf(store.entries) \cup added \cup revoked \cup auth.promised \subseteq 1..minted
    /\ \A a \in Admins : /\ KeysOf(admin[a].data) \subseteq 1..minted
                         /\ OneEntryEach(admin[a].data)

\* What a process has loaded is what it will replace, give or take its new key,
\* which nobody has been promised.
LoadedIsCurrent ==
    \A a \in Admins : admin[a].pc = "loaded" =>
        /\ KeysOf(admin[a].data) \cap revoked = {}
        /\ file.keys \subseteq admin[a].data \/ added = {}
        /\ admin[a].key # 0 => /\ admin[a].key \in KeysOf(admin[a].data)
                               /\ admin[a].key \notin added \cup auth.promised
\* A key is minted by a process that has loaded the file.
KeysInHand == \A a \in Admins : admin[a].pc # "loaded" => admin[a].key = 0

\* Outside a read, the router's entries are what the file held under the
\* signature the router remembers.
SignatureTellsContent ==
    /\ file.sig <= saves /\ store.sig <= saves
    /\ file.sig = 0 => file.keys = {}
    /\ store.sig = 0 => store.entries = {} /\ auth.pc # "read"
    /\ auth.pc # "read" /\ store.sig = file.sig => store.entries = file.keys

Promised == (auth.promised \cap added) \ revoked
MatchIsCurrent ==
    /\ auth.pc # "idle" => auth.before \subseteq revoked
    /\ auth.pc = "match" =>
          /\ KeysOf(store.entries) \cap auth.before = {}
          /\ auth.key \in Promised => \E e \in store.entries \cap file.keys : e.key = auth.key
    /\ auth.pc = "done" =>
          /\ auth.ok => auth.key \notin auth.before
          /\ auth.key \in Promised =>
                \E e \in file.keys : e.key = auth.key /\ (auth.ok \/ now >= e.expires)

IInv ==
    /\ Types /\ NothingUndone
    /\ LockHeld /\ KeysMinted /\ LoadedIsCurrent /\ KeysInHand
    /\ SignatureTellsContent /\ MatchIsCurrent
-----------------------------------------------------------------------------
LEMMA AtRestIsProcess ==
    AtRest \in Processes /\ AtRest.pc = "idle" /\ AtRest.data = {} /\ AtRest.key = 0
BY KeysAssumption DEF AtRest, Processes, Ops

LEMMA InitIInv == Init => IInv
<1> SUFFICES ASSUME Init PROVE IInv
  OBVIOUS
<1>0. /\ file.keys = {} /\ file.sig = 0 /\ file.ok = FALSE /\ KeysOf({}) = {}
      /\ store.sig = 0 /\ store.entries = {} /\ AtRest.pc = "idle" /\ AtRest.data = {} /\ AtRest.key = 0
      /\ auth.pc = "idle" /\ auth.promised = {} /\ \A a \in Admins : admin[a] = AtRest
  BY DEF Init, Missing, AtRest, NoAuth, KeysOf
<1>1. Types
  <2>1. admin \in [Admins -> Processes]
    BY AtRestIsProcess DEF Init
  <2>2. TypeOK
    BY <1>0, KeysAssumption DEF Init, TypeOK, Missing
  <2>3. auth \in Authentications /\ store \in [sig : 0..MaxSaves, entries : SUBSET Entries]
    BY KeysAssumption DEF Init, NoAuth, Authentications
  <2> QED BY <2>1, <2>2, <2>3 DEF Init, Types
<1>2. NothingUndone /\ LockHeld /\ KeysMinted /\ LoadedIsCurrent /\ KeysInHand
  BY <1>0 DEF Init, NothingUndone, LockHeld, KeysMinted, OneEntryEach, LoadedIsCurrent, KeysInHand
<1>3. SignatureTellsContent /\ MatchIsCurrent
  BY <1>0 DEF Init, SignatureTellsContent, MatchIsCurrent
<1> QED
  BY <1>1, <1>2, <1>3 DEF IInv

-----------------------------------------------------------------------------
(* router-keys.  Up to the save the file stays as it is, so only what the  *)
(* process holds has to be looked at.                                      *)

LEMMA FileKept ==
    ASSUME IInv, UNCHANGED <<file, saves, routerVars, added, revoked>>,
           minted' \in minted..MaxMinted,
           lock' \in Admins \cup {NoAdmin}, admin' \in [Admins -> Processes],
           LockHeld', LoadedIsCurrent', KeysInHand',
           \A a \in Admins : KeysOf(admin'[a].data) \subseteq 1..minted' /\ OneEntryEach(admin'[a].data)
    PROVE  IInv'
<1>1. minted \in 0..MaxMinted /\ MaxMinted \in Nat /\ minted' \in 0..MaxMinted
  BY KeysAssumption DEF IInv, Types, TypeOK
<1>2. Types'
  BY <1>1 DEF routerVars, IInv, Types, TypeOK, Processes
<1>3. NothingUndone' /\ SignatureTellsContent' /\ MatchIsCurrent'
  BY DEF routerVars, IInv, NothingUndone, SignatureTellsContent, MatchIsCurrent, Promised
<1>4. KeysMinted'
  <2>1. 1..minted \subseteq 1..minted'
    BY <1>1
  <2> QED BY <2>1 DEF routerVars, IInv, KeysMinted
<1> QED
  BY <1>2, <1>3, <1>4 DEF IInv

LEMMA TakeLockStep == ASSUME IInv, NEW a \in Admins, TakeLock(a) PROVE IInv'
<1>0. PICK op \in Ops : \E n \in Names :
         admin' = [admin EXCEPT ![a] = [AtRest EXCEPT !.pc = "locked", !.op = op, !.name = n]]
  BY Zenon DEF TakeLock, Ops
<1>1. PICK n \in Names :
         admin' = [admin EXCEPT ![a] = [AtRest EXCEPT !.pc = "locked", !.op = op, !.name = n]]
  BY <1>0, Zenon
<1> DEFINE p == [AtRest EXCEPT !.pc = "locked", !.op = op, !.name = n]
<1>2. /\ p \in Processes /\ p.pc = "locked" /\ p.data = {} /\ p.key = 0
      /\ KeysOf(p.data) = {} /\ OneEntryEach(p.data)
  <2>1. p \in Processes /\ p.pc = "locked" /\ p.data = {} /\ p.key = 0
    BY AtRestIsProcess DEF Processes
  <2> QED BY <2>1 DEF KeysOf, OneEntryEach
<1> HIDE DEF p
<1>3. /\ admin'[a] = p /\ \A b \in Admins \ {a} : admin'[b] = admin[b]
      /\ admin' \in [Admins -> Processes]
  BY <1>1, <1>2 DEF IInv, Types, p
<1>4. lock = NoAdmin /\ lock' = a /\ UNCHANGED <<file, saves, minted, routerVars, added, revoked>>
  BY DEF TakeLock
<1>5. LockHeld'
  BY <1>3, <1>4, KeysAssumption DEF IInv, LockHeld
<1>6. LoadedIsCurrent' /\ KeysInHand'
  BY <1>2, <1>3, <1>4 DEF routerVars, IInv, LoadedIsCurrent, KeysInHand
<1>7. \A b \in Admins : KeysOf(admin'[b].data) \subseteq 1..minted' /\ OneEntryEach(admin'[b].data)
  BY <1>2, <1>3, <1>4 DEF IInv, KeysMinted
<1>8. minted' \in minted..MaxMinted
  BY <1>4, KeysAssumption DEF IInv, Types, TypeOK
<1> QED
  BY <1>3, <1>4, <1>5, <1>6, <1>7, <1>8, FileKept

LEMMA LoadStep == ASSUME IInv, NEW a \in Admins, Load(a) PROVE IInv'
<1>1. /\ admin[a].pc = "locked" /\ admin' = [admin EXCEPT ![a].pc = "loaded", ![a].data = file.keys]
      /\ UNCHANGED <<file, saves, lock, minted, routerVars, added, revoked>>
  BY DEF Load
<1>2. file.keys \subseteq Entries /\ admin[a] \in Processes /\ admin \in [Admins -> Processes]
  BY DEF IInv, Types, TypeOK
<1>3. /\ admin'[a] = [admin[a] EXCEPT !.pc = "loaded", !.data = file.keys]
      /\ \A b \in Admins \ {a} : admin'[b] = admin[b]
  BY <1>1, <1>2
<1>4. /\ admin'[a].pc = "loaded" /\ admin'[a].data = file.keys /\ admin'[a].key = 0
      /\ admin' \in [Admins -> Processes]
  BY <1>1, <1>2, <1>3 DEF IInv, KeysInHand, Processes
<1>5. LockHeld'
  BY <1>1, <1>3, <1>4 DEF IInv, LockHeld
<1>6. LoadedIsCurrent' /\ KeysInHand'
  BY <1>1, <1>3, <1>4 DEF routerVars, IInv, LoadedIsCurrent, KeysInHand, NothingUndone
<1>7. \A b \in Admins : KeysOf(admin'[b].data) \subseteq 1..minted' /\ OneEntryEach(admin'[b].data)
  BY <1>1, <1>3, <1>4 DEF IInv, KeysMinted
<1>8. minted' \in minted..MaxMinted /\ lock' \in Admins \cup {NoAdmin}
  BY <1>1, KeysAssumption DEF IInv, Types, TypeOK
<1> QED
  BY <1>1, <1>4, <1>5, <1>6, <1>7, <1>8, FileKept

\* The process is gone: the name is taken, the file malformed, the disk full.
LEMMA QuitStep ==
    ASSUME IInv, NEW a \in Admins, admin[a].pc # "idle", Quit(a),
           UNCHANGED <<file, saves, minted, routerVars, added, revoked>>
    PROVE  IInv'
<1>1. /\ admin'[a] = AtRest /\ \A b \in Admins \ {a} : admin'[b] = admin[b]
      /\ admin' \in [Admins -> Processes] /\ lock' = NoAdmin
  BY AtRestIsProcess DEF Quit, IInv, Types
<1>2. AtRest.pc = "idle" /\ AtRest.data = {} /\ AtRest.key = 0
  BY DEF AtRest
<1>3. \A b \in Admins : admin'[b].pc = "idle"
  BY <1>1, <1>2 DEF IInv, LockHeld
<1>4. LockHeld' /\ LoadedIsCurrent' /\ KeysInHand'
  BY <1>1, <1>2, <1>3 DEF IInv, LockHeld, LoadedIsCurrent, KeysInHand
<1>5. \A b \in Admins : KeysOf(admin'[b].data) \subseteq 1..minted' /\ OneEntryEach(admin'[b].data)
  BY <1>1, <1>2 DEF IInv, KeysMinted, KeysOf, OneEntryEach
<1>6. minted' \in minted..MaxMinted
  BY KeysAssumption DEF IInv, Types, TypeOK
<1> QED
  BY <1>1, <1>4, <1>5, <1>6, FileKept

LEMMA MintStep == ASSUME IInv, NEW a \in Admins, Mint(a) PROVE IInv'
<1> DEFINE e == [name |-> admin[a].name, key |-> minted + 1, expires |-> now + Ttl]
           D == admin[a].data
<1>1. /\ admin[a].pc = "loaded" /\ admin[a].key = 0 /\ minted < MaxMinted /\ minted' = minted + 1
      /\ admin' = [admin EXCEPT ![a].key = minted + 1, ![a].data = @ \cup {e}]
      /\ UNCHANGED <<file, saves, lock, routerVars, added, revoked>>
  BY DEF Mint
<1>2. /\ minted \in 0..MaxMinted /\ MaxMinted \in Nat /\ now \in 0..MaxNow /\ Ttl \in Nat /\ MaxNow \in Nat
      /\ admin[a] \in Processes /\ admin \in [Admins -> Processes]
  BY KeysAssumption DEF IInv, Types, TypeOK
<1>3. e \in Entries /\ e.key = minted + 1 /\ D \subseteq Entries
  BY <1>1, <1>2 DEF Entries, Keys, Processes
<1> HIDE DEF e
<1>4. /\ admin'[a] = [admin[a] EXCEPT !.key = minted + 1, !.data = D \cup {e}]
      /\ \A b \in Admins \ {a} : admin'[b] = admin[b]
  BY <1>1, <1>2
<1>5. /\ admin'[a].pc = "loaded" /\ admin'[a].data = D \cup {e} /\ admin'[a].key = minted + 1
      /\ admin'[a] \in Processes
  <2>1. minted + 1 \in 0..MaxMinted /\ D \cup {e} \in SUBSET Entries
    BY <1>1, <1>2, <1>3
  <2>2. admin'[a] = [pc |-> admin[a].pc, op |-> admin[a].op, name |-> admin[a].name,
                     data |-> D \cup {e}, key |-> minted + 1]
    BY <1>2, <1>4 DEF Processes
  <2> QED BY <1>1, <1>2, <2>1, <2>2 DEF Processes
<1>6. admin' \in [Admins -> Processes]
  BY <1>1, <1>2, <1>4, <1>5
<1>7. KeysOf(D \cup {e}) = KeysOf(D) \cup {minted + 1}
  BY <1>3 DEF KeysOf
<1>8. KeysOf(D) \subseteq 1..minted /\ OneEntryEach(D) /\ 1..minted \subseteq 1..(minted + 1)
  BY <1>2 DEF IInv, KeysMinted
<1>9. OneEntryEach(D \cup {e})
  <2>1. \A f \in D : f.key # minted + 1
    BY <1>2, <1>8 DEF KeysOf
  <2> QED BY <1>3, <1>8, <2>1 DEF OneEntryEach
<1>10. \A b \in Admins : KeysOf(admin'[b].data) \subseteq 1..minted' /\ OneEntryEach(admin'[b].data)
  <2>1. KeysOf(D \cup {e}) \subseteq 1..(minted + 1)
    <3>1. minted + 1 \in 1..(minted + 1)
      BY <1>2
    <3> HIDE DEF D
    <3> QED BY <1>7, <1>8, <3>1
  <2>2. \A b \in Admins \ {a} : KeysOf(admin[b].data) \subseteq 1..minted /\ OneEntryEach(admin[b].data)
    BY DEF IInv, KeysMinted
  <2> QED BY <1>1, <1>4, <1>5, <1>8, <1>9, <2>1, <2>2
<1>11. LockHeld'
  BY <1>1, <1>4, <1>5 DEF IInv, LockHeld
<1>12. LoadedIsCurrent' /\ KeysInHand'
  <2>1. minted + 1 \notin revoked \cup added \cup auth.promised
    BY <1>2 DEF IInv, KeysMinted
  <2>2. KeysOf(D) \cap revoked = {} /\ (file.keys \subseteq D \/ added = {})
    BY <1>1 DEF IInv, LoadedIsCurrent
  <2>3. KeysOf(D \cup {e}) \cap revoked = {} /\ minted + 1 \in KeysOf(D \cup {e})
    BY <1>7, <2>1, <2>2
  <2>4. file.keys \subseteq D \cup {e} \/ added = {}
    BY <2>2
  <2> HIDE DEF D
  <2>5. \A b \in Admins \ {a} : admin'[b] = admin[b]
    BY <1>4
  <2>6. LoadedIsCurrent'
    <3>1. UNCHANGED <<file, added, revoked, auth>>
      BY <1>1 DEF routerVars
    <3>2. ASSUME NEW b \in Admins, b # a, admin'[b].pc = "loaded"
          PROVE  /\ KeysOf(admin'[b].data) \cap revoked' = {}
                 /\ file'.keys \subseteq admin'[b].data \/ added' = {}
                 /\ admin'[b].key # 0 => /\ admin'[b].key \in KeysOf(admin'[b].data)
                                         /\ admin'[b].key \notin added' \cup auth'.promised
      BY <2>5, <3>1, <3>2 DEF IInv, LoadedIsCurrent
    <3>3. /\ KeysOf(admin'[a].data) \cap revoked' = {}
          /\ file'.keys \subseteq admin'[a].data \/ added' = {}
          /\ admin'[a].key \in KeysOf(admin'[a].data)
          /\ admin'[a].key \notin added' \cup auth'.promised
      BY <1>5, <2>1, <2>3, <2>4, <3>1
    <3> QED BY <3>2, <3>3 DEF LoadedIsCurrent
  <2>7. KeysInHand'
    BY <1>5, <2>5 DEF IInv, KeysInHand
  <2> QED BY <2>6, <2>7
<1>13. minted' \in minted..MaxMinted /\ lock' \in Admins \cup {NoAdmin}
  BY <1>1, <1>2 DEF IInv, Types, TypeOK
<1> QED
  BY <1>1, <1>6, <1>10, <1>11, <1>12, <1>13, FileKept

\* What replaces the file is what was loaded, less the entries named.
LEMMA SaveStep == ASSUME IInv, NEW a \in Admins, Save(a) PROVE IInv'
<1> DEFINE D == admin[a].data
           R == Remaining(a)
<1>0. /\ admin[a].pc = "loaded" /\ admin[a].op \in Ops /\ D \subseteq Entries /\ admin[a].key \in Nat
      /\ saves \in 0..MaxSaves /\ MaxSaves \in Nat /\ minted \in 0..MaxMinted /\ MaxMinted \in Nat
  BY KeysAssumption DEF Save, IInv, Types, TypeOK, Processes
<1>1. R \subseteq D /\ (admin[a].op = "add" => R = D /\ admin[a].key # 0)
  BY <1>0 DEF Remaining, Ops, Save
<1>2. /\ saves < MaxSaves /\ saves' = saves + 1
      /\ file' = [sig |-> saves + 1, ok |-> TRUE, keys |-> R]
      /\ added' = added \cup (IF admin[a].op = "add" THEN {admin[a].key} ELSE {})
      /\ revoked' = revoked \cup (KeysOf(D) \ KeysOf(R))
      /\ Quit(a) /\ UNCHANGED <<minted, store, auth, now>>
  BY DEF Save, routerVars
<1>3. /\ KeysOf(D) \cap revoked = {} /\ (file.keys \subseteq D \/ added = {})
      /\ OneEntryEach(D) /\ KeysOf(D) \subseteq 1..minted
      /\ admin[a].key # 0 => admin[a].key \in KeysOf(D) /\ admin[a].key \notin added \cup auth.promised
  BY <1>0 DEF IInv, LoadedIsCurrent, KeysMinted
<1> HIDE DEF D, R
<1>4. KeysOf(R) \subseteq KeysOf(D) /\ OneEntryEach(R) /\ 1..minted \subseteq Keys
  BY <1>0, <1>1, <1>3 DEF KeysOf, OneEntryEach, Keys
<1>5. /\ admin' = [admin EXCEPT ![a] = AtRest] /\ lock' = NoAdmin /\ admin' \in [Admins -> Processes]
      /\ \A b \in Admins : admin'[b].pc = "idle" /\ admin'[b].key = 0
  <2>1. /\ admin' = [admin EXCEPT ![a] = AtRest] /\ lock' = NoAdmin
        /\ admin \in [Admins -> Processes]
    BY <1>2 DEF Quit, IInv, Types
  <2>2. /\ admin'[a] = AtRest /\ admin' \in [Admins -> Processes]
        /\ \A b \in Admins \ {a} : admin'[b] = admin[b]
    BY <2>1, AtRestIsProcess
  <2>3. \A b \in Admins \ {a} : admin[b].pc = "idle" /\ admin[b].key = 0
    BY <1>0 DEF IInv, LockHeld, KeysInHand
  <2> QED BY <2>1, <2>2, <2>3, AtRestIsProcess
<1>6. added' \subseteq added \cup KeysOf(D) /\ revoked \subseteq revoked'
      /\ added' \cap auth.promised \subseteq added
  BY <1>1, <1>2, <1>3
<1>7. Types'
  <2>1. added' \subseteq Keys /\ revoked' \subseteq Keys
    BY <1>2, <1>3, <1>4, <1>6 DEF IInv, Types
  <2>2. saves' \in 0..MaxSaves /\ file' \in [sig : 0..MaxSaves, ok : BOOLEAN, keys : SUBSET Entries]
    BY <1>0, <1>1, <1>2
  <2> QED BY <1>2, <1>5, <2>1, <2>2 DEF IInv, Types, TypeOK
<1>8. NothingUndone'
  <2>1. file'.keys = R
    BY <1>2
  <2>2. KeysOf(R) \cap revoked' = {}
    BY <1>2, <1>3, <1>4
  <2>3. added \subseteq KeysOf(D) \cup revoked
    BY <1>1, <1>3 DEF IInv, NothingUndone, KeysOf
  <2>4. added' \subseteq KeysOf(R) \cup revoked'
    BY <1>2, <1>6, <2>3
  <2> QED BY <2>1, <2>2, <2>4 DEF NothingUndone
<1>9. LockHeld' /\ LoadedIsCurrent' /\ KeysInHand'
  BY <1>5 DEF LockHeld, LoadedIsCurrent, KeysInHand
<1>10. KeysMinted'
  <2>1. \A b \in Admins : KeysOf(admin'[b].data) \subseteq 1..minted /\ OneEntryEach(admin'[b].data)
    <3>1. KeysOf({}) = {} /\ OneEntryEach({})
      BY DEF KeysOf, OneEntryEach
    <3> QED BY <1>5, <3>1, AtRestIsProcess DEF IInv, Types, KeysMinted
  <2>2. file'.keys = R /\ minted' = minted /\ store' = store /\ auth' = auth
    BY <1>2
  <2>3. KeysOf(R) \cup KeysOf(store.entries) \cup added' \cup revoked' \cup auth.promised \subseteq 1..minted
    BY <1>2, <1>3, <1>4, <1>6 DEF IInv, KeysMinted
  <2> QED BY <1>4, <2>1, <2>2, <2>3 DEF KeysMinted
<1>11. SignatureTellsContent'
  <2>1. file.sig \in Nat /\ store.sig \in Nat /\ store.sig <= saves
    BY DEF IInv, Types, TypeOK, SignatureTellsContent
  <2>2. file'.sig = saves + 1 /\ store' = store /\ auth' = auth
    BY <1>2
  <2> QED BY <1>0, <1>2, <2>1, <2>2 DEF IInv, SignatureTellsContent
<1>12. ASSUME NEW e \in file.keys, e.key = auth.key, auth.key \in Promised'
       PROVE  e \in file'.keys
  <2>1. auth.key \in added /\ auth.key \notin revoked'
    BY <1>2, <1>6, <1>12 DEF Promised
  <2>2. e \in D
    BY <1>3, <2>1
  <2>3. e.key \in KeysOf(R)
    BY <1>2, <1>12, <2>1, <2>2 DEF KeysOf
  <2>4. PICK f \in R : f.key = e.key
    BY <2>3 DEF KeysOf
  <2>5. f = e
    BY <1>1, <1>3, <2>2, <2>4 DEF OneEntryEach
  <2> QED BY <1>2, <2>4, <2>5
<1>13. MatchIsCurrent'
  <2>1. auth' = auth /\ store' = store /\ now' = now /\ (auth.key \in Promised' => auth.key \in Promised)
    BY <1>2, <1>6 DEF Promised
  <2>2. auth.pc # "idle" => auth.before \subseteq revoked'
    BY <1>6 DEF IInv, MatchIsCurrent
  <2>3. ASSUME auth.pc = "match", auth.key \in Promised'
        PROVE  \E e \in store.entries \cap file'.keys : e.key = auth.key
    BY <1>12, <2>1, <2>3 DEF IInv, MatchIsCurrent
  <2>4. ASSUME auth.pc = "done", auth.key \in Promised'
        PROVE  \E e \in file'.keys : e.key = auth.key /\ (auth.ok \/ now >= e.expires)
    BY <1>12, <2>1, <2>4 DEF IInv, MatchIsCurrent
  <2> QED BY <2>1, <2>2, <2>3, <2>4 DEF IInv, MatchIsCurrent
<1> QED
  BY <1>7, <1>8, <1>9, <1>10, <1>11, <1>13 DEF IInv

\* The operator takes the promises back with the file.
LEMMA TamperStep == ASSUME IInv, Tamper PROVE IInv'
<1>1. /\ saves < MaxSaves /\ saves' = saves + 1 /\ added' = {}
      /\ file' \in {Missing, Malformed(saves + 1)}
      /\ UNCHANGED <<lock, admin, minted, store, auth, now, revoked>>
  BY DEF Tamper, routerVars
<1>2. file'.keys = {} /\ file'.ok = FALSE /\ file'.sig \in {0, saves + 1}
      /\ file' = [sig |-> file'.sig, ok |-> FALSE, keys |-> {}]
  BY <1>1 DEF Missing, Malformed
<1>3. saves \in 0..MaxSaves /\ MaxSaves \in Nat /\ store.sig \in Nat /\ store.sig <= saves
  BY KeysAssumption DEF IInv, Types, TypeOK, SignatureTellsContent
<1>4. KeysOf({}) = {} /\ OneEntryEach({})
  BY DEF KeysOf, OneEntryEach
<1>5. Types'
  <2>1. saves' \in 0..MaxSaves /\ file'.sig \in 0..MaxSaves
    BY <1>1, <1>2, <1>3
  <2>2. file' \in [sig : 0..MaxSaves, ok : BOOLEAN, keys : SUBSET Entries]
    BY <1>2, <2>1
  <2> QED BY <1>1, <2>1, <2>2 DEF IInv, Types, TypeOK
<1>6. NothingUndone' /\ LockHeld' /\ KeysMinted' /\ KeysInHand'
  BY <1>1, <1>2, <1>4 DEF IInv, NothingUndone, LockHeld, KeysMinted, KeysInHand
<1>7. LoadedIsCurrent'
  BY <1>1 DEF IInv, LoadedIsCurrent
<1>8. SignatureTellsContent'
  BY <1>1, <1>2, <1>3 DEF IInv, SignatureTellsContent
<1>9. MatchIsCurrent'
  BY <1>1 DEF IInv, MatchIsCurrent, Promised
<1> QED
  BY <1>5, <1>6, <1>7, <1>8, <1>9 DEF IInv

-----------------------------------------------------------------------------
(* The router.                                                             *)

\* What an authentication changes is the router's alone.
LEMMA AdminsKept ==
    ASSUME IInv, UNCHANGED adminVars, now' \in 0..MaxNow,
           store' \in [sig : 0..MaxSaves, entries : SUBSET Entries], auth' \in Authentications,
           KeysOf(store'.entries) \subseteq 1..minted, auth'.promised \subseteq added \cup auth.promised,
           SignatureTellsContent', MatchIsCurrent'
    PROVE  IInv'
<1>1. UNCHANGED <<file, saves, lock, admin, minted, added, revoked>>
  BY DEF adminVars
<1>2. Types'
  BY <1>1 DEF IInv, Types, TypeOK, Authentications
<1>3. NothingUndone' /\ LockHeld' /\ KeysInHand'
  BY <1>1 DEF IInv, NothingUndone, LockHeld, KeysInHand
<1>4. KeysMinted'
  BY <1>1 DEF IInv, KeysMinted
<1>5. LoadedIsCurrent'
  BY <1>1 DEF IInv, LoadedIsCurrent
<1> QED
  BY <1>2, <1>3, <1>4, <1>5 DEF IInv

LEMMA RouterTypes ==
    ASSUME IInv
    PROVE  /\ auth \in Authentications /\ store \in [sig : 0..MaxSaves, entries : SUBSET Entries]
           /\ now \in 0..MaxNow /\ MaxNow \in Nat /\ file.keys \subseteq Entries /\ file.sig \in 0..MaxSaves
           /\ KeysOf(store.entries) \subseteq 1..minted /\ KeysOf(file.keys) \subseteq 1..minted
           /\ minted \in 0..MaxMinted /\ MaxMinted \in Nat /\ MaxSaves \in Nat /\ saves \in 0..MaxSaves
BY KeysAssumption DEF IInv, Types, TypeOK, KeysMinted

LEMMA PresentStep == ASSUME IInv, NEW k \in 1..minted, Present(k) PROVE IInv'
<1>1. /\ auth' = [pc |-> "stat", key |-> k, before |-> revoked, promised |-> added, ok |-> FALSE]
      /\ UNCHANGED <<adminVars, store, now>> /\ auth.pc = "idle"
  BY DEF Present
<1>2. k \in 0..MaxMinted /\ revoked \in SUBSET Keys /\ added \in SUBSET Keys
  BY RouterTypes DEF IInv, Types
<1>3. auth' \in Authentications
  BY <1>1, <1>2 DEF Authentications
<1>4. SignatureTellsContent' /\ MatchIsCurrent'
  BY <1>1 DEF adminVars, IInv, SignatureTellsContent, MatchIsCurrent
<1> QED
  BY <1>1, <1>3, <1>4, RouterTypes, AdminsKept

\* The content that is matched is the file's of this moment, whether the
\* signature told so or the file was just read.
LEMMA ContentIsCurrent ==
    ASSUME IInv, UNCHANGED <<adminVars, now>>, auth.pc \in {"stat", "read"},
           auth' = [auth EXCEPT !.pc = "match"], store'.entries = file.keys
    PROVE  MatchIsCurrent'
<1>1. /\ auth'.pc = "match" /\ auth'.key = auth.key /\ auth'.before = auth.before
      /\ auth'.promised = auth.promised /\ UNCHANGED <<file, added, revoked>>
  BY RouterTypes DEF Authentications, adminVars
<1>2. auth.before \subseteq revoked
  BY DEF IInv, MatchIsCurrent
<1>3. KeysOf(file.keys) \cap auth.before = {}
  BY <1>2 DEF IInv, NothingUndone
<1>4. ASSUME auth.key \in Promised PROVE \E e \in file.keys : e.key = auth.key
  BY <1>4 DEF Promised, IInv, NothingUndone, KeysOf
<1>5. Promised' = Promised
  BY <1>1 DEF Promised
<1> QED
  BY <1>1, <1>2, <1>3, <1>4, <1>5 DEF MatchIsCurrent

LEMMA StatStep == ASSUME IInv, Stat PROVE IInv'
<1>0. auth.pc = "stat" /\ UNCHANGED <<adminVars, now>> /\ UNCHANGED <<file, saves, minted, revoked>>
  BY DEF Stat, adminVars
<1>1. CASE file.sig = 0 /\ store' = [sig |-> 0, entries |-> {}] /\ auth' = [auth EXCEPT !.pc = "match"]
  <2>1. file.keys = {} /\ store'.entries = {} /\ store'.sig = 0 /\ KeysOf({}) = {}
    BY <1>1 DEF IInv, SignatureTellsContent, KeysOf
  <2>2. auth' \in Authentications /\ auth'.promised = auth.promised /\ auth'.pc = "match"
    BY <1>1, RouterTypes DEF Authentications
  <2>3. SignatureTellsContent'
    BY <1>0, <1>1, <2>1, <2>2, RouterTypes DEF IInv, SignatureTellsContent
  <2>4. MatchIsCurrent'
    BY <1>0, <1>1, <2>1, ContentIsCurrent
  <2>5. store' \in [sig : 0..MaxSaves, entries : SUBSET Entries] /\ now' \in 0..MaxNow
    BY <1>0, <1>1, RouterTypes
  <2> QED BY <1>0, <2>1, <2>2, <2>3, <2>4, <2>5, AdminsKept
<1>2. CASE file.sig # 0 /\ file.sig = store.sig /\ auth' = [auth EXCEPT !.pc = "match"] /\ UNCHANGED store
  <2>1. store'.entries = file.keys
    BY <1>0, <1>2 DEF IInv, SignatureTellsContent
  <2>2. auth' \in Authentications /\ auth'.promised = auth.promised /\ auth'.pc = "match"
    BY <1>2, RouterTypes DEF Authentications
  <2>3. SignatureTellsContent'
    BY <1>0, <1>2, <2>1, <2>2 DEF IInv, SignatureTellsContent
  <2>4. MatchIsCurrent'
    BY <1>0, <1>2, <2>1, ContentIsCurrent
  <2> QED BY <1>0, <1>2, <2>2, <2>3, <2>4, RouterTypes, AdminsKept
<1>3. CASE /\ file.sig # 0 /\ file.sig # store.sig
           /\ store' = [store EXCEPT !.sig = file.sig] /\ auth' = [auth EXCEPT !.pc = "read"]
  <2>1. /\ auth' \in Authentications /\ auth'.pc = "read"
        /\ auth'.promised = auth.promised /\ auth'.before = auth.before
    BY <1>3, RouterTypes DEF Authentications
  <2>2. /\ store' \in [sig : 0..MaxSaves, entries : SUBSET Entries]
        /\ store'.sig = file.sig /\ store'.entries = store.entries
    BY <1>3, RouterTypes
  <2>3. SignatureTellsContent' /\ MatchIsCurrent'
    BY <1>0, <1>3, <2>1, <2>2 DEF IInv, SignatureTellsContent, MatchIsCurrent
  <2> QED BY <1>0, <2>1, <2>2, <2>3, RouterTypes, AdminsKept
<1> QED
  BY <1>1, <1>2, <1>3 DEF Stat

LEMMA ReadFileStep == ASSUME IInv, ReadFile PROVE IInv'
<1>0. /\ auth.pc = "read" /\ UNCHANGED <<adminVars, now>> /\ UNCHANGED <<file, saves, minted, revoked>>
      /\ store' = [store EXCEPT !.entries = file.keys] /\ auth' = [auth EXCEPT !.pc = "match"]
  BY DEF ReadFile, adminVars
<1>1. /\ store' \in [sig : 0..MaxSaves, entries : SUBSET Entries]
      /\ store'.sig = store.sig /\ store'.entries = file.keys
  BY <1>0, RouterTypes
<1>2. auth' \in Authentications /\ auth'.promised = auth.promised /\ auth'.pc = "match"
  BY <1>0, RouterTypes DEF Authentications
<1>3. SignatureTellsContent'
  BY <1>0, <1>1, <1>2 DEF IInv, SignatureTellsContent
<1>4. MatchIsCurrent'
  BY <1>0, <1>1, ContentIsCurrent
<1> QED
  BY <1>0, <1>1, <1>2, <1>3, <1>4, RouterTypes, AdminsKept

LEMMA MatchStep == ASSUME IInv, Match PROVE IInv'
<1> DEFINE accepted == \E e \in store.entries : e.key = auth.key /\ now < e.expires
<1>0. /\ auth.pc = "match" /\ UNCHANGED <<adminVars, store, now>>
      /\ UNCHANGED <<file, saves, minted, added, revoked>>
      /\ auth' = [auth EXCEPT !.pc = "done", !.ok = accepted]
  BY DEF Match, adminVars
<1>1. accepted \in BOOLEAN
  OBVIOUS
<1>2. accepted => auth.key \in KeysOf(store.entries)
  BY DEF KeysOf
<1>3. ASSUME NEW e \in store.entries, e.key = auth.key PROVE accepted \/ now >= e.expires
  <2>1. e.expires \in Nat /\ now \in Nat
    BY KeysAssumption, RouterTypes DEF Entries
  <2> QED BY <1>3, <2>1
<1> HIDE DEF accepted
<1>4. /\ auth' \in Authentications /\ auth'.pc = "done" /\ auth'.ok = accepted /\ auth'.key = auth.key
      /\ auth'.promised = auth.promised /\ auth'.before = auth.before
  BY <1>0, <1>1, RouterTypes DEF Authentications
<1>5. SignatureTellsContent'
  BY <1>0, <1>4 DEF IInv, SignatureTellsContent
<1>6. MatchIsCurrent'
  <2>1. Promised' = Promised
    BY <1>0, <1>4 DEF Promised
  <2>2. auth'.ok => auth'.key \notin auth'.before
    BY <1>0, <1>2, <1>4 DEF IInv, MatchIsCurrent
  <2>3. ASSUME auth.key \in Promised
        PROVE  \E e \in file.keys : e.key = auth.key /\ (accepted \/ now >= e.expires)
    BY <1>0, <1>3, <2>3 DEF IInv, MatchIsCurrent
  <2> QED BY <1>0, <1>4, <2>1, <2>2, <2>3 DEF IInv, MatchIsCurrent
<1> QED
  BY <1>0, <1>4, <1>5, <1>6, RouterTypes, AdminsKept

LEMMA AnswerStep == ASSUME IInv, Answer PROVE IInv'
<1>1. auth' = NoAuth /\ UNCHANGED <<adminVars, store, now>> /\ auth.pc = "done"
  BY DEF Answer
<1>2. auth' \in Authentications /\ auth'.promised = {} /\ auth'.pc = "idle"
  BY <1>1, RouterTypes DEF NoAuth, Authentications
<1>3. SignatureTellsContent' /\ MatchIsCurrent'
  BY <1>1, <1>2 DEF adminVars, IInv, SignatureTellsContent, MatchIsCurrent
<1> QED
  BY <1>1, <1>2, <1>3, RouterTypes, AdminsKept

\* A key that has expired stays expired.
LEMMA TickStep == ASSUME IInv, Tick PROVE IInv'
<1>1. now < MaxNow /\ now' = now + 1 /\ UNCHANGED <<adminVars, store, auth>>
  BY DEF Tick
<1>2. now' \in 0..MaxNow /\ now \in Nat
  BY <1>1, RouterTypes
<1>3. SignatureTellsContent'
  BY <1>1 DEF adminVars, IInv, SignatureTellsContent
<1>4. MatchIsCurrent'
  <2>1. /\ auth' = auth /\ store' = store /\ file' = file /\ revoked' = revoked
        /\ Promised' = Promised
    BY <1>1 DEF adminVars, Promised
  <2>2. \A e \in file.keys : now >= e.expires => now' >= e.expires
    <3>1. \A e \in file.keys : e.expires \in Nat
      BY KeysAssumption, RouterTypes DEF Entries
    <3> QED BY <1>1, <1>2, <3>1
  <2> QED BY <2>1, <2>2 DEF IInv, MatchIsCurrent
<1> QED
  BY <1>1, <1>2, <1>3, <1>4, RouterTypes, AdminsKept

-----------------------------------------------------------------------------
(* Every step, and what follows.                                           *)

LEMMA NextIInv == ASSUME IInv, [Next]_vars PROVE IInv'
<1>1. ASSUME NEW a \in Admins, TakeLock(a) \/ Load(a) \/ Mint(a) \/ Save(a) PROVE IInv'
  BY <1>1, TakeLockStep, LoadStep, MintStep, SaveStep
<1>2. ASSUME NEW a \in Admins, Refuse(a) \/ Fail(a) PROVE IInv'
  <2>1. /\ admin[a].pc # "idle" /\ Quit(a)
        /\ UNCHANGED <<file, saves, minted, routerVars, added, revoked>>
    BY <1>2 DEF Refuse, Fail
  <2> QED BY <2>1, QuitStep
<1>3. ASSUME NEW k \in 1..minted, Present(k) PROVE IInv'
  BY <1>3, PresentStep
<1>4. CASE Tamper \/ Stat \/ ReadFile \/ Match \/ Answer \/ Tick
  BY <1>4, TamperStep, StatStep, ReadFileStep, MatchStep, AnswerStep, TickStep
<1>5. CASE UNCHANGED vars
  BY <1>5 DEF vars, IInv, Types, TypeOK, NothingUndone, LockHeld, KeysMinted, LoadedIsCurrent, KeysInHand,
         SignatureTellsContent, MatchIsCurrent, Promised
<1> QED
  BY <1>1, <1>2, <1>3, <1>4, <1>5 DEF Next

\* However many router-keys processes run at once, fail or are killed, and
\* whatever the operator does to the file, a revoked key never comes back, an
\* acknowledged one is not lost, and the request that follows a change sees it,
\* though the file may be replaced between its stat and its read
\* (router-keys.py:_locked, KeyStore._reload_if_changed).
THEOREM KeysHold == Spec => []KeysTakeEffect
<1>1. Init => IInv
  BY InitIInv
<1>2. IInv /\ [Next]_vars => IInv'
  BY NextIInv
<1>3. IInv => KeysTakeEffect
  <2> SUFFICES ASSUME IInv, auth.pc = "done", auth.key \in Promised,
                      \A e \in file.keys : e.key = auth.key => now < e.expires
               PROVE  auth.ok
    BY DEF IInv, Types, MatchIsCurrent, KeysTakeEffect, NextRequestSees, Promised
  <2>1. PICK e \in file.keys : e.key = auth.key /\ (auth.ok \/ now >= e.expires)
    BY DEF IInv, MatchIsCurrent
  <2>2. now < e.expires /\ now \in Nat /\ e.expires \in Nat
    BY <2>1, KeysAssumption, RouterTypes DEF Entries
  <2> QED BY <2>1, <2>2
<1> QED
  BY <1>1, <1>2, <1>3, PTL DEF Spec

-----------------------------------------------------------------------------
(* The request: what it passed.                                            *)

LEMMA Numbers ==
    /\ MaxTurns \in Nat /\ MaxCalls \in Nat /\ MaxChunks \in Nat /\ Calls \in Nat /\ Parts \in Nat
    /\ Queries # {} /\ CacheTtl \in Nat /\ MaxEntries \in Nat /\ MaxCacheNow \in Nat
    /\ MaxRedirects \in Nat /\ MaxBytes \in Nat /\ NoAddress \notin Private
    /\ RunnerTtl \in Nat \ {0} /\ MaxKeys \in Nat \ {0} /\ RenewAt \in Nat
BY RouterAssumption

Checked == \A i \in 1..8 : ~Req!Refusals[i].if

\* SelectInSeq finds a refusal if there is one.
LEMMA LeastOfEight == ASSUME NEW I, I \subseteq 1..8, I # {} PROVE Req!Min(I) \in I
<1>1. \E x \in I : \A y \in I : x =< y
  <2> PICK k \in I : k \in 1..8
    OBVIOUS
  <2>1. CASE 1 \in I BY <2>1
  <2>2. CASE 1 \notin I /\ 2 \in I BY <2>2
  <2>3. CASE 1 \notin I /\ 2 \notin I /\ 3 \in I BY <2>3
  <2>4. CASE I \subseteq 4..8 /\ 4 \in I BY <2>4
  <2>5. CASE I \subseteq 5..8 /\ 5 \in I BY <2>5
  <2>6. CASE I \subseteq 6..8 /\ (6 \in I \/ 7 \in I \/ 8 \in I) BY <2>6
  <2> QED BY <2>1, <2>2, <2>3, <2>4, <2>5, <2>6
<1> QED BY <1>1 DEF Req!Min

LEMMA FirstIsRefusal ==
    /\ Req!FirstRefusal \in 0..8
    /\ Req!FirstRefusal = 0 => Checked
<1> DEFINE I == {i \in 1..Len(Req!Refusals) : Req!Refusals[i].if}
<1>1. Len(Req!Refusals) = 8
  BY DEF Req!Refusals
<1>2. I \subseteq 1..8 /\ (I = {} <=> Checked)
  BY <1>1 DEF Checked
<1>3. Req!FirstRefusal = IF I # {} THEN Req!Min(I) ELSE 0
  BY DEF Req!FirstRefusal, Req!SelectInSeq
<1>4. I # {} => Req!Min(I) \in I
  BY <1>2, LeastOfEight
<1> HIDE DEF I
<1>5. CASE I = {}
  BY <1>2, <1>3, <1>5
<1>6. CASE I # {}
  <2>1. Req!FirstRefusal \in 1..8
    BY <1>2, <1>3, <1>4, <1>6
  <2> QED BY <2>1
<1> QED BY <1>5, <1>6

LEMMA CheckedIs == Checked =>
    /\ Req!EndpointAllowed /\ q.body # "huge" /\ q.body # "other"
    /\ Req!Escalated => q.who # "scoped"
    /\ ~Req!Escalated => /\ ~(q.route = "chat" /\ q.media = "raw")
                         /\ ~(q.route = "chat" /\ Req!ChatViolation)
                         /\ ~(q.who = "scoped" /\ q.lane = "closed")
                         /\ ~Req!MediaRefused
<1> SUFFICES ASSUME Checked
             PROVE  /\ Req!EndpointAllowed /\ q.body # "huge" /\ q.body # "other"
                    /\ Req!Escalated => q.who # "scoped"
                    /\ ~Req!Escalated => /\ ~(q.route = "chat" /\ q.media = "raw")
                                         /\ ~(q.route = "chat" /\ Req!ChatViolation)
                                         /\ ~(q.who = "scoped" /\ q.lane = "closed")
                                         /\ ~Req!MediaRefused
  OBVIOUS
<1>1. /\ ~Req!Refusals[1].if /\ ~Req!Refusals[2].if /\ ~Req!Refusals[3].if /\ ~Req!Refusals[4].if
      /\ ~Req!Refusals[5].if /\ ~Req!Refusals[6].if /\ ~Req!Refusals[7].if /\ ~Req!Refusals[8].if
  BY DEF Checked
<1> QED BY <1>1 DEF Req!Refusals

-----------------------------------------------------------------------------
Exchanges == {"sse", "plain", "tools", "toolsPlain"}
Loops     == {"tools", "toolsPlain"}

ReqTypes == Req!TypeOK /\ Req!Plausible(q)

\* How far a request gets says which refusals it has passed, and its mode how
\* it got there.
ReqGate ==
    /\ (ph \in {"guard", "count", "run"} \/ mode # "none" \/ swapped \/ posted) => Checked
    /\ (ph \in {"guard", "count"} \/ mode \in Exchanges \/ swapped) => ~Req!Escalated
    /\ ph \in {"bearer", "guard", "count"} => (mode = "none" /\ ~posted)
    /\ posted => mode \in Exchanges
    /\ mode = "escalate" => Req!Escalated
    /\ swapped => q.who = "owner"
    /\ (mode \in Exchanges /\ q.tokens = "over" /\ Req!Counted) => (swapped /\ q.stream)
    /\ mode \in Loops => q.tools = "server"

LEMMA RefusalCode == Req!FirstRefusal # 0 => Req!Refusals[Req!FirstRefusal].code \in {400, 403, 413, 503}
<1> SUFFICES ASSUME Req!FirstRefusal # 0 PROVE Req!FirstRefusal \in 1..8
  BY DEF Req!Refusals
<1> QED BY FirstIsRefusal

LEMMA RequestsTyped == ASSUME ReqTypes, [Req!Next]_Req!vars PROVE ReqTypes'
<1> USE RouterAssumption DEF ReqTypes, Req!TypeOK, Req!Plausible, Req!Modes
<1>1. CASE Req!Refuse
  BY <1>1, RefusalCode DEF Req!Refuse, Req!Finish, Req!exchange
<1>2. CASE Req!Pass
  BY <1>2 DEF Req!Pass
<1>3. CASE Req!GuardPasses \/ Req!GuardRefuses \/ Req!TooLong
  BY <1>3 DEF Req!GuardPasses, Req!GuardRefuses, Req!TooLong, Req!Finish, Req!exchange
<1>4. CASE Req!GuardSwaps
  BY <1>4 DEF Req!GuardSwaps, Req!Mismatch, Req!Backends
<1>5. CASE Req!Start
  BY <1>5 DEF Req!Start, Req!Answering
<1>6. CASE Req!ReaderGetsChunk \/ Req!ReaderStops \/ Req!Deadline \/ Req!ClientLeaves
  <2>1. /\ UNCHANGED Req!streamIdle
        /\ ph' \in {ph, "ended"} /\ reader' \in {reader, "stopped"} /\ clock' \in {clock, "over"}
    BY <1>6 DEF Req!ReaderGetsChunk, Req!ReaderStops, Req!Deadline, Req!ClientLeaves, Req!End
  <2> QED BY <2>1 DEF Req!streamIdle
<1>7. CASE Req!Generate
  BY <1>7 DEF Req!Generate, Req!streamIdle, Req!End
<1>8. CASE Req!PlainAnswer \/ Req!BrokerAnswers
  BY <1>8 DEF Req!PlainAnswer, Req!BrokerAnswers, Req!Finish, Req!plainIdle
<1>9. CASE Req!Turn
  <2>1. MaxTurns \in Nat
    OBVIOUS
  <2>2. /\ UNCHANGED <<q, active, mode, swapped, clock>>
        /\ ph' \in {ph, "ended"} /\ status' \in {status, 200} /\ posted' \in BOOLEAN
        /\ reader' \in {"stopped", "reading"}
        /\ turn' = turn \/ (turn # MaxTurns /\ turn' = turn + 1)
    <3>0. posted \in BOOLEAN
      OBVIOUS
    <3> HIDE DEF ReqTypes, Req!TypeOK, Req!Plausible
    <3>1. CASE clock = "over" \/ turn = MaxTurns
      BY <1>9, <3>0, <3>1 DEF Req!Turn, Req!End, Req!loopIdle
    <3>2. CASE ~(clock = "over" \/ turn = MaxTurns)
      <4>1. turn' = turn + 1 /\ posted' = TRUE /\ reader' = "reading" /\ UNCHANGED <<ph, status, Req!loopIdle>>
        BY <1>9, <3>2 DEF Req!Turn
      <4> QED BY <3>2, <4>1 DEF Req!loopIdle
    <3> QED BY <3>1, <3>2
  <2>3. turn' \in 0..MaxTurns
    BY <2>1, <2>2
  <2> QED BY <2>2, <2>3
<1>10. CASE Req!AsksForTools \/ Req!RunTool
  <2>1. /\ UNCHANGED <<q, active, mode, swapped, clock, ph, status, posted, turn>>
        /\ reader' \in {reader, "stopped"}
    BY <1>10 DEF Req!AsksForTools, Req!RunTool, Req!loopIdle
  <2> QED BY <2>1
<1>11. CASE Req!TurnEnds
  BY <1>11 DEF Req!TurnEnds, Req!End, Req!loopIdle
<1>12. CASE UNCHANGED Req!vars
  BY <1>12 DEF Req!vars
<1> QED BY <1>1, <1>2, <1>3, <1>4, <1>5, <1>6, <1>7, <1>8, <1>9, <1>10, <1>11, <1>12 DEF Req!Next

LEMMA GateKept == ASSUME ReqTypes, ReqGate, [Req!Next]_Req!vars PROVE ReqGate'
<1>1. q' = q
  BY DEF Req!Next, Req!vars, Req!Refuse, Req!Pass, Req!GuardPasses, Req!GuardRefuses, Req!GuardSwaps, Req!TooLong,
         Req!Start, Req!ReaderGetsChunk, Req!ReaderStops, Req!Generate, Req!Deadline, Req!ClientLeaves,
         Req!PlainAnswer, Req!BrokerAnswers, Req!Turn, Req!AsksForTools, Req!RunTool, Req!TurnEnds,
         Req!streamIdle, Req!plainIdle, Req!loopIdle
<1>2. (Checked' <=> Checked) /\ (Req!Escalated' <=> Req!Escalated) /\ (Req!Counted' <=> Req!Counted)
  BY <1>1 DEF Checked, Req!Refusals, Req!EndpointAllowed, Req!Escalated, Req!ChatViolation, Req!MediaRefused,
              Req!Counted
<1> DEFINE Stays == /\ mode' = mode /\ swapped' = swapped /\ posted' = posted
                    /\ ph' \in {ph, "ended"}
<1>3. ASSUME Stays PROVE ReqGate'
  BY <1>1, <1>2, <1>3 DEF ReqGate, Exchanges, Loops
<1>4. CASE Req!Refuse
  BY <1>4, <1>3 DEF Req!Refuse, Req!Finish, Req!exchange
<1>5. CASE Req!Pass
  <2>1. Checked
    BY <1>5, FirstIsRefusal DEF Req!Pass
  <2> QED BY <1>5, <1>1, <1>2, <2>1 DEF Req!Pass, ReqGate, Exchanges, Loops
<1>6. CASE Req!GuardPasses
  BY <1>6, <1>1, <1>2 DEF Req!GuardPasses, Req!exchange, ReqGate, Exchanges, Loops
<1>7. CASE Req!GuardRefuses \/ Req!TooLong
  BY <1>7, <1>3 DEF Req!GuardRefuses, Req!TooLong, Req!Finish, Req!exchange
<1>8. CASE Req!GuardSwaps
  BY <1>8, <1>1, <1>2 DEF Req!GuardSwaps, ReqGate, Exchanges, Loops
<1>9. CASE Req!Start
  BY <1>9, <1>1, <1>2 DEF Req!Start, Req!Answering, ReqGate, Exchanges, Loops, ReqTypes, Req!TypeOK, Req!Request
<1>10. CASE Req!ReaderGetsChunk \/ Req!ReaderStops \/ Req!Generate \/ Req!Deadline \/ Req!ClientLeaves
  BY <1>10, <1>3 DEF Req!ReaderGetsChunk, Req!ReaderStops, Req!Generate, Req!Deadline, Req!ClientLeaves,
                     Req!streamIdle, Req!End
<1>11. CASE Req!PlainAnswer \/ Req!BrokerAnswers
  BY <1>11, <1>3 DEF Req!PlainAnswer, Req!BrokerAnswers, Req!Finish, Req!plainIdle
<1>12. CASE Req!Turn
  BY <1>12, <1>1, <1>2 DEF Req!Turn, Req!Looping, Req!End, Req!loopIdle, ReqGate, Exchanges, Loops
<1>13. CASE Req!AsksForTools \/ Req!RunTool \/ Req!TurnEnds
  BY <1>13, <1>3 DEF Req!AsksForTools, Req!RunTool, Req!TurnEnds, Req!End, Req!loopIdle
<1>14. CASE UNCHANGED Req!vars
  BY <1>14, <1>3 DEF Req!vars
<1> QED BY <1>4, <1>5, <1>6, <1>7, <1>8, <1>9, <1>10, <1>11, <1>12, <1>13, <1>14 DEF Req!Next

LEMMA GateIsEnough == ReqTypes /\ ReqGate => Req!ForwardedIsChecked /\ Req!ScopedStaysScoped
<1> SUFFICES ASSUME ReqTypes, ReqGate PROVE Req!ForwardedIsChecked /\ Req!ScopedStaysScoped
  OBVIOUS
<1>1. /\ q.route \in {"chat", "completions", "messages", "count_tokens", "embeddings", "rerank"}
      /\ q.body \in {"json", "huge", "other"} /\ q.who \in {"owner", "scoped"}
      /\ q.granted \in BOOLEAN /\ q.media \in {"none", "inline", "remote", "raw"}
  BY DEF ReqTypes, Req!TypeOK, Req!Request, Req!Routes, Req!Handler
<1>2. q.media = "raw" /\ ~Req!Handler[q.route].refusesRaw => q.route \in {"messages", "count_tokens"}
  BY <1>1 DEF ReqTypes, Req!Plausible, Req!Handler, Req!Chat, Req!Completions
<1>3. posted => Req!ForwardedIsChecked
  BY <1>1, <1>2, CheckedIs DEF ReqGate, Req!ForwardedIsChecked, Req!MediaRefused, Exchanges
<1>4. ASSUME q.who = "scoped" PROVE Req!ScopedStaysScoped
  BY <1>1, <1>4, CheckedIs DEF ReqGate, Req!ScopedStaysScoped, Req!EndpointAllowed, Req!ChatViolation, Req!Escalated,
                          ReqTypes, Req!Plausible, Exchanges, Loops
<1> QED BY <1>3, <1>4 DEF Req!ForwardedIsChecked, Req!ScopedStaysScoped

-----------------------------------------------------------------------------
(* Frames.                                                                 *)

Frames == [kind : {"data", "eof", "degraded", "done", "answer", "limit"}, n : Nat]

\* Up to its end the client has the chunks in order, and those in the queue go
\* on where they stop.
InOrder == \A i \in DOMAIN out : out[i].kind = "data" /\ out[i].n = i
GoesOn  == \A i \in DOMAIN queue : queue[i].kind = "data" => queue[i].n = Len(out) + i

ReqFrames ==
    /\ out \in Seq(Frames) /\ queue \in Seq(Frames) /\ sent \in Nat
    /\ ph \in {"bearer", "guard", "count"} => (reader = "none" /\ queue = <<>> /\ sent = 0)
    /\ ph # "ended" => InOrder
    /\ (ph # "ended" /\ mode # "sse") => out = <<>>
    /\ (ph = "run" /\ mode = "sse") => GoesOn /\ (reader = "reading" => sent = Len(out) + Len(queue))
    /\ Req!OneEnding

LEMMA EndsOnce ==
    ASSUME out \in Seq(Frames), InOrder, NEW f, out' = out \o f,
           \/ f = <<>>
           \/ f = Req!Degraded
           \/ f = <<Req!Frame("answer"), Req!Frame("done")>>
           \/ f = <<Req!Frame("limit"), Req!Frame("done")>>,
           reader' = "stopped"
    PROVE  out' \in Seq(Frames) /\ Req!OneEnding'
<1>1. CASE f = <<>>
  <2>1. out' = out
    BY <1>1
  <2> QED BY <2>1 DEF InOrder, Req!OneEnding
<1>2. ASSUME NEW k \in {"degraded", "answer", "limit"}, f = <<Req!Frame(k), Req!Frame("done")>>
      PROVE  out' \in Seq(Frames) /\ Req!OneEnding'
  <2>1. f \in Seq(Frames) /\ Len(f) = 2 /\ f[1] = [kind |-> k, n |-> 0] /\ f[2] = [kind |-> "done", n |-> 0]
    BY <1>2 DEF Req!Frame, Frames
  <2>2. /\ out' \in Seq(Frames) /\ Len(out') = Len(out) + 2 /\ Len(out) \in Nat
        /\ \A i \in 1..Len(out) : out'[i] = out[i]
        /\ out'[Len(out) + 1] = f[1] /\ out'[Len(out) + 2] = f[2]
    <3>1. /\ out \o f \in Seq(Frames) /\ Len(out \o f) = Len(out) + Len(f)
          /\ \A i \in 1..(Len(out) + Len(f)) :
               (out \o f)[i] = IF i <= Len(out) THEN out[i] ELSE f[i - Len(out)]
      BY <2>1, ConcatProperties
    <3>2. Len(out) \in Nat
      OBVIOUS
    <3> HIDE DEF InOrder
    <3> QED BY <2>1, <3>1, <3>2
  <2>3. \A i \in 1..Len(out') : i \in 1..Len(out) \/ i = Len(out) + 1 \/ i = Len(out) + 2
    BY <2>2
  <2>4. DOMAIN out' = 1..Len(out') /\ DOMAIN out = 1..Len(out)
    BY <2>2
  <2>5. \A i \in 1..Len(out) : out'[i].kind = "data" /\ out'[i].n = i
    BY <2>2, <2>4 DEF InOrder
  <2> QED BY <2>1, <2>2, <2>3, <2>4, <2>5 DEF Req!OneEnding
<1> QED
  BY <1>1, <1>2 DEF Req!Degraded

LEMMA FramesKept ==
    ASSUME ReqTypes, ReqGate, ReqFrames, [Req!Next]_Req!vars PROVE ReqFrames'
<1>1. CASE Req!Refuse \/ Req!GuardRefuses \/ Req!TooLong
  <2>1. ph' = "ended" /\ UNCHANGED <<mode, reader, queue, sent, out>> /\ reader = "none"
    BY <1>1 DEF Req!Refuse, Req!GuardRefuses, Req!TooLong, Req!Finish, Req!exchange, ReqFrames
  <2> QED BY <2>1 DEF ReqFrames, Req!OneEnding
<1>2. CASE Req!Pass
  BY <1>2 DEF Req!Pass, ReqFrames, InOrder, Req!OneEnding, ReqGate
<1>3. CASE Req!GuardPasses
  BY <1>3 DEF Req!GuardPasses, Req!exchange, ReqFrames, InOrder, Req!OneEnding
<1>4. CASE Req!GuardSwaps
  <2>1. /\ mode = "none" /\ reader = "none" /\ queue = <<>> /\ sent = 0 /\ out = <<>> /\ ph = "guard"
        /\ queue' = queue /\ sent' = sent
    BY <1>4 DEF Req!GuardSwaps, ReqGate, ReqFrames
  <2>2. \/ out' = <<>> /\ reader' = "reading" /\ ph' = "run" /\ mode' = "sse"
        \/ out' = Req!Degraded /\ reader' = "none" /\ ph' = "ended"
        \/ out' = <<>> /\ reader' = "none" /\ ph' \in {"count", "ended"} /\ mode' = "none"
    BY <1>4, <2>1 DEF Req!GuardSwaps
  <2>3. CASE out' = <<>>
    BY <2>1, <2>2, <2>3 DEF ReqFrames, InOrder, GoesOn, Req!OneEnding, Req!Degraded
  <2>4. CASE out' = Req!Degraded
    <3>1. out' = <<[kind |-> "degraded", n |-> 0], [kind |-> "done", n |-> 0]>>
      BY <2>4 DEF Req!Degraded, Req!Frame
    <3>2. out' \in Seq(Frames) /\ Req!OneEnding'
      BY <2>2, <3>1 DEF Frames, Req!OneEnding
    <3>3. ph' = "ended"
      BY <2>2, <3>1
    <3> QED BY <2>1, <3>2, <3>3 DEF ReqFrames
  <2> QED BY <2>2, <2>3, <2>4
<1>5. CASE Req!Start
  BY <1>5 DEF Req!Start, Req!Answering, ReqFrames, InOrder, GoesOn, Req!OneEnding, ReqGate
<1>6. CASE Req!ReaderGetsChunk
  <2>1. /\ ph = "run" /\ mode = "sse" /\ UNCHANGED <<ph, mode, out, reader>> /\ reader = "reading"
        /\ sent' = sent + 1 /\ queue' = Append(queue, [kind |-> "data", n |-> sent + 1])
        /\ sent = Len(out) + Len(queue) /\ GoesOn
    BY <1>6 DEF Req!ReaderGetsChunk, Req!streamIdle, ReqGate, ReqFrames, Req!OneEnding, ReqTypes, Req!TypeOK
  <2>2. [kind |-> "data", n |-> sent + 1] \in Frames
    BY DEF ReqFrames, Frames
  <2>3. /\ queue' \in Seq(Frames) /\ Len(queue') = Len(queue) + 1 /\ Len(queue) \in Nat /\ Len(out) \in Nat
        /\ \A i \in 1..Len(queue) : queue'[i] = queue[i]
        /\ queue'[Len(queue) + 1].n = sent + 1 /\ DOMAIN queue' = 1..(Len(queue) + 1)
    BY <2>1, <2>2 DEF ReqFrames
  <2>4. GoesOn'
    <3> SUFFICES ASSUME NEW i \in 1..(Len(queue) + 1), queue'[i].kind = "data"
                 PROVE  queue'[i].n = Len(out) + i
      BY <2>1, <2>3 DEF GoesOn
    <3>1. CASE i \in 1..Len(queue)
      BY <2>1, <2>3, <3>1 DEF GoesOn, ReqFrames
    <3>2. CASE i = Len(queue) + 1
      BY <2>1, <2>3, <3>2
    <3> QED BY <2>3, <3>1, <3>2
  <2>5. InOrder' /\ Req!OneEnding'
    BY <2>1 DEF ReqFrames, InOrder, Req!OneEnding
  <2> QED BY <2>1, <2>3, <2>4, <2>5 DEF ReqFrames
<1>7. CASE Req!ReaderStops
  <2>1. /\ ph = "run" /\ mode = "sse" /\ UNCHANGED <<ph, mode, out, sent>> /\ reader' = "stopped" /\ GoesOn
    BY <1>7 DEF Req!ReaderStops, Req!streamIdle, ReqGate, ReqFrames, Req!OneEnding, ReqTypes, Req!TypeOK
  <2>2. PICK k \in {"eof", "degraded"} : queue' = Append(queue, [kind |-> k, n |-> 0])
    BY <1>7 DEF Req!ReaderStops, Req!Frame
  <2>3. [kind |-> k, n |-> 0] \in Frames
    BY DEF Frames
  <2> QED BY <2>1, <2>2, <2>3 DEF ReqFrames, InOrder, GoesOn, Req!OneEnding
<1>8. CASE Req!Generate
  <2>1. /\ ph = "run" /\ mode = "sse" /\ mode' = mode /\ sent' = sent /\ InOrder /\ GoesOn
        /\ out \in Seq(Frames) /\ queue \in Seq(Frames) /\ sent \in Nat
    BY <1>8 DEF Req!Generate, Req!streamIdle, ReqFrames
  <2>2. ASSUME NEW f \in {<<>>, Req!Degraded}, Req!End(f), queue' \in Seq(Frames) PROVE ReqFrames'
    <3>1. out' = out \o f /\ ph' = "ended" /\ reader' = "stopped"
      BY <2>2 DEF Req!End, Req!Emit
    <3>2. out' \in Seq(Frames) /\ Req!OneEnding'
      BY <2>1, <2>2, <3>1, EndsOnce
    <3> QED BY <2>1, <2>2, <3>1, <3>2 DEF ReqFrames
  <2>3. CASE clock = "over"
    <3>1. Req!End(Req!Degraded) /\ queue' = queue
      BY <1>8, <2>3 DEF Req!Generate
    <3> QED BY <2>1, <2>2, <3>1
  <2>4. CASE clock # "over"
    <3>1. queue # <<>> /\ queue' = Tail(queue) /\ queue' \in Seq(Frames)
      <4>1. queue # <<>> /\ queue' = Tail(queue)
        BY <1>8, <2>4 DEF Req!Generate
      <4> QED BY <2>1, <4>1
    <3>2. CASE Head(queue).kind = "data"
      <4>1. out' = out \o <<Head(queue)>> /\ UNCHANGED <<ph, reader>>
        BY <1>8, <2>4, <3>2 DEF Req!Generate, Req!Emit
      <4>2. /\ Len(queue') = Len(queue) - 1 /\ Len(queue) \in Nat \ {0}
            /\ \A i \in 1..Len(queue') : queue'[i] = queue[i + 1]
            /\ Head(queue) = queue[1] /\ queue[1] \in Frames
        BY <2>1, <3>1
      <4>3. queue[1].n = Len(out) + 1
        BY <2>1, <3>2, <4>2 DEF GoesOn
      <4>4. /\ out' \in Seq(Frames) /\ Len(out') = Len(out) + 1 /\ Len(out) \in Nat
            /\ \A i \in 1..Len(out) : out'[i] = out[i]
            /\ out'[Len(out) + 1] = queue[1]
        BY <2>1, <4>1, <4>2
      <4>5. InOrder'
        BY <2>1, <3>2, <4>2, <4>3, <4>4 DEF InOrder
      <4>6. GoesOn'
        <5> SUFFICES ASSUME NEW i \in 1..Len(queue'), queue'[i].kind = "data"
                     PROVE  queue'[i].n = Len(out') + i
          BY <3>1 DEF GoesOn
        <5>1. i + 1 \in DOMAIN queue /\ queue'[i] = queue[i + 1]
          BY <2>1, <4>2
        <5> QED BY <2>1, <4>4, <5>1 DEF GoesOn
      <4>7. reader' = "reading" => sent' = Len(out') + Len(queue')
        BY <2>1, <4>1, <4>2, <4>4 DEF ReqFrames
      <4>8. Req!OneEnding'
        <5>1. ph' # "ended"
          BY <2>1, <4>1
        <5> QED BY <4>5, <5>1 DEF InOrder, Req!OneEnding
      <4> QED BY <2>1, <3>1, <4>1, <4>4, <4>5, <4>6, <4>7, <4>8 DEF ReqFrames
    <3>3. CASE Head(queue).kind # "data"
      <4>1. PICK f \in {<<>>, Req!Degraded} : Req!End(f)
        BY <1>8, <2>4, <3>3 DEF Req!Generate
      <4> QED BY <2>2, <3>1, <4>1
    <3> QED BY <3>2, <3>3
  <2> QED BY <2>3, <2>4
<1>9. CASE Req!Deadline
  BY <1>9 DEF Req!Deadline, Req!streamIdle, ReqFrames, InOrder, GoesOn, Req!OneEnding
<1>10. CASE Req!ClientLeaves
  <2>1. /\ ph = "run" /\ UNCHANGED <<mode, queue, sent>> /\ ph' = "ended" /\ reader' = "stopped"
        /\ out' = out \o <<>>
    BY <1>10 DEF Req!ClientLeaves, Req!streamIdle, Req!End, Req!Emit
  <2>2. out' \in Seq(Frames) /\ Req!OneEnding'
    BY <2>1, EndsOnce DEF ReqFrames
  <2> QED BY <2>1, <2>2 DEF ReqFrames
<1>11. CASE Req!PlainAnswer \/ Req!BrokerAnswers
  <2>1. /\ ph' = "ended" /\ reader' = "stopped" /\ queue' = queue /\ sent' = sent
        /\ out' = <<[kind |-> "answer", n |-> 0]>>
    BY <1>11 DEF Req!PlainAnswer, Req!BrokerAnswers, Req!Finish, Req!plainIdle, Req!Frame
  <2> QED BY <2>1 DEF ReqFrames, Req!OneEnding, Frames
<1>12. CASE Req!Turn
  <2>1. ph = "run" /\ mode \in Loops /\ mode' = mode /\ queue' = queue /\ sent' = sent /\ InOrder /\ out = <<>>
    BY <1>12 DEF Req!Turn, Req!Looping, Req!loopIdle, ReqFrames, Loops
  <2>2. CASE ph' = "ended"
    <3> PICK f \in {Req!Degraded, <<Req!Frame("limit"), Req!Frame("done")>>} : Req!End(f)
      BY <1>12, <2>1, <2>2 DEF Req!Turn
    <3>1. out' = out \o f /\ reader' = "stopped"
      BY DEF Req!End, Req!Emit
    <3>2. out' \in Seq(Frames) /\ Req!OneEnding'
      BY <2>1, <3>1, EndsOnce DEF ReqFrames
    <3> QED BY <2>1, <2>2, <3>2 DEF ReqFrames
  <2>3. CASE ph' # "ended"
    <3>1. UNCHANGED <<ph, out>>
      BY <1>12, <2>3 DEF Req!Turn, Req!End
    <3> QED BY <2>1, <3>1 DEF ReqFrames, InOrder, Req!OneEnding, Loops
  <2> QED BY <2>2, <2>3
<1>13. CASE Req!AsksForTools \/ Req!RunTool
  BY <1>13 DEF Req!AsksForTools, Req!RunTool, Req!InTurn, Req!loopIdle, ReqFrames, InOrder, GoesOn, Req!OneEnding
<1>14. CASE Req!TurnEnds
  <2>1. ph = "run" /\ mode' = mode /\ queue' = queue /\ sent' = sent /\ InOrder
    BY <1>14 DEF Req!TurnEnds, Req!InTurn, Req!loopIdle, ReqFrames
  <2> PICK f \in {Req!Degraded, <<Req!Frame("answer"), Req!Frame("done")>>} : Req!End(f)
    BY <1>14 DEF Req!TurnEnds
  <2>2. out' = out \o f /\ ph' = "ended" /\ reader' = "stopped"
    BY DEF Req!End, Req!Emit
  <2>3. out' \in Seq(Frames) /\ Req!OneEnding'
    BY <2>1, <2>2, EndsOnce DEF ReqFrames
  <2> QED BY <2>1, <2>2, <2>3 DEF ReqFrames
<1>15. CASE UNCHANGED Req!vars
  BY <1>15 DEF Req!vars, ReqFrames, InOrder, GoesOn, Req!OneEnding
<1> QED BY <1>1, <1>2, <1>3, <1>4, <1>5, <1>6, <1>7, <1>8, <1>9, <1>10, <1>11, <1>12, <1>13, <1>14, <1>15 DEF Req!Next

-----------------------------------------------------------------------------
(* The conversation of the tool loop.                                      *)

Ids      == Nat \X Nat
Messages == [role : {"assistant", "tool"}, ids : Seq(Ids)]

Result(x) == [role |-> "tool", ids |-> <<x>>]
\* The first n calls of the message at k have their results behind it.
Results(k, n) ==
    /\ k + n <= Len(msgs)
    /\ \A i \in 1..n : msgs[k + i] = Result(msgs[k].ids[i])
Settled(k) == Results(k, Len(msgs[k].ids))
\* `calls` are those of the message at k that have none yet, and nothing else
\* is behind it.
InHand(k) ==
    /\ calls # <<>> /\ Len(msgs[k].ids) = (Len(msgs) - k) + Len(calls)
    /\ Results(k, Len(msgs) - k)
    /\ \A i \in 1..Len(calls) : calls[i] = msgs[k].ids[(Len(msgs) - k) + i]

ReqTalk ==
    /\ msgs \in Seq(Messages) /\ calls \in Seq(Ids)
    /\ (mode \in Loops /\ reader = "reading") => calls = <<>>
    /\ \A k \in DOMAIN msgs : msgs[k].role = "assistant" =>
          /\ \A i \in DOMAIN msgs[k].ids : msgs[k].ids[i] # <<0, 0>>
          /\ Settled(k) \/ InHand(k)

LEMMA TalkKept ==
    ASSUME ReqTypes, ReqGate, ReqFrames, ReqTalk, [Req!Next]_Req!vars PROVE ReqTalk'
<1>1. ASSUME UNCHANGED <<msgs, calls>>, (mode' \in Loops /\ reader' = "reading") => calls = <<>>
      PROVE  ReqTalk'
  BY <1>1 DEF ReqTalk, Settled, InHand, Results
<1>2. CASE Req!Refuse \/ Req!GuardPasses \/ Req!GuardRefuses \/ Req!TooLong
  BY <1>1, <1>2 DEF Req!Refuse, Req!GuardPasses, Req!GuardRefuses, Req!TooLong, Req!Finish, Req!exchange, ReqTalk
<1>3. CASE Req!Pass
  BY <1>1, <1>3 DEF Req!Pass, Loops, ReqGate
<1>4. CASE Req!GuardSwaps
  BY <1>1, <1>4 DEF Req!GuardSwaps, ReqTalk, Loops
<1>5. CASE Req!Start
  BY <1>1, <1>5 DEF Req!Start, Req!Answering, ReqFrames, Loops
<1>6. CASE Req!ReaderGetsChunk \/ Req!ReaderStops \/ Req!Generate \/ Req!Deadline \/ Req!ClientLeaves
  BY <1>1, <1>6 DEF Req!ReaderGetsChunk, Req!ReaderStops, Req!Generate, Req!Deadline, Req!ClientLeaves,
                    Req!streamIdle, Req!End, ReqTalk
<1>7. CASE Req!PlainAnswer \/ Req!BrokerAnswers
  BY <1>1, <1>7 DEF Req!PlainAnswer, Req!BrokerAnswers, Req!Finish, Req!plainIdle
<1>8. CASE Req!Turn
  BY <1>1, <1>8 DEF Req!Turn, Req!Looping, Req!loopIdle
<1>9. CASE Req!TurnEnds
  BY <1>1, <1>9 DEF Req!TurnEnds, Req!End, Req!loopIdle
<1>10. CASE UNCHANGED Req!vars
  BY <1>1, <1>10 DEF Req!vars, ReqTalk
<1>11. CASE Req!AsksForTools
  <2>1. calls = <<>> /\ msgs \in Seq(Messages) /\ reader' = "stopped"
    BY <1>11 DEF Req!AsksForTools, Req!InTurn, ReqTalk, Loops
  <2> PICK n \in 1..MaxCalls : \E given \in [1..n -> 0..1] :
        calls' = Req!EnsureIds(given) /\ msgs' = Append(msgs, [role |-> "assistant", ids |-> Req!EnsureIds(given)])
    BY <1>11 DEF Req!AsksForTools
  <2> PICK given \in [1..n -> 0..1] :
        calls' = Req!EnsureIds(given) /\ msgs' = Append(msgs, [role |-> "assistant", ids |-> Req!EnsureIds(given)])
    OBVIOUS
  <2> DEFINE I == Req!EnsureIds(given)
             L == Len(msgs)
  <2>2. /\ I \in Seq(Ids) /\ Len(I) = n /\ n \in Nat \ {0} /\ DOMAIN I = 1..n
        /\ \A i \in 1..n : I[i] # <<0, 0>>
        /\ calls' = I
    <3>1. turn \in Nat /\ n \in Nat \ {0} /\ MaxCalls \in Nat
      BY RouterAssumption DEF ReqTypes, Req!TypeOK
    <3>2. I = [i \in 1..n |-> IF given[i] = 0 THEN <<turn, i>> ELSE <<0, given[i]>>]
      BY DEF Req!EnsureIds
    <3>3. \A i \in 1..n : given[i] \in 0..1 /\ I[i] \in Ids /\ I[i] # <<0, 0>>
      BY <3>1, <3>2 DEF Ids
    <3> QED BY <3>1, <3>2, <3>3
  <2> HIDE DEF I
  <2>3. /\ msgs' \in Seq(Messages) /\ L \in Nat /\ Len(msgs') = L + 1 /\ DOMAIN msgs' = 1..(L + 1)
        /\ \A i \in 1..L : msgs'[i] = msgs[i]
        /\ msgs'[L + 1] = [role |-> "assistant", ids |-> I]
    <3>1. [role |-> "assistant", ids |-> I] \in Messages
      BY <2>2 DEF Messages
    <3> QED BY <2>1, <3>1 DEF I
  <2> SUFFICES ASSUME NEW k \in 1..(L + 1), msgs'[k].role = "assistant"
               PROVE  /\ \A i \in DOMAIN msgs'[k].ids : msgs'[k].ids[i] # <<0, 0>>
                      /\ Settled(k)' \/ InHand(k)'
    BY <2>1, <2>2, <2>3 DEF ReqTalk, I
  <2>4. CASE k \in 1..L
    <3>1. msgs'[k] = msgs[k] /\ k \in DOMAIN msgs
      BY <2>3, <2>4
    <3>2. /\ \A i \in DOMAIN msgs[k].ids : msgs[k].ids[i] # <<0, 0>>
          /\ Settled(k)
      BY <2>1, <3>1 DEF ReqTalk, InHand
    <3>3. Settled(k)'
      <4>1. Len(msgs[k].ids) \in Nat
        BY <2>1, <3>1 DEF Messages
      <4> QED BY <2>3, <3>1, <3>2, <4>1 DEF Settled, Results
    <3> QED BY <3>1, <3>2, <3>3
  <2>5. CASE k = L + 1
    <3>1. msgs'[k].ids = I /\ Len(msgs') - k = 0
      BY <2>3, <2>5
    <3>2. Results(k, Len(msgs) - k)'
      BY <2>3, <2>5, <3>1 DEF Results
    <3>3. InHand(k)'
      <4>0. I \in Seq(Ids) /\ I # <<>> /\ calls' = I
        BY <2>2
      <4>1. calls' # <<>> /\ Len(msgs'[k].ids) = (Len(msgs') - k) + Len(calls')
        <5>1. Len(I) \in Nat /\ Len(I) = 0 + Len(I)
          BY <4>0
        <5> QED BY <3>1, <4>0, <5>1
      <4>2. \A i \in 1..Len(calls') : calls'[i] = msgs'[k].ids[(Len(msgs') - k) + i]
        <5>1. \A i \in 1..Len(I) : 0 + i = i
          OBVIOUS
        <5> QED BY <3>1, <4>0, <5>1
      <4> QED BY <3>2, <4>1, <4>2 DEF InHand
    <3> QED BY <2>2, <3>1, <3>3
  <2>6. k \in 1..L \/ k = L + 1
    BY <2>3
  <2> QED BY <2>4, <2>5, <2>6
<1>12. CASE Req!RunTool
  <2> DEFINE c == Head(calls)
             L == Len(msgs)
  <2>1. /\ calls # <<>> /\ calls' = Tail(calls) /\ msgs' = Append(msgs, Result(c))
        /\ mode' = mode /\ reader' = reader /\ calls \in Seq(Ids) /\ msgs \in Seq(Messages)
    BY <1>12 DEF Req!RunTool, Req!loopIdle, ReqTalk, Result
  <2>2. /\ c \in Ids /\ c = calls[1] /\ calls' \in Seq(Ids) /\ Len(calls) \in Nat \ {0} /\ Len(calls') = Len(calls) - 1
        /\ \A i \in 1..Len(calls') : calls'[i] = calls[i + 1]
    BY <2>1
  <2> HIDE DEF c
  <2>3. /\ msgs' \in Seq(Messages) /\ L \in Nat /\ Len(msgs') = L + 1 /\ DOMAIN msgs' = 1..(L + 1)
        /\ \A i \in 1..L : msgs'[i] = msgs[i]
        /\ msgs'[L + 1] = Result(c) /\ Result(c).role = "tool"
    <3>1. Result(c) \in Messages /\ Result(c).role = "tool"
      BY <2>2 DEF Messages, Result
    <3> QED BY <2>1, <3>1
  <2> SUFFICES ASSUME NEW k \in 1..(L + 1), msgs'[k].role = "assistant"
               PROVE  /\ \A i \in DOMAIN msgs'[k].ids : msgs'[k].ids[i] # <<0, 0>>
                      /\ Settled(k)' \/ InHand(k)'
    BY <2>1, <2>2, <2>3 DEF ReqTalk
  <2>4. k \in 1..L /\ msgs'[k] = msgs[k] /\ k \in DOMAIN msgs /\ Len(msgs[k].ids) \in Nat
    BY <2>1, <2>3 DEF Messages
  <2>5. /\ \A i \in DOMAIN msgs[k].ids : msgs[k].ids[i] # <<0, 0>>
        /\ Settled(k) \/ InHand(k)
    BY <2>4 DEF ReqTalk
  <2>6. CASE Settled(k)
    BY <2>3, <2>4, <2>5, <2>6 DEF Settled, Results
  <2>7. CASE InHand(k)
    <3> PICK d \in Nat : d = Len(msgs) - k
      BY <2>3, <2>4
    <3>1. /\ Len(msgs[k].ids) = d + Len(calls) /\ Results(k, d)
          /\ c = msgs[k].ids[d + 1]
          /\ \A i \in 1..Len(calls) : calls[i] = msgs[k].ids[d + i]
      BY <2>2, <2>4, <2>7 DEF InHand
    <3>2. Results(k, d + 1)'
      <4>0. k + (d + 1) <= Len(msgs')
        BY <2>3, <2>4
      <4> SUFFICES ASSUME NEW i \in 1..(d + 1)
                   PROVE  msgs'[k + i] = Result(msgs'[k].ids[i])
        BY <4>0 DEF Results
      <4>1. CASE i \in 1..d
        <5>1. k + i \in 1..L
          BY <2>3, <2>4, <4>1
        <5>2. msgs'[k + i] = msgs[k + i]
          BY <2>3, <5>1
        <5>3. msgs[k + i] = Result(msgs[k].ids[i])
          BY <3>1, <4>1 DEF Results
        <5> QED BY <2>4, <5>2, <5>3
      <4>2. CASE i = d + 1
        <5>1. k + i = L + 1
          BY <2>3, <2>4, <4>2
        <5>2. msgs'[k + i] = Result(c)
          BY <2>3, <5>1
        <5> QED BY <2>4, <3>1, <4>2, <5>2
      <4> QED BY <3>1, <4>1, <4>2
    <3>3. CASE calls' = <<>>
      <4>1. Len(msgs'[k].ids) = d + 1
        <5>1. Len(calls') = 0
          BY <3>3
        <5>2. Len(calls) = 1
          BY <2>2, <5>1
        <5> QED BY <2>4, <3>1, <5>2
      <4> QED BY <2>4, <2>5, <3>2, <4>1 DEF Settled
    <3>4. CASE calls' # <<>>
      <4>1. Len(msgs') - k = d + 1
        BY <2>3, <2>4
      <4>2. Len(msgs'[k].ids) = (d + 1) + Len(calls')
        BY <2>2, <2>4, <3>1
      <4>3. ASSUME NEW i \in 1..Len(calls') PROVE calls'[i] = msgs'[k].ids[(d + 1) + i]
        <5>1. i + 1 \in 1..Len(calls) /\ d + (i + 1) = (d + 1) + i /\ i \in Nat
          BY <2>2
        <5>2. calls'[i] = calls[i + 1]
          BY <2>2
        <5>3. calls[i + 1] = msgs[k].ids[d + (i + 1)]
          BY <3>1, <5>1
        <5> QED BY <2>4, <5>1, <5>2, <5>3
      <4>4. InHand(k)'
        BY <3>2, <3>4, <4>1, <4>2, <4>3 DEF InHand
      <4> QED BY <2>4, <2>5, <4>4
    <3> QED BY <3>3, <3>4
  <2> QED BY <2>5, <2>6, <2>7
<1> QED BY <1>2, <1>3, <1>4, <1>5, <1>6, <1>7, <1>8, <1>9, <1>10, <1>11, <1>12 DEF Req!Next

LEMMA TalkIsEnough == ReqTalk => Req!ConversationPaired
<1> SUFFICES ASSUME ReqTalk, NEW k \in DOMAIN msgs, msgs[k].role = "assistant",
                    NEW i \in 1..(Len(msgs[k].ids) - Len(calls))
             PROVE  /\ k + i \in DOMAIN msgs
                    /\ msgs[k + i] = Result(msgs[k].ids[i])
                    /\ msgs[k].ids[i] # <<0, 0>>
  BY DEF Req!ConversationPaired, Req!Group, Result
<1>1. /\ msgs \in Seq(Messages) /\ calls \in Seq(Ids) /\ msgs[k].ids \in Seq(Ids)
  <2>1. msgs \in Seq(Messages) /\ calls \in Seq(Ids)
    BY DEF ReqTalk
  <2>2. msgs[k] \in Messages
    BY <2>1
  <2> QED BY <2>1, <2>2 DEF Messages
<1>2. /\ k \in 1..Len(msgs) /\ Len(msgs) \in Nat /\ Len(calls) \in Nat /\ Len(msgs[k].ids) \in Nat
      /\ DOMAIN msgs = 1..Len(msgs) /\ i \in DOMAIN msgs[k].ids
  BY <1>1
<1>3. Settled(k) \/ InHand(k)
  BY DEF ReqTalk
<1>4. msgs[k].ids[i] # <<0, 0>>
  BY <1>2 DEF ReqTalk
<1>5. CASE Settled(k)
  <2>1. i \in 1..Len(msgs[k].ids) /\ k + Len(msgs[k].ids) <= Len(msgs)
    BY <1>2, <1>5 DEF Settled, Results
  <2>2. k + i \in 1..Len(msgs)
    BY <1>2, <2>1
  <2>3. msgs[k + i] = Result(msgs[k].ids[i])
    BY <1>5, <2>1 DEF Settled, Results
  <2> QED BY <1>2, <1>4, <2>2, <2>3
<1>6. CASE InHand(k)
  <2>1. i \in 1..(Len(msgs) - k)
    BY <1>2, <1>6 DEF InHand
  <2>2. k + i \in 1..Len(msgs)
    BY <1>2, <2>1
  <2>3. msgs[k + i] = Result(msgs[k].ids[i])
    BY <1>6, <2>1 DEF InHand, Results
  <2> QED BY <1>2, <1>4, <2>2, <2>3
<1> QED BY <1>3, <1>5, <1>6

-----------------------------------------------------------------------------
ReqInv == ReqTypes /\ ReqGate /\ ReqFrames /\ ReqTalk

LEMMA RequestStarts == Req!Init => ReqInv
<1> SUFFICES ASSUME Req!Init PROVE ReqInv
  OBVIOUS
<1>1. ReqTypes
  <2>1. q \in Req!Request /\ Req!Plausible(q)
    BY DEF Req!Init
  <2>2. /\ active \in Req!Backends \cup {NoBackend} /\ ph = "bearer" /\ mode = "none" /\ status = 0
        /\ swapped = FALSE /\ posted = FALSE /\ reader = "none" /\ clock = "within" /\ turn = 0
    BY DEF Req!Init
  <2>3. turn \in 0..MaxTurns
    BY <2>2, Numbers
  <2> QED BY <2>1, <2>2, <2>3 DEF ReqTypes, Req!TypeOK, Req!Modes
<1>2. ReqGate
  BY DEF Req!Init, ReqGate, Exchanges, Loops
<1>3. ReqFrames
  BY DEF Req!Init, ReqFrames, InOrder, Req!OneEnding
<1>4. ReqTalk
  BY DEF Req!Init, ReqTalk
<1> QED BY <1>1, <1>2, <1>3, <1>4 DEF ReqInv

LEMMA RequestStep == ASSUME ReqInv, [Req!Next]_Req!vars PROVE ReqInv'
BY RequestsTyped, GateKept, FramesKept, TalkKept DEF ReqInv

LEMMA RequestIsSound == ReqInv =>
    /\ Req!TypeOK /\ Req!ForwardedIsChecked /\ Req!ScopedStaysScoped
    /\ Req!OneEnding /\ Req!ConversationPaired /\ Req!AdvertisedIsServed
<1>1. Req!AdvertisedIsServed
  BY DEF Req!AdvertisedIsServed, Req!Advertised, Req!Mismatch
<1> QED BY <1>1, GateIsEnough, TalkIsEnough DEF ReqInv, ReqTypes, ReqFrames

-----------------------------------------------------------------------------
(* web_fetch.                                                              *)

FetchInv ==
    /\ Fetch!TypeOK /\ Fetch!FetchStaysPublic
    /\ body \in Nat /\ pinned \notin Private
    /\ pc = "send" => pinned \in Addresses /\ hops <= MaxRedirects

LEMMA FetchStep == ASSUME FetchInv, [Fetch!Next]_Fetch!vars PROVE FetchInv'
<1> USE Numbers DEF FetchInv, Fetch!TypeOK, Fetch!FetchStaysPublic
<1>1. CASE \E addrs \in SUBSET Addresses : Fetch!Check(addrs)
  BY <1>1 DEF Fetch!Check, Fetch!Vetted, Fetch!Return
<1>2. CASE \E to \in Addresses : Fetch!Send(to)
  BY <1>2 DEF Fetch!Send, Fetch!Connects
<1>3. CASE \E h \in Hosts : Fetch!Redirect(h)
  BY <1>3 DEF Fetch!Redirect
<1>4. CASE Fetch!Chunk
  BY <1>4 DEF Fetch!Chunk
<1>5. CASE Fetch!TooManyRedirects \/ Fetch!BodyEnds \/ Fetch!GivesUp
  BY <1>5 DEF Fetch!TooManyRedirects, Fetch!BodyEnds, Fetch!GivesUp, Fetch!Return
<1>6. CASE UNCHANGED Fetch!vars
  BY <1>6 DEF Fetch!vars
<1> QED BY <1>1, <1>2, <1>3, <1>4, <1>5, <1>6 DEF Fetch!Next

LEMMA FetchStarts == Fetch!Init => FetchInv
<1> SUFFICES ASSUME Fetch!Init PROVE FetchInv
  OBVIOUS
<1>1. /\ pc = "check" /\ host \in Hosts /\ hops = 0 /\ pinned = NoAddress /\ contacted = {} /\ body = 0
      /\ truncated = FALSE /\ result = "none"
  BY DEF Fetch!Init
<1>2. Fetch!TypeOK
  <2>1. hops \in 0..(MaxRedirects + 1)
    BY <1>1, Numbers
  <2>2. truncated \in BOOLEAN
    BY <1>1
  <2> QED BY <1>1, <2>1, <2>2 DEF Fetch!TypeOK
<1>3. Fetch!FetchStaysPublic /\ pinned \notin Private
  BY <1>1, Numbers DEF Fetch!FetchStaysPublic
<1> QED BY <1>1, <1>2, <1>3 DEF FetchInv

-----------------------------------------------------------------------------
(* The renewal of the runner's key.                                        *)

\* A run past its first command has reached the runner; one past the add holds
\* the key it issued, and one past the push has installed it.
RenewInv ==
    /\ Renew!TypeOK /\ Renew!RunnerKeepsKey
    /\ installed # 0
    /\ renewAt \notin {"idle", "reach"} => reached
    /\ renewAt = "push" => Renew!Active /\ outFile = entry.key
    /\ renewAt \in {"shred", "verify"} => Renew!Active /\ installed = entry.key

LEMMA RenewStarts == Renew!Init => RenewInv
<1> SUFFICES ASSUME Renew!Init PROVE RenewInv
  OBVIOUS
<1>1. /\ entry = [key |-> 1, left |-> RunnerTtl] /\ installed = 1 /\ issued = 1 /\ outFile = 0
      /\ renewAt = "idle" /\ found = FALSE /\ reached = FALSE /\ revoker = "nobody"
  BY DEF Renew!Init
<1>2. entry \in [key : 1..MaxKeys, left : 0..RunnerTtl]
  BY <1>1, Numbers
<1>3. Renew!TypeOK
  <2>1. outFile \in 0..MaxKeys /\ installed \in 0..MaxKeys /\ issued \in 1..MaxKeys
    BY <1>1, Numbers
  <2>2. found \in BOOLEAN /\ reached \in BOOLEAN
    BY <1>1
  <2> QED BY <1>1, <1>2, <2>1, <2>2 DEF Renew!TypeOK
<1> QED BY <1>1, <1>3 DEF RenewInv, Renew!RunnerKeepsKey

LEMMA RenewStep == ASSUME RenewInv, [Renew!Next]_Renew!vars PROVE RenewInv'
<1> USE Numbers DEF RenewInv, Renew!TypeOK, Renew!RunnerKeepsKey, Renew!NoEntry, Renew!Active, Renew!data
<1>1. CASE Renew!DayPasses
  BY <1>1 DEF Renew!DayPasses
<1>2. CASE Renew!OwnerClears
  BY <1>2 DEF Renew!OwnerClears
<1>3. CASE Renew!Starts
  BY <1>3 DEF Renew!Starts
<1>4. CASE Renew!Reaches
  BY <1>4 DEF Renew!Reaches
<1>5. CASE Renew!Revokes
  BY <1>5 DEF Renew!Revokes, Renew!Runs, Renew!RevokesKey
<1>6. CASE Renew!Adds
  BY <1>6 DEF Renew!Adds, Renew!Runs, Renew!AddsKey, Renew!WritesKey
<1>7. CASE Renew!Pushes
  BY <1>7 DEF Renew!Pushes, Renew!Runs, Renew!PushesKey
<1>8. CASE Renew!Shreds
  BY <1>8 DEF Renew!Shreds, Renew!Runs, Renew!ShredsFile
<1>9. CASE Renew!Ends
  BY <1>9 DEF Renew!Ends, Renew!Runs, Renew!RevokesKey, Renew!AddsKey, Renew!WritesKey, Renew!PushesKey,
              Renew!ShredsFile
<1>10. CASE UNCHANGED Renew!vars
  BY <1>10 DEF Renew!vars
<1> QED BY <1>1, <1>2, <1>3, <1>4, <1>5, <1>6, <1>7, <1>8, <1>9, <1>10 DEF Renew!Next

-----------------------------------------------------------------------------
(* The restart of an idle chat server.                                     *)

\* What the script is about to cut off for quiet arrived behind its back: the
\* clock it reads is the one that an arrival sets back.
IdleInv ==
    /\ Idle!TypeOK /\ Idle!NothingLiveIsCut
    /\ gen = "queued" => quiet = "short"
    /\ (restartAt = "health" /\ quiet = "long" /\ gen # "none") => unseen
    /\ (restartAt = "restart" /\ reason = "quiet" /\ gen # "none") => unseen

LEMMA IdleStarts == Idle!Init => IdleInv
<1> SUFFICES ASSUME Idle!Init PROVE IdleInv
  OBVIOUS
<1>1. /\ unit = "up" /\ server = "well" /\ gen = "none" /\ unseen = FALSE /\ quiet = "null"
      /\ armed = FALSE /\ restartAt = "idle" /\ reason = "quiet" /\ cut.gen = "none"
  BY DEF Idle!Init, Idle!Nothing
<1> QED BY <1>1 DEF IdleInv, Idle!TypeOK, Idle!NothingLiveIsCut

LEMMA IdleStep == ASSUME IdleInv, [Idle!Next]_Idle!vars PROVE IdleInv'
<1> USE DEF IdleInv, Idle!TypeOK, Idle!NothingLiveIsCut, Idle!scriptVars, Idle!worldVars
<1>1. CASE Idle!Arrives
  BY <1>1 DEF Idle!Arrives
<1>2. CASE Idle!Generates
  BY <1>2 DEF Idle!Generates
<1>3. CASE Idle!TurnEnds
  BY <1>3 DEF Idle!TurnEnds
<1>4. CASE Idle!TimePasses
  <2>1. UNCHANGED <<server, gen, unseen, restartAt, reason, cut>>
    BY <1>4 DEF Idle!TimePasses
  <2>2. \/ gen # "queued" /\ restartAt = "idle" /\ quiet' = "long" /\ UNCHANGED <<unit, armed>>
        \/ unit = "fresh" /\ unit' = "up" /\ UNCHANGED <<quiet, armed>>
        \/ armed' = FALSE /\ UNCHANGED <<unit, quiet>>
    BY <1>4 DEF Idle!TimePasses
  <2>3. CASE gen # "queued" /\ restartAt = "idle" /\ quiet' = "long" /\ UNCHANGED <<unit, armed>>
    BY <2>1, <2>3
  <2>4. CASE unit' = "up" /\ UNCHANGED <<quiet, armed>>
    BY <2>1, <2>4
  <2>5. CASE armed' = FALSE /\ UNCHANGED <<unit, quiet>>
    <3>1. unseen' \in BOOLEAN /\ armed' \in BOOLEAN
      BY <2>1, <2>5, Zenon
    <3>2. {unseen', armed'} \subseteq BOOLEAN
      BY <3>1
    <3> QED BY <2>1, <2>5, <3>2
  <2> QED BY <2>2, <2>3, <2>4, <2>5
<1>5. CASE Idle!ServerTurns \/ Idle!RouterRestarts \/ Idle!UnitComesUp
  BY <1>5 DEF Idle!ServerTurns, Idle!RouterRestarts, Idle!UnitComesUp
<1>6. CASE Idle!Starts
  BY <1>6 DEF Idle!Starts, Idle!Goes
<1>7. CASE Idle!ReadsSlots
  BY <1>7 DEF Idle!ReadsSlots, Idle!Goes, Idle!Skips, Idle!Acts
<1>8. CASE Idle!ReadsHealth
  BY <1>8 DEF Idle!ReadsHealth, Idle!Goes, Idle!Skips, Idle!Acts
<1>9. CASE Idle!Restarts
  BY <1>9 DEF Idle!Restarts
<1>10. CASE Idle!Confirms
  BY <1>10 DEF Idle!Confirms
<1>11. CASE UNCHANGED Idle!vars
  BY <1>11 DEF Idle!vars
<1> QED BY <1>1, <1>2, <1>3, <1>4, <1>5, <1>6, <1>7, <1>8, <1>9, <1>10, <1>11 DEF Idle!Next

-----------------------------------------------------------------------------
(* The search cache.                                                       *)

CacheEntries == [key : Queries, stored : 0..MaxCacheNow, value : [of : Queries, at : 0..MaxCacheNow]]

\* One genuine entry per query.
Honest(es) ==
    /\ es \in Seq(CacheEntries)
    /\ \A i, j \in DOMAIN es : es[i].key = es[j].key => i = j
    /\ \A i \in DOMAIN es : es[i].value = Cache!Answer(es[i].key, es[i].stored)

CacheClients == [pc : {"idle", "fetching", "answered"}, query : Queries, answer : {Cache!Error} \cup
                 [of : Queries, at : 0..MaxCacheNow], hit : BOOLEAN, age : Int]

CacheInv ==
    /\ cacheNow \in 0..MaxCacheNow
    /\ Honest(entries) /\ Len(entries) <= MaxEntries
    /\ client \in [Clients -> CacheClients]
    /\ \A c \in Clients : client[c].hit => (client[c].answer.of = client[c].query /\ client[c].age < CacheTtl)

LEMMA AtFinds ==
    ASSUME Honest(entries), NEW x
    PROVE  \/ Cache!At(x) = 0 /\ \A i \in DOMAIN entries : entries[i].key # x
           \/ Cache!At(x) \in DOMAIN entries /\ entries[Cache!At(x)].key = x
<1> DEFINE I == {i \in 1..Len(entries) : entries[i].key = x}
<1>1. Cache!At(x) = IF I # {} THEN Cache!Min(I) ELSE 0
  BY DEF Cache!At, Cache!SelectInSeq
<1>2. DOMAIN entries = 1..Len(entries) /\ Len(entries) \in Nat
  BY DEF Honest
<1>3. CASE I = {}
  BY <1>1, <1>2, <1>3
<1>4. ASSUME NEW k \in I PROVE Cache!Min(I) \in I
  <2>1. \A y \in I : y = k /\ k <= y
    BY <1>2, <1>4 DEF Honest
  <2> HIDE DEF I
  <2> QED BY <1>4, <2>1 DEF Cache!Min
<1>5. CASE I # {}
  <2>1. Cache!At(x) \in I
    BY <1>1, <1>4, <1>5
  <2> QED BY <1>2, <2>1
<1> QED BY <1>3, <1>5

LEMMA WithoutKeeps ==
    ASSUME Honest(entries), NEW x
    PROVE  /\ Honest(Cache!Without(x))
           /\ \A i \in DOMAIN Cache!Without(x) : Cache!Without(x)[i].key # x
           /\ Len(Cache!Without(x)) <= Len(entries)
           /\ Cache!At(x) # 0 => Len(Cache!Without(x)) = Len(entries) - 1
<1> DEFINE a == Cache!At(x)
           W == Cache!Without(x)
           L == Len(entries)
<1>1. entries \in Seq(CacheEntries) /\ L \in Nat /\ DOMAIN entries = 1..L
  BY DEF Honest
<1>2. CASE a = 0
  <2>1. W = entries
    BY <1>2 DEF Cache!Without
  <2> QED BY <1>1, <1>2, <2>1, AtFinds
<1>3. CASE a # 0
  <2>1. a \in 1..L /\ entries[a].key = x
    BY <1>1, <1>3, AtFinds
  <2>2. W = SubSeq(entries, 1, a - 1) \o SubSeq(entries, a + 1, L)
    BY <1>3 DEF Cache!Without, Cache!RemoveAt
  <2> HIDE DEF W, a
  <2>3. /\ SubSeq(entries, 1, a - 1) \in Seq(CacheEntries) /\ Len(SubSeq(entries, 1, a - 1)) = a - 1
        /\ \A i \in 1..(a - 1) : SubSeq(entries, 1, a - 1)[i] = entries[i]
    BY <1>1, <2>1
  <2>4. /\ SubSeq(entries, a + 1, L) \in Seq(CacheEntries) /\ Len(SubSeq(entries, a + 1, L)) = L - a
        /\ \A i \in 1..(L - a) : SubSeq(entries, a + 1, L)[i] = entries[a + i]
    <3>1. a + 1 \in 1..(L + 1) /\ L \in 0..L /\ a + 1 <= L + 1 /\ a \in Nat
      BY <1>1, <2>1
    <3>2. L - (a + 1) + 1 = L - a /\ \A i \in Nat : (a + 1) + i - 1 = a + i
      BY <1>1, <3>1
    <3>3. \A i \in (a + 1)..L : entries[i] \in CacheEntries
      BY <1>1, <3>1
    <3>4. a + 1 \in Int /\ L \in Int
      BY <1>1, <3>1
    <3>5. /\ SubSeq(entries, a + 1, L) \in Seq(CacheEntries)
          /\ Len(SubSeq(entries, a + 1, L)) = IF a + 1 <= L THEN L - (a + 1) + 1 ELSE 0
          /\ \A i \in 1..(L - (a + 1) + 1) : SubSeq(entries, a + 1, L)[i] = entries[(a + 1) + i - 1]
      BY <3>3, <3>4, SubSeqProperties
    <3>6. Len(SubSeq(entries, a + 1, L)) = L - a
      <4>1. CASE a = L
        BY <1>1, <2>1, <3>5, <4>1
      <4>2. CASE a # L
        <5>0. a \in Int /\ a <= L /\ L \in Int
          BY <1>1, <2>1
        <5>1. a + 1 <= L
          BY <4>2, <5>0
        <5>2. Len(SubSeq(entries, a + 1, L)) = L - (a + 1) + 1
          BY <3>5, <5>1
        <5>3. L - (a + 1) + 1 = L - a
          BY <1>1, <2>1
        <5> QED BY <5>2, <5>3
      <4> QED BY <4>1, <4>2
    <3>7. ASSUME NEW i \in 1..(L - a) PROVE SubSeq(entries, a + 1, L)[i] = entries[a + i]
      <4>1. i \in 1..(L - (a + 1) + 1) /\ (a + 1) + i - 1 = a + i
        BY <1>1, <3>1
      <4> QED BY <3>5, <4>1
    <3> QED BY <3>5, <3>6, <3>7
  <2>5. /\ W \in Seq(CacheEntries) /\ Len(W) = L - 1 /\ DOMAIN W = 1..(L - 1)
        /\ \A i \in 1..(L - 1) : W[i] = IF i < a THEN entries[i] ELSE entries[i + 1]
    <3> DEFINE s == SubSeq(entries, 1, a - 1)
               t == SubSeq(entries, a + 1, L)
    <3>1. /\ s \in Seq(CacheEntries) /\ t \in Seq(CacheEntries) /\ W = s \o t
          /\ Len(s) = a - 1 /\ Len(t) = L - a
      BY <2>2, <2>3, <2>4
    <3>2. /\ s \o t \in Seq(CacheEntries) /\ Len(s \o t) = Len(s) + Len(t)
          /\ \A i \in 1..(Len(s) + Len(t)) : (s \o t)[i] = IF i <= Len(s) THEN s[i] ELSE t[i - Len(s)]
      BY <3>1, ConcatProperties
    <3> HIDE DEF s, t
    <3>3. W \in Seq(CacheEntries) /\ Len(W) = L - 1 /\ DOMAIN W = 1..(L - 1)
      <4>1. W \in Seq(CacheEntries) /\ Len(W) = (a - 1) + (L - a)
        BY <3>1, <3>2
      <4>2. Len(W) = L - 1
        BY <1>1, <2>1, <4>1
      <4> QED BY <4>1, <4>2
    <3>4. ASSUME NEW i \in 1..(L - 1) PROVE W[i] = IF i < a THEN entries[i] ELSE entries[i + 1]
      <4>1. CASE i < a
        BY <1>1, <2>1, <2>3, <3>1, <3>2, <4>1 DEF s
      <4>2. CASE ~(i < a)
        <5>1. i - (a - 1) \in 1..(L - a) /\ a + (i - (a - 1)) = i + 1 /\ ~(i <= a - 1)
          BY <1>1, <2>1, <4>2
        <5>2. W[i] = t[i - (a - 1)]
          BY <1>1, <2>1, <3>1, <3>2, <5>1
        <5>3. t[i - (a - 1)] = entries[a + (i - (a - 1))]
          BY <2>4, <5>1 DEF t
        <5> QED BY <4>2, <5>1, <5>2, <5>3
      <4> QED BY <4>1, <4>2
    <3> QED BY <3>3, <3>4
  <2>6. \A i \in 1..(L - 1) : W[i].key # x
    <3> TAKE i \in 1..(L - 1)
    <3> DEFINE j == IF i < a THEN i ELSE i + 1
    <3>1. j \in 1..L /\ j # a
      BY <1>1, <2>1
    <3>2. W[i] = entries[j]
      BY <2>5
    <3> HIDE DEF j
    <3> QED BY <1>1, <2>1, <3>1, <3>2 DEF Honest
  <2>7. Honest(W)
    <3>1. ASSUME NEW i \in 1..(L - 1), NEW j \in 1..(L - 1), W[i].key = W[j].key PROVE i = j
      <4> DEFINE to(n) == IF n < a THEN n ELSE n + 1
      <4>1. to(i) \in 1..L /\ to(j) \in 1..L /\ W[i] = entries[to(i)] /\ W[j] = entries[to(j)]
        BY <1>1, <2>1, <2>5
      <4>2. to(i) = to(j)
        BY <1>1, <3>1, <4>1 DEF Honest
      <4> QED BY <1>1, <2>1, <4>2
    <3>2. \A i \in 1..(L - 1) : W[i].value = Cache!Answer(W[i].key, W[i].stored)
      <4> TAKE i \in 1..(L - 1)
      <4>1. PICK n \in 1..L : W[i] = entries[n]
        BY <1>1, <2>1, <2>5
      <4> QED BY <1>1, <4>1 DEF Honest
    <3> QED BY <2>5, <3>1, <3>2 DEF Honest
  <2> QED BY <1>1, <2>5, <2>6, <2>7 DEF W, a
<1> QED BY <1>2, <1>3

LEMMA AppendKeeps ==
    ASSUME NEW es, Honest(es), NEW e \in CacheEntries, e.value = Cache!Answer(e.key, e.stored),
           \A i \in DOMAIN es : es[i].key # e.key
    PROVE  Honest(Append(es, e)) /\ Len(Append(es, e)) = Len(es) + 1
<1>1. /\ Append(es, e) \in Seq(CacheEntries) /\ Len(Append(es, e)) = Len(es) + 1 /\ Len(es) \in Nat
      /\ DOMAIN Append(es, e) = 1..(Len(es) + 1) /\ DOMAIN es = 1..Len(es)
      /\ \A i \in 1..Len(es) : Append(es, e)[i] = es[i]
      /\ Append(es, e)[Len(es) + 1] = e
  BY DEF Honest
<1> DEFINE A == Append(es, e)
<1> HIDE DEF A
<1>2. \A i \in 1..(Len(es) + 1) : i \in 1..Len(es) \/ i = Len(es) + 1
  BY <1>1
<1> QED BY <1>1, <1>2 DEF Honest, A

LEMMA TailKeeps == ASSUME NEW es, Honest(es), es # <<>> PROVE Honest(Tail(es)) /\ Len(Tail(es)) = Len(es) - 1
<1>1. /\ Tail(es) \in Seq(CacheEntries) /\ Len(Tail(es)) = Len(es) - 1 /\ Len(es) \in Nat \ {0}
      /\ DOMAIN Tail(es) = 1..(Len(es) - 1) /\ DOMAIN es = 1..Len(es)
      /\ \A i \in 1..(Len(es) - 1) : Tail(es)[i] = es[i + 1]
  BY DEF Honest
<1> DEFINE T == Tail(es)
<1> HIDE DEF T
<1>2. ASSUME NEW i \in 1..(Len(es) - 1), NEW j \in 1..(Len(es) - 1), T[i].key = T[j].key PROVE i = j
  <2>1. i + 1 \in DOMAIN es /\ j + 1 \in DOMAIN es /\ T[i] = es[i + 1] /\ T[j] = es[j + 1]
    BY <1>1 DEF T
  <2>2. i + 1 = j + 1
    BY <1>2, <2>1 DEF Honest
  <2> QED BY <1>1, <2>2
<1>3. ASSUME NEW i \in 1..(Len(es) - 1) PROVE T[i].value = Cache!Answer(T[i].key, T[i].stored)
  <2>1. i + 1 \in DOMAIN es /\ T[i] = es[i + 1]
    BY <1>1 DEF T
  <2> QED BY <2>1 DEF Honest
<1> QED BY <1>1, <1>2, <1>3 DEF Honest, T

LEMMA CacheStarts == Cache!Init => CacheInv
<1> SUFFICES ASSUME Cache!Init PROVE CacheInv
  OBVIOUS
<1>1. /\ entries = <<>> /\ cacheNow = 0 /\ client = [c \in Clients |-> Cache!Idle]
  BY DEF Cache!Init
<1>2. Cache!Idle \in CacheClients /\ Cache!Idle.hit = FALSE
  BY Numbers DEF Cache!Idle, CacheClients
<1>3. Honest(entries) /\ Len(entries) = 0
  BY <1>1 DEF Honest
<1> QED BY <1>1, <1>2, <1>3, Numbers DEF CacheInv

\* A client whose answer is a miss's own, an error, or none yet.
LEMMA ClientMoves ==
    ASSUME CacheInv, NEW c \in Clients, NEW r \in CacheClients, client' = [client EXCEPT ![c] = r],
           r.hit => (r.answer.of = r.query /\ r.age < CacheTtl)
    PROVE  /\ client' \in [Clients -> CacheClients]
           /\ \A d \in Clients : client'[d].hit => (client'[d].answer.of = client'[d].query /\ client'[d].age < CacheTtl)
BY DEF CacheInv

LEMMA Asking ==
    ASSUME NEW p \in CacheClients, NEW x \in Queries
    PROVE  LET r == [p EXCEPT !.pc = "fetching", !.query = x] IN r \in CacheClients /\ r.hit = p.hit
BY DEF CacheClients

LEMMA CacheStep == ASSUME CacheInv, [Cache!Next]_Cache!vars PROVE CacheInv'
<1>0. /\ cacheNow \in 0..MaxCacheNow /\ cacheNow \in Nat /\ Honest(entries) /\ Len(entries) <= MaxEntries
      /\ entries \in Seq(CacheEntries) /\ Len(entries) \in Nat
  BY Numbers DEF CacheInv, Honest
<1>idle. Cache!Idle \in CacheClients /\ Cache!Idle.hit = FALSE
  BY Numbers DEF Cache!Idle, CacheClients
<1>1. ASSUME NEW c \in Clients, NEW x \in Queries, Cache!Hit(c, x) PROVE CacheInv'
  <2> DEFINE e == Cache!Entry(x)
             r == [pc |-> "answered", query |-> x, answer |-> e.value, hit |-> TRUE, age |-> cacheNow - e.value.at]
  <2>1. /\ Cache!At(x) # 0 /\ cacheNow - e.stored < CacheTtl /\ client' = [client EXCEPT ![c] = r]
        /\ entries' = Append(Cache!Without(x), e) /\ cacheNow' = cacheNow
    BY <1>1 DEF Cache!Hit, Cache!Fresh, Cache!Answered
  <2>2. Cache!At(x) \in DOMAIN entries /\ entries[Cache!At(x)].key = x
    BY <1>0, <2>1, AtFinds
  <2>3. e \in CacheEntries /\ e.key = x /\ e.value = Cache!Answer(x, e.stored)
    BY <1>0, <2>2 DEF Cache!Entry, Honest
  <2> HIDE DEF e
  <2>4. e.value \in [of : Queries, at : 0..MaxCacheNow] /\ e.value.of = x /\ e.value.at = e.stored
    BY <2>3 DEF CacheEntries, Cache!Answer
  <2>5. r \in CacheClients /\ (r.hit => (r.answer.of = r.query /\ r.age < CacheTtl))
    BY <1>0, <2>1, <2>4 DEF CacheClients
  <2>6. Honest(entries') /\ Len(entries') = Len(entries)
    <3>1. /\ Honest(Cache!Without(x)) /\ Len(Cache!Without(x)) = Len(entries) - 1
          /\ \A i \in DOMAIN Cache!Without(x) : Cache!Without(x)[i].key # e.key
      BY <1>0, <2>1, <2>3, WithoutKeeps
    <3>2. Honest(Append(Cache!Without(x), e)) /\ Len(Append(Cache!Without(x), e)) = Len(Cache!Without(x)) + 1
      BY <2>3, <3>1, AppendKeeps
    <3> QED BY <1>0, <2>1, <3>1, <3>2
  <2>7. /\ client' \in [Clients -> CacheClients]
        /\ \A d \in Clients : client'[d].hit => (client'[d].answer.of = client'[d].query /\ client'[d].age < CacheTtl)
    BY <2>1, <2>5, ClientMoves
  <2> QED BY <1>0, <2>1, <2>6, <2>7 DEF CacheInv
<1>2. ASSUME NEW c \in Clients, NEW x \in Queries, NEW bypass \in BOOLEAN, Cache!Miss(c, x, bypass) PROVE CacheInv'
  <2> DEFINE r == [Cache!Idle EXCEPT !.pc = "fetching", !.query = x]
  <2>1. r \in CacheClients /\ r.hit = FALSE
    BY <1>idle, Asking
  <2>2. client' = [client EXCEPT ![c] = r] /\ cacheNow' = cacheNow /\ entries' \in {entries, Cache!Without(x)}
    BY <1>2 DEF Cache!Miss
  <2>3. Honest(entries') /\ Len(entries') <= MaxEntries
    <3>1. Honest(Cache!Without(x)) /\ Len(Cache!Without(x)) <= Len(entries) /\ Len(Cache!Without(x)) \in Nat
      <4>1. Honest(Cache!Without(x)) /\ Len(Cache!Without(x)) <= Len(entries)
        BY <1>0, WithoutKeeps
      <4> QED BY <4>1 DEF Honest
    <3> QED BY <1>0, <2>2, <3>1, Numbers
  <2>4. /\ client' \in [Clients -> CacheClients]
        /\ \A d \in Clients : client'[d].hit => (client'[d].answer.of = client'[d].query /\ client'[d].age < CacheTtl)
    BY <2>1, <2>2, ClientMoves
  <2> QED BY <1>0, <2>2, <2>3, <2>4 DEF CacheInv
<1>3. ASSUME NEW c \in Clients, NEW large \in BOOLEAN, Cache!Fetched(c, large) PROVE CacheInv'
  <2> DEFINE x == client[c].query
             a == Cache!Answer(x, cacheNow)
             r == [pc |-> "answered", query |-> x, answer |-> a, hit |-> FALSE, age |-> cacheNow - a.at]
             e == [key |-> x, stored |-> cacheNow, value |-> a]
  <2>1. x \in Queries /\ a \in [of : Queries, at : 0..MaxCacheNow] /\ a.at = cacheNow
    BY <1>0 DEF CacheInv, CacheClients, Cache!Answer
  <2>2. r \in CacheClients /\ r.hit = FALSE
    BY <1>0, <2>1 DEF CacheClients
  <2>3. /\ client' = [client EXCEPT ![c] = r] /\ cacheNow' = cacheNow
        /\ entries' \in {entries, Cache!Store(x, a)}
    BY <1>3 DEF Cache!Fetched, Cache!Answered
  <2>4. e \in CacheEntries /\ e.key = x /\ e.value = Cache!Answer(e.key, e.stored)
    BY <1>0, <2>1 DEF CacheEntries
  <2>5. Honest(Cache!Store(x, a)) /\ Len(Cache!Store(x, a)) <= MaxEntries
    <3> DEFINE W == Cache!Without(x)
               full == Append(W, e)
    <3>1. /\ Honest(W) /\ Len(W) <= Len(entries) /\ \A i \in DOMAIN W : W[i].key # x
      BY <1>0, WithoutKeeps
    <3>2. Honest(full) /\ Len(full) = Len(W) + 1 /\ Len(W) \in Nat
      <4>1. Honest(full) /\ Len(full) = Len(W) + 1
        BY <2>4, <3>1, AppendKeeps
      <4> QED BY <3>1, <4>1 DEF Honest
    <3>3. Cache!Store(x, a) = IF Len(full) > MaxEntries THEN Tail(full) ELSE full
      BY DEF Cache!Store
    <3> HIDE DEF W, full
    <3>4. full # <<>> /\ Len(full) \in Nat /\ Len(full) <= MaxEntries + 1
      BY <1>0, <3>1, <3>2, Numbers
    <3>5. Honest(Tail(full)) /\ Len(Tail(full)) = Len(full) - 1
      BY <3>2, <3>4, TailKeeps
    <3> QED BY <3>2, <3>3, <3>4, <3>5, Numbers
  <2>6. /\ client' \in [Clients -> CacheClients]
        /\ \A d \in Clients : client'[d].hit => (client'[d].answer.of = client'[d].query /\ client'[d].age < CacheTtl)
    BY <2>2, <2>3, ClientMoves
  <2> QED BY <1>0, <2>3, <2>5, <2>6 DEF CacheInv
<1>4. ASSUME NEW c \in Clients, Cache!FetchFails(c) PROVE CacheInv'
  <2> DEFINE r == [pc |-> "answered", query |-> client[c].query, answer |-> Cache!Error, hit |-> FALSE,
                   age |-> cacheNow - Cache!Error.at]
  <2>1. r \in CacheClients /\ r.hit = FALSE
    BY <1>0 DEF CacheInv, CacheClients, Cache!Error
  <2>2. client' = [client EXCEPT ![c] = r] /\ UNCHANGED <<entries, cacheNow>>
    BY <1>4 DEF Cache!FetchFails, Cache!Answered
  <2>3. /\ client' \in [Clients -> CacheClients]
        /\ \A d \in Clients : client'[d].hit => (client'[d].answer.of = client'[d].query /\ client'[d].age < CacheTtl)
    BY <2>1, <2>2, ClientMoves
  <2> QED BY <1>0, <2>2, <2>3 DEF CacheInv
<1>5. ASSUME NEW c \in Clients, Cache!Leave(c) PROVE CacheInv'
  <2>1. client' = [client EXCEPT ![c] = Cache!Idle] /\ UNCHANGED <<entries, cacheNow>>
    BY <1>5 DEF Cache!Leave
  <2>2. /\ client' \in [Clients -> CacheClients]
        /\ \A d \in Clients : client'[d].hit => (client'[d].answer.of = client'[d].query /\ client'[d].age < CacheTtl)
    BY <1>idle, <2>1, ClientMoves
  <2> QED BY <1>0, <2>1, <2>2 DEF CacheInv
<1>6. CASE Cache!Tick
  <2>1. cacheNow' = cacheNow + 1 /\ cacheNow < MaxCacheNow /\ UNCHANGED <<entries, client>>
    BY <1>6 DEF Cache!Tick
  <2>2. cacheNow' \in 0..MaxCacheNow
    BY <1>0, <2>1, Numbers
  <2> QED BY <1>0, <2>1, <2>2 DEF CacheInv
<1>7. CASE UNCHANGED Cache!vars
  BY <1>7 DEF Cache!vars, CacheInv
<1> QED BY <1>1, <1>2, <1>3, <1>4, <1>5, <1>6, <1>7 DEF Cache!Next

LEMMA CacheIsSound == CacheInv => Cache!TypeOK /\ Cache!CacheHonest
<1> SUFFICES ASSUME CacheInv PROVE Cache!TypeOK /\ Cache!CacheHonest
  OBVIOUS
<1>1. Cache!TypeOK
  BY DEF CacheInv, Cache!TypeOK, Honest, CacheEntries, CacheClients
<1>2. Cache!CacheHonest
  BY DEF CacheInv, Cache!CacheHonest, Honest
<1> QED BY <1>1, <1>2

-----------------------------------------------------------------------------
(* The streamed tool calls.  What is under way, in the transport or in the *)
(* buffer, is a list of fragments, each before its blank line; of call i   *)
(* the first got[i] were fed and the others are all under way, in order.   *)

Symbols == {Tool!Blank} \cup {Tool!Fragment(i, k) : i \in 1..Calls, k \in 1..Parts}
Pieces == [index : 1..Calls, part : 1..Parts]
Flow == buf \o wire
Call(i, g) == [index |-> i, named |-> TRUE, args |-> [k \in 1..g |-> k]]

Framed(d) ==
    /\ Len(Flow) = 2 * Len(d)
    /\ \A j \in 1..Len(d) : Flow[2 * j - 1] = Tool!Fragment(d[j].index, d[j].part) /\ Flow[2 * j] = Tool!Blank

Taken(got) ==
    /\ Len(acc) <= Calls
    /\ \A i \in 1..Len(acc) : got[i] > 0 /\ acc[i] = Call(i, got[i])
    /\ \A i \in 1..Calls : i > Len(acc) => got[i] = 0

UnderWay(d, got) ==
    /\ \A i \in 1..Calls : got[i] <= sentTo[i]
    /\ \A j \in 1..Len(d) : got[d[j].index] < d[j].part /\ d[j].part <= sentTo[d[j].index]
    /\ \A i \in 1..Calls : \A k \in 1..Parts : (got[i] < k /\ k <= sentTo[i]) =>
           \E j \in 1..Len(d) : d[j].index = i /\ d[j].part = k
    /\ \A j, l \in 1..Len(d) : (j < l /\ d[j].index = d[l].index) => d[j].part < d[l].part

\* No call opens before the one of the index below it.
IndexOrder(d) ==
    /\ \A i \in 1..Calls : (sentTo[i] > 0 /\ i > 1) => sentTo[i - 1] > 0
    /\ \A j \in 1..Len(d) : (d[j].part = 1 /\ d[j].index > 1) =>
           \/ d[j].index - 1 <= Len(acc)
           \/ \E l \in 1..Len(d) : l < j /\ d[l].index = d[j].index - 1

ToolTypes ==
    /\ wire \in Seq(Symbols) /\ buf \in Seq(Symbols)
    /\ sentTo \in [1..Calls -> 0..Parts]
    /\ acc \in Seq([index : Nat, named : BOOLEAN, args : Seq(Nat)])

ToolInv ==
    /\ ToolTypes
    /\ \E d \in Seq(Pieces) : \E got \in [1..Calls -> 0..Parts] :
           Framed(d) /\ Taken(got) /\ UnderWay(d, got) /\ IndexOrder(d)

LEMMA ToolStarts == Tool!Init => ToolInv
<1> SUFFICES ASSUME Tool!Init PROVE ToolInv
  OBVIOUS
<1> DEFINE got == [i \in 1..Calls |-> 0]
<1>1. /\ wire = <<>> /\ buf = <<>> /\ acc = <<>> /\ sentTo = got
  BY DEF Tool!Init
<1>2. got \in [1..Calls -> 0..Parts] /\ \A i \in 1..Calls : got[i] = 0
  BY Numbers
<1>3. <<>> \in Seq(Pieces) /\ Len(<<>>) = 0 /\ Len(Flow) = 0
  BY <1>1 DEF Flow
<1> HIDE DEF got
<1>4. ToolTypes
  BY <1>1, <1>2 DEF ToolTypes
<1>5. Framed(<<>>) /\ Taken(got) /\ IndexOrder(<<>>)
  BY <1>1, <1>2, <1>3, Numbers DEF Framed, Taken, IndexOrder
<1>6. UnderWay(<<>>, got)
  BY <1>1, <1>2, <1>3, Numbers DEF UnderWay
<1> QED BY <1>2, <1>3, <1>4, <1>5, <1>6 DEF ToolInv

\* What joining and cutting do to what is under way.
LEMMA FlowIs ==
    ASSUME ToolTypes
    PROVE  /\ Flow \in Seq(Symbols) /\ Len(Flow) = Len(buf) + Len(wire) /\ Len(buf) \in Nat /\ Len(wire) \in Nat
           /\ \A n \in 1..Len(Flow) : Flow[n] = IF n <= Len(buf) THEN buf[n] ELSE wire[n - Len(buf)]
<1>1. buf \in Seq(Symbols) /\ wire \in Seq(Symbols)
  BY DEF ToolTypes
<1>2. /\ buf \o wire \in Seq(Symbols) /\ Len(buf \o wire) = Len(buf) + Len(wire)
      /\ \A n \in 1..(Len(buf) + Len(wire)) : (buf \o wire)[n] = IF n <= Len(buf) THEN buf[n] ELSE wire[n - Len(buf)]
  BY <1>1, ConcatProperties
<1> QED BY <1>1, <1>2 DEF Flow

LEMMA CutAt ==
    ASSUME NEW S, NEW s \in Seq(S), NEW n \in 0..Len(s)
    PROVE  /\ SubSeq(s, n + 1, Len(s)) \in Seq(S) /\ Len(SubSeq(s, n + 1, Len(s))) = Len(s) - n
           /\ \A i \in 1..(Len(s) - n) : SubSeq(s, n + 1, Len(s))[i] = s[n + i]
<1> DEFINE L == Len(s)
           t == SubSeq(s, n + 1, L)
<1>1. L \in Nat /\ n \in Int /\ n <= L /\ 0 <= n /\ n + 1 \in Int /\ L \in Int
  OBVIOUS
<1>2. \A i \in (n + 1)..L : s[i] \in S
  BY <1>1
<1>3. /\ t \in Seq(S) /\ Len(t) = IF n + 1 <= L THEN L - (n + 1) + 1 ELSE 0
      /\ \A i \in 1..(L - (n + 1) + 1) : t[i] = s[(n + 1) + i - 1]
  BY <1>1, <1>2, SubSeqProperties
<1> HIDE DEF t, L
<1>4. Len(t) = L - n
  <2>1. CASE n = L
    BY <1>1, <1>3, <2>1
  <2>2. CASE n # L
    <3>1. n + 1 <= L
      BY <1>1, <2>2
    <3> QED BY <1>1, <1>3, <3>1
  <2> QED BY <2>1, <2>2
<1>5. ASSUME NEW i \in 1..(L - n) PROVE t[i] = s[n + i]
  <2>1. i \in 1..(L - (n + 1) + 1) /\ (n + 1) + i - 1 = n + i
    BY <1>1
  <2> QED BY <1>3, <2>1
<1> QED BY <1>3, <1>4, <1>5 DEF t, L

LEMMA FrontAt ==
    ASSUME NEW S, NEW s \in Seq(S), NEW n \in 0..Len(s)
    PROVE  /\ SubSeq(s, 1, n) \in Seq(S) /\ Len(SubSeq(s, 1, n)) = n
           /\ \A i \in 1..n : SubSeq(s, 1, n)[i] = s[i]
OBVIOUS

LEMMA ReceiveStep == ASSUME ToolInv, NEW n, Tool!Receive(n) PROVE ToolInv'
<1>1. /\ n \in 1..Len(wire) /\ buf' = buf \o SubSeq(wire, 1, n) /\ wire' = SubSeq(wire, n + 1, Len(wire))
      /\ UNCHANGED <<sentTo, acc>>
  BY DEF Tool!Receive
<1>2. ToolTypes /\ wire \in Seq(Symbols) /\ buf \in Seq(Symbols) /\ Len(wire) \in Nat /\ Len(buf) \in Nat /\ n \in Nat /\ n \in 0..Len(wire)
  BY <1>1 DEF ToolInv, ToolTypes
<1> DEFINE f == SubSeq(wire, 1, n)
           r == SubSeq(wire, n + 1, Len(wire))
<1>3. f \in Seq(Symbols) /\ Len(f) = n /\ \A i \in 1..n : f[i] = wire[i]
  BY <1>2, FrontAt
<1>4. r \in Seq(Symbols) /\ Len(r) = Len(wire) - n /\ \A i \in 1..(Len(wire) - n) : r[i] = wire[n + i]
  BY <1>2, CutAt
<1> HIDE DEF f, r
<1>5. /\ buf \o f \in Seq(Symbols) /\ Len(buf \o f) = Len(buf) + n
      /\ \A i \in 1..(Len(buf) + n) : (buf \o f)[i] = IF i <= Len(buf) THEN buf[i] ELSE f[i - Len(buf)]
  <2>1. /\ buf \o f \in Seq(Symbols) /\ Len(buf \o f) = Len(buf) + Len(f)
        /\ \A i \in 1..(Len(buf) + Len(f)) : (buf \o f)[i] = IF i <= Len(buf) THEN buf[i] ELSE f[i - Len(buf)]
    BY <1>2, <1>3, ConcatProperties
  <2> QED BY <1>3, <2>1
<1>6. ToolTypes'
  BY <1>1, <1>4, <1>5 DEF ToolTypes, ToolInv, f, r
<1>7. Flow' = Flow
  <2>1. /\ Flow \in Seq(Symbols) /\ Len(Flow) = Len(buf) + Len(wire)
        /\ \A i \in 1..Len(Flow) : Flow[i] = IF i <= Len(buf) THEN buf[i] ELSE wire[i - Len(buf)]
    BY <1>2, FlowIs
  <2>2. Flow' = (buf \o f) \o r
    BY <1>1 DEF Flow, f, r
  <2>3. /\ Flow' \in Seq(Symbols) /\ Len(Flow') = Len(buf \o f) + Len(r)
        /\ \A i \in 1..(Len(buf \o f) + Len(r)) : Flow'[i] = IF i <= Len(buf \o f) THEN (buf \o f)[i] ELSE r[i - Len(buf \o f)]
    BY <1>4, <1>5, <2>2, ConcatProperties
  <2> DEFINE bf == buf \o f
  <2> HIDE DEF bf
  <2>4. Len(Flow') = Len(Flow)
    BY <1>2, <1>4, <1>5, <2>1, <2>3
  <2>5. ASSUME NEW i \in 1..Len(Flow) PROVE Flow'[i] = Flow[i]
    <3>0. i \in Int /\ 1 <= i /\ i <= Len(buf) + Len(wire) /\ n <= Len(wire) /\ 1 <= n
      BY <1>1, <1>2, <2>1
    <3>1. CASE i <= Len(buf)
      <4>1. i <= Len(buf \o f) /\ i \in 1..(Len(buf) + n)
        BY <1>2, <1>5, <3>0, <3>1
      <4>2. Flow'[i] = (buf \o f)[i]
        BY <2>3, <2>4, <4>1
      <4>3. (buf \o f)[i] = buf[i]
        BY <1>5, <3>1, <4>1
      <4> QED BY <2>1, <3>1, <4>2, <4>3
    <3>2. CASE i > Len(buf) /\ i <= Len(buf) + n
      <4>1. i - Len(buf) \in 1..n
        BY <1>2, <3>0, <3>2
      <4>2. Flow'[i] = f[i - Len(buf)]
        BY <1>2, <1>5, <2>3, <2>4, <3>0, <3>2
      <4>3. Flow[i] = wire[i - Len(buf)]
        BY <1>2, <2>1, <3>0, <3>2
      <4> QED BY <1>3, <4>1, <4>2, <4>3
    <3>3. CASE i > Len(buf) + n
      <4>1. i - (Len(buf) + n) \in 1..(Len(wire) - n) /\ n + (i - (Len(buf) + n)) = i - Len(buf)
        BY <1>2, <3>0, <3>3
      <4>2. Flow'[i] = r[i - (Len(buf) + n)]
        BY <1>2, <1>5, <2>3, <2>4, <3>0, <3>3
      <4>3. Flow[i] = wire[i - Len(buf)]
        BY <1>2, <2>1, <3>0, <3>3
      <4> QED BY <1>4, <4>1, <4>2, <4>3
    <3> QED BY <1>2, <3>0, <3>1, <3>2, <3>3
  <2> QED BY <2>1, <2>3, <2>4, <2>5, SeqEqual
<1>8. PICK d \in Seq(Pieces) : \E got \in [1..Calls -> 0..Parts] :
           Framed(d) /\ Taken(got) /\ UnderWay(d, got) /\ IndexOrder(d)
  BY DEF ToolInv
<1>9. PICK got \in [1..Calls -> 0..Parts] : Framed(d) /\ Taken(got) /\ UnderWay(d, got) /\ IndexOrder(d)
  BY <1>8
<1>10. Framed(d)'
  BY <1>7, <1>9 DEF Framed
<1>11. Taken(got)' /\ UnderWay(d, got)' /\ IndexOrder(d)'
  BY <1>1, <1>9 DEF Taken, UnderWay, IndexOrder
<1> QED BY <1>6, <1>10, <1>11 DEF ToolInv

LEMMA SendStep == ASSUME ToolInv, NEW i \in 1..Calls, Tool!ServerSends(i) PROVE ToolInv'
<1>2. /\ ToolTypes /\ wire \in Seq(Symbols) /\ buf \in Seq(Symbols) /\ Len(wire) \in Nat /\ Len(buf) \in Nat
      /\ sentTo \in [1..Calls -> 0..Parts]
  BY DEF ToolInv, ToolTypes
<1>s. sentTo[i] + 1 \in 1..Parts /\ sentTo[i] \in Nat
  BY <1>2, Numbers DEF Tool!ServerSends
<1>k. PICK k \in 1..Parts : k = sentTo[i] + 1
  BY <1>s
<1>3. k \in 1..Parts /\ k = sentTo[i] + 1 /\ sentTo[i] \in Nat
  BY <1>s, <1>k
<1> DEFINE two == <<Tool!Fragment(i, k), Tool!Blank>>
<1>1. /\ sentTo[i] < Parts /\ (i > 1 => sentTo[i - 1] > 0) /\ sentTo' = [sentTo EXCEPT ![i] = k]
      /\ wire' = wire \o two /\ UNCHANGED <<buf, acc>>
  BY <1>k DEF Tool!ServerSends
<1>4. /\ two \in Seq(Symbols) /\ Len(two) = 2 /\ two[1] = Tool!Fragment(i, k) /\ two[2] = Tool!Blank
  <2>1. Tool!Fragment(i, k) \in Symbols /\ Tool!Blank \in Symbols
    BY <1>3 DEF Symbols
  <2> QED BY <2>1
<1> HIDE DEF two
<1>5. /\ wire' \in Seq(Symbols) /\ Len(wire') = Len(wire) + 2
      /\ \A n \in 1..(Len(wire) + 2) : wire'[n] = IF n <= Len(wire) THEN wire[n] ELSE two[n - Len(wire)]
  <2>1. /\ wire \o two \in Seq(Symbols) /\ Len(wire \o two) = Len(wire) + Len(two)
        /\ \A n \in 1..(Len(wire) + Len(two)) : (wire \o two)[n] = IF n <= Len(wire) THEN wire[n] ELSE two[n - Len(wire)]
    BY <1>2, <1>4, ConcatProperties
  <2> QED BY <1>1, <1>4, <2>1
<1>6. ToolTypes'
  <2>1. sentTo' \in [1..Calls -> 0..Parts]
    BY <1>1, <1>2, <1>3, Numbers
  <2> QED BY <1>1, <1>2, <1>5, <2>1 DEF ToolTypes
<1>7. /\ Len(Flow) \in Nat /\ Len(Flow') = Len(Flow) + 2
      /\ \A n \in 1..Len(Flow) : Flow'[n] = Flow[n]
      /\ Flow'[Len(Flow) + 1] = Tool!Fragment(i, k) /\ Flow'[Len(Flow) + 2] = Tool!Blank
  <2>1. /\ Len(Flow) = Len(buf) + Len(wire)
        /\ \A n \in 1..Len(Flow) : Flow[n] = IF n <= Len(buf) THEN buf[n] ELSE wire[n - Len(buf)]
    BY <1>2, FlowIs
  <2>2. /\ Flow' = buf \o wire' /\ Len(buf \o wire') = Len(buf) + Len(wire')
        /\ \A n \in 1..(Len(buf) + Len(wire')) : (buf \o wire')[n] = IF n <= Len(buf) THEN buf[n] ELSE wire'[n - Len(buf)]
    BY <1>1, <1>2, <1>5, ConcatProperties DEF Flow
  <2>3. /\ Len(Flow') = Len(Flow) + 2
        /\ \A n \in 1..(Len(Flow) + 2) : Flow'[n] = IF n <= Len(buf) THEN buf[n] ELSE wire'[n - Len(buf)]
    <3>1. Len(buf) + Len(wire') = Len(Flow) + 2
      BY <1>2, <1>5, <2>1
    <3> QED BY <2>2, <3>1
  <2>4. ASSUME NEW n \in 1..Len(Flow) PROVE Flow'[n] = Flow[n]
    <3>1. CASE n <= Len(buf)
      BY <1>2, <2>1, <2>3, <3>1
    <3>2. CASE n > Len(buf)
      <4>1. n - Len(buf) \in 1..(Len(wire) + 2) /\ n - Len(buf) <= Len(wire) /\ n \in 1..(Len(Flow) + 2)
        BY <1>2, <2>1, <3>2
      <4>2. Flow'[n] = wire'[n - Len(buf)]
        BY <1>2, <2>3, <3>2, <4>1
      <4>3. wire'[n - Len(buf)] = wire[n - Len(buf)]
        BY <1>5, <4>1
      <4> QED BY <1>2, <2>1, <3>2, <4>2, <4>3
    <3> QED BY <1>2, <2>1, <3>1, <3>2
  <2>5. ASSUME NEW e \in 1..2 PROVE Flow'[Len(Flow) + e] = two[e]
    <3>1. /\ Len(Flow) + e \in 1..(Len(Flow) + 2) /\ Len(Flow) + e > Len(buf)
          /\ Len(Flow) + e - Len(buf) = Len(wire) + e
      BY <1>2, <2>1
    <3>2. Flow'[Len(Flow) + e] = wire'[Len(wire) + e]
      BY <1>2, <2>1, <2>3, <3>1
    <3>3. Len(wire) + e \in 1..(Len(wire) + 2) /\ ~(Len(wire) + e <= Len(wire)) /\ Len(wire) + e - Len(wire) = e
      BY <1>2
    <3> QED BY <1>5, <3>2, <3>3
  <2>6. Flow'[Len(Flow) + 1] = two[1] /\ Flow'[Len(Flow) + 2] = two[2]
    BY <2>5
  <2> QED BY <1>2, <1>4, <2>1, <2>3, <2>4, <2>6
<1>8. PICK d \in Seq(Pieces) : \E got \in [1..Calls -> 0..Parts] :
           Framed(d) /\ Taken(got) /\ UnderWay(d, got) /\ IndexOrder(d)
  BY DEF ToolInv
<1>9. PICK got \in [1..Calls -> 0..Parts] : Framed(d) /\ Taken(got) /\ UnderWay(d, got) /\ IndexOrder(d)
  BY <1>8
<1> DEFINE p == [index |-> i, part |-> k]
           e == Append(d, p)
           N == Len(d)
<1>10. /\ e \in Seq(Pieces) /\ Len(e) = N + 1 /\ N \in Nat /\ e[N + 1].index = i /\ e[N + 1].part = k
       /\ \A j \in 1..N : e[j] = d[j] /\ d[j].index \in 1..Calls /\ d[j].part \in 1..Parts
       /\ \A j \in 1..(N + 1) : j \in 1..N \/ j = N + 1
  <2>1. p \in Pieces /\ p.index = i /\ p.part = k
    BY <1>3 DEF Pieces
  <2>2. N \in Nat /\ \A j \in 1..N : d[j] \in Pieces
    OBVIOUS
  <2> HIDE DEF p
  <2>3. e \in Seq(Pieces) /\ Len(e) = N + 1 /\ e[N + 1] = p /\ \A j \in 1..N : e[j] = d[j]
    BY <2>1
  <2>4. \A j \in 1..N : d[j].index \in 1..Calls /\ d[j].part \in 1..Parts
    BY <2>2 DEF Pieces
  <2>5. \A j \in 1..(N + 1) : j \in 1..N \/ j = N + 1
    BY <2>2
  <2> QED BY <2>1, <2>2, <2>3, <2>4, <2>5
<1> HIDE DEF p, e, N
<1>11. Framed(e)'
  <2>1. Len(Flow) = 2 * N /\ \A j \in 1..N : Flow[2 * j - 1] = Tool!Fragment(d[j].index, d[j].part) /\ Flow[2 * j] = Tool!Blank
    BY <1>9 DEF Framed, N
  <2>2. Len(Flow') = 2 * Len(e)
    BY <1>7, <1>10, <2>1
  <2>3. ASSUME NEW j \in 1..N
        PROVE  Flow'[2 * j - 1] = Tool!Fragment(e[j].index, e[j].part) /\ Flow'[2 * j] = Tool!Blank
    <3>1. 2 * j - 1 \in 1..Len(Flow) /\ 2 * j \in 1..Len(Flow)
      BY <1>10, <2>1
    <3> QED BY <1>7, <1>10, <2>1, <3>1
  <2>4. Flow'[2 * (N + 1) - 1] = Tool!Fragment(i, k) /\ Flow'[2 * (N + 1)] = Tool!Blank
    <3>1. 2 * (N + 1) - 1 = Len(Flow) + 1 /\ 2 * (N + 1) = Len(Flow) + 2
      BY <1>10, <2>1
    <3> QED BY <1>7, <3>1
  <2>5. \A j \in 1..(N + 1) : Flow'[2 * j - 1] = Tool!Fragment(e[j].index, e[j].part) /\ Flow'[2 * j] = Tool!Blank
    <3> TAKE j \in 1..(N + 1)
    <3>1. CASE j \in 1..N
      BY <2>3, <3>1
    <3>2. CASE j = N + 1
      BY <1>10, <2>4, <3>2
    <3> QED BY <1>10, <3>1, <3>2
  <2> QED BY <1>10, <2>2, <2>5 DEF Framed
<1>12. Taken(got)'
  BY <1>1, <1>9 DEF Taken
<1>13. /\ sentTo'[i] = k /\ \A n \in 1..Calls : sentTo[n] <= sentTo'[n] /\ (n # i => sentTo'[n] = sentTo[n])
       /\ \A n \in 1..Calls : sentTo[n] \in 0..Parts /\ got[n] \in 0..Parts
       /\ \A n \in 1..Calls : sentTo[n] \in Int /\ got[n] \in Int /\ sentTo'[n] \in Int
  <2>1. \A n \in 1..Calls : sentTo[n] \in 0..Parts /\ got[n] \in 0..Parts
    BY <1>2
  <2>2. \A n \in 1..Calls : sentTo[n] \in Int /\ got[n] \in Int
    BY <2>1
  <2>3. sentTo'[i] = k /\ \A n \in 1..Calls : n # i => sentTo'[n] = sentTo[n]
    BY <1>1, <1>2, <1>3
  <2>4. k \in Int /\ sentTo[i] <= k /\ \A n \in 1..Calls : sentTo[n] <= sentTo[n]
    BY <1>1, <1>3, <2>2, Numbers
  <2>5. \A n \in 1..Calls : sentTo[n] <= sentTo'[n] /\ sentTo'[n] \in Int
    BY <2>2, <2>3, <2>4
  <2> QED BY <2>1, <2>2, <2>3, <2>5
<1>14. UnderWay(e, got)'
  <2>0. /\ \A n \in 1..Calls : got[n] <= sentTo[n]
        /\ \A j \in 1..N : got[d[j].index] < d[j].part /\ d[j].part <= sentTo[d[j].index]
        /\ \A n \in 1..Calls : \A m \in 1..Parts : (got[n] < m /\ m <= sentTo[n]) =>
               \E j \in 1..N : d[j].index = n /\ d[j].part = m
        /\ \A j, l \in 1..N : (j < l /\ d[j].index = d[l].index) => d[j].part < d[l].part
    BY <1>9 DEF UnderWay, N
  <2>1. \A n \in 1..Calls : got[n] <= sentTo'[n]
    BY <1>13, <2>0
  <2>2. ASSUME NEW j \in 1..(N + 1) PROVE got[e[j].index] < e[j].part /\ e[j].part <= sentTo'[e[j].index]
    <3>1. CASE j \in 1..N
      <4>1. e[j] = d[j] /\ d[j].index \in 1..Calls /\ d[j].part \in 1..Parts
        BY <1>10, <3>1
      <4>2. got[d[j].index] < d[j].part /\ d[j].part <= sentTo[d[j].index] /\ d[j].part \in Int
        BY <2>0, <3>1, <4>1, Numbers
      <4> QED BY <1>13, <4>1, <4>2
    <3>2. CASE j = N + 1
      <4>1. got[i] < k
        BY <1>3, <1>13, <2>0, Numbers
      <4> QED BY <1>3, <1>10, <1>13, <3>2, <4>1
    <3> QED BY <1>10, <3>1, <3>2
  <2>3. ASSUME NEW n \in 1..Calls, NEW m \in 1..Parts, got[n] < m, m <= sentTo'[n]
        PROVE  \E j \in 1..(N + 1) : e[j].index = n /\ e[j].part = m
    <3>1. CASE n = i /\ m = k
      <4>1. N + 1 \in 1..(N + 1)
        BY <1>10
      <4> QED BY <1>10, <3>1, <4>1
    <3>2. CASE ~(n = i /\ m = k)
      <4>1. m <= sentTo[n]
        <5>1. CASE n = i
          <6>1. m <= k /\ m # k
            BY <1>13, <2>3, <3>2, <5>1
          <6> QED BY <1>3, <5>1, <6>1, Numbers
        <5>2. CASE n # i
          BY <1>13, <2>3, <5>2
        <5> QED BY <5>1, <5>2
      <4>2. PICK j \in 1..N : d[j].index = n /\ d[j].part = m
        BY <2>0, <2>3, <4>1
      <4>3. N \in Nat /\ e[j] = d[j]
        BY <1>10
      <4>4. j \in 1..(N + 1)
        BY <4>3
      <4> QED BY <4>2, <4>3, <4>4
    <3> QED BY <3>1, <3>2
  <2>4. ASSUME NEW j \in 1..(N + 1), NEW l \in 1..(N + 1), j < l, e[j].index = e[l].index PROVE e[j].part < e[l].part
    <3>1. j \in 1..N
      BY <1>10, <2>4
    <3>2. CASE l \in 1..N
      BY <1>10, <2>0, <2>4, <3>1, <3>2
    <3>3. CASE l = N + 1
      <4>1. d[j].index = i /\ e[j].part = d[j].part /\ e[l].part = k
        BY <1>10, <2>4, <3>1, <3>3
      <4>2. d[j].part <= sentTo[i]
        BY <2>0, <3>1, <4>1
      <4>3. d[j].part \in Int
        BY <1>10, <3>1, Numbers
      <4> QED BY <1>3, <4>1, <4>2, <4>3
    <3> QED BY <1>10, <3>2, <3>3
  <2> QED BY <1>10, <2>1, <2>2, <2>3, <2>4 DEF UnderWay
<1>15. IndexOrder(e)'
  <2>0. /\ \A n \in 1..Calls : (sentTo[n] > 0 /\ n > 1) => sentTo[n - 1] > 0
        /\ \A j \in 1..N : (d[j].part = 1 /\ d[j].index > 1) =>
              \/ d[j].index - 1 <= Len(acc)
              \/ \E l \in 1..N : l < j /\ d[l].index = d[j].index - 1
    BY <1>9 DEF IndexOrder, N
  <2>1. ASSUME NEW n \in 1..Calls, sentTo'[n] > 0, n > 1 PROVE sentTo'[n - 1] > 0
    <3>1. n - 1 \in 1..Calls
      BY <2>1, Numbers
    <3>2. sentTo[n - 1] > 0
      BY <1>1, <1>13, <2>0, <2>1
    <3> QED BY <1>13, <3>1, <3>2
  <2>2. ASSUME NEW j \in 1..(N + 1), e[j].part = 1, e[j].index > 1
        PROVE  \/ e[j].index - 1 <= Len(acc)
               \/ \E l \in 1..(N + 1) : l < j /\ e[l].index = e[j].index - 1
    <3>1. CASE j \in 1..N
      <4>1. e[j] = d[j]
        BY <1>10, <3>1
      <4>2. \/ d[j].index - 1 <= Len(acc)
            \/ \E l \in 1..N : l < j /\ d[l].index = d[j].index - 1
        BY <2>0, <2>2, <3>1, <4>1
      <4>3. ASSUME NEW l \in 1..N PROVE l \in 1..(N + 1) /\ e[l] = d[l]
        BY <1>10
      <4> QED BY <4>1, <4>2, <4>3
    <3>2. CASE j = N + 1
      <4>e. e[j].index = i /\ e[j].part = k
        BY <1>10, <3>2
      <4>k. k = 1 /\ i > 1
        BY <2>2, <4>e
      <4>0. e[j].index = i /\ k = 1 /\ i > 1 /\ i - 1 \in 1..Calls /\ sentTo[i] = 0
        BY <1>3, <4>e, <4>k, Numbers
      <4>1. sentTo[i - 1] > 0
        BY <1>1, <4>0
      <4>2. CASE i - 1 <= Len(acc)
        BY <4>0, <4>2
      <4>3. CASE i - 1 > Len(acc)
        <5>1. got[i - 1] = 0
          BY <1>9, <4>0, <4>3 DEF Taken
        <5>2. 1 \in 1..Parts /\ got[i - 1] < 1 /\ 1 <= sentTo[i - 1]
          BY <1>3, <1>13, <4>0, <4>1, <5>1, Numbers
        <5>3. PICK l \in 1..N : d[l].index = i - 1
          <6>1. \A m \in 1..Parts : (got[i - 1] < m /\ m <= sentTo[i - 1]) =>
                    \E l \in 1..N : d[l].index = i - 1 /\ d[l].part = m
            BY <1>9, <4>0 DEF UnderWay, N
          <6> QED BY <5>2, <6>1
        <5>4. l \in 1..(N + 1) /\ l < j /\ e[l] = d[l]
          BY <1>10, <3>2
        <5> QED BY <4>0, <5>3, <5>4
      <4>4. Len(acc) \in Int
        BY <1>2 DEF ToolTypes
      <4> QED BY <4>0, <4>2, <4>3, <4>4
    <3> QED BY <1>10, <3>1, <3>2
  <2> QED BY <1>1, <1>10, <2>1, <2>2 DEF IndexOrder
<1>16. \E dd \in Seq(Pieces) : \E gg \in [1..Calls -> 0..Parts] :
           (Framed(dd) /\ Taken(gg) /\ UnderWay(dd, gg) /\ IndexOrder(dd))'
  BY <1>10, <1>11, <1>12, <1>14, <1>15
<1> QED BY <1>6, <1>16 DEF ToolInv

CallRecords == [index : Nat, named : BOOLEAN, args : Seq(Nat)]

\* Looking a call up: the calls stand in order of their index.
LEMMA AtCall ==
    ASSUME NEW a \in Seq(CallRecords), \A n \in 1..Len(a) : a[n].index = n, NEW i \in Nat \ {0}
    PROVE  Tool!At(a, i) = IF i <= Len(a) THEN i ELSE 0
<1> DEFINE I == {n \in 1..Len(a) : a[n].index = i}
<1>1. Tool!At(a, i) = IF I # {} THEN Tool!Min(I) ELSE 0
  BY DEF Tool!At, Tool!SelectInSeq
<1>2. CASE i <= Len(a)
  <2>1. i \in 1..Len(a)
    BY <1>2
  <2>2. i \in I /\ \A y \in I : y = i /\ i <= y
    BY <2>1
  <2> HIDE DEF I
  <2>3. Tool!Min(I) = i
    BY <2>2 DEF Tool!Min
  <2> QED BY <1>1, <1>2, <2>2, <2>3
<1>3. CASE ~(i <= Len(a))
  <2>1. I = {}
    BY <1>3
  <2> HIDE DEF I
  <2> QED BY <1>1, <1>3, <2>1
<1> QED BY <1>2, <1>3

Fed(a, i, k, r) ==
    /\ r \in Seq(CallRecords) /\ Len(r) = IF i <= Len(a) THEN Len(a) ELSE Len(a) + 1
    /\ r[i] = Call(i, k) /\ \A n \in 1..Len(a) : n # i => r[n] = a[n]

\* Feeding the next fragment of an open call, or the first of the next call.
LEMMA FeedIs ==
    ASSUME NEW a \in Seq(CallRecords), NEW i \in Nat \ {0}, NEW k \in Nat \ {0},
           \A n \in 1..Len(a) : a[n].index = n,
           \/ i <= Len(a) /\ a[i] = Call(i, k - 1)
           \/ i = Len(a) + 1 /\ k = 1,
           NEW r, r = Tool!Feed(a, Tool!Fragment(i, k))
    PROVE  Fed(a, i, k, r)
<1> DEFINE f == Tool!Fragment(i, k)
           new == [index |-> i, named |-> FALSE, args |-> <<>>]
           o == IF i <= Len(a) THEN a ELSE Append(a, new)
           u == [index |-> i, named |-> o[i].named \/ f.head, args |-> Append(o[i].args, f.part)]
           v == [o EXCEPT ![i] = u]
<1>1. f.index = i /\ f.part = k /\ f.head = (k = 1)
  BY DEF Tool!Fragment
<1>2. /\ \A n, m : Call(n, m).index = n
      /\ \A n, m : Call(n, m).args = [j \in 1..m |-> j]
  <2>1. \A n, m : Call(n, m).index = n
    BY DEF Call
  <2>2. \A n, m : Call(n, m).args = [j \in 1..m |-> j]
    BY DEF Call
  <2> QED BY <2>1, <2>2
<1>3. new \in CallRecords /\ new.index = i /\ new.named = FALSE /\ new.args = <<>>
  BY DEF CallRecords
<1> HIDE DEF new
<1>4. /\ o \in Seq(CallRecords) /\ Len(o) = (IF i <= Len(a) THEN Len(a) ELSE Len(a) + 1) /\ i \in 1..Len(o)
      /\ \A n \in 1..Len(a) : o[n] = a[n]
      /\ o[i] = IF i <= Len(a) THEN a[i] ELSE new
  <2>1. Len(a) \in Nat
    OBVIOUS
  <2>2. CASE i <= Len(a)
    BY <2>1, <2>2
  <2>3. CASE ~(i <= Len(a))
    <3>1. i = Len(a) + 1
      BY <2>1, <2>3
    <3>2. /\ Append(a, new) \in Seq(CallRecords) /\ Len(Append(a, new)) = Len(a) + 1
          /\ Append(a, new)[Len(a) + 1] = new /\ \A n \in 1..Len(a) : Append(a, new)[n] = a[n]
      BY <1>3
    <3> QED BY <2>1, <2>3, <3>1, <3>2
  <2> QED BY <2>2, <2>3
<1>5. \A n \in 1..Len(o) : o[n].index = n
  BY <1>2, <1>3, <1>4
<1> HIDE DEF o
<1>6. Tool!At(a, i) = (IF i <= Len(a) THEN i ELSE 0) /\ Tool!At(o, i) = i
  <2>1. i <= Len(o)
    BY <1>4
  <2> QED BY <1>2, <1>4, <1>5, <2>1, AtCall
<1>7. o = IF Tool!At(a, i) # 0 THEN a ELSE Append(a, [index |-> i, named |-> FALSE, args |-> <<>>])
  BY <1>6 DEF o, new
<1>8. r = v
  BY <1>1, <1>6, <1>7 DEF Tool!Feed
<1>9. /\ o[i] \in CallRecords /\ o[i].index = i /\ o[i].args \in Seq(Nat)
      /\ o[i].named \/ f.head
      /\ Append(o[i].args, k) = [j \in 1..k |-> j]
  <2>1. o[i] \in CallRecords /\ o[i].args \in Seq(Nat)
    <3>1. o[i] \in CallRecords
      BY <1>4
    <3> QED BY <3>1 DEF CallRecords
  <2>2. CASE i <= Len(a)
    <3>1. o[i] = Call(i, k - 1) /\ k - 1 \in Nat
      BY <1>4, <2>2
    <3>2. Append([j \in 1..(k - 1) |-> j], k) = [j \in 1..k |-> j]
      <4> DEFINE s == [j \in 1..(k - 1) |-> j]
                 t == [j \in 1..k |-> j]
      <4>1. s \in Seq(Nat) /\ Len(s) = k - 1 /\ t \in Seq(Nat) /\ Len(t) = k
        BY <3>1
      <4>2. Append(s, k) \in Seq(Nat) /\ Len(Append(s, k)) = k
        BY <3>1, <4>1
      <4>3. \A j \in 1..k : Append(s, k)[j] = t[j]
        BY <3>1, <4>1
      <4> QED BY <4>1, <4>2, <4>3, SeqEqual
    <3>3. o[i].index = i /\ o[i].named = TRUE /\ o[i].args = [j \in 1..(k - 1) |-> j]
      BY <1>2, <3>1 DEF Call
    <3> QED BY <2>1, <3>2, <3>3
  <2>3. CASE ~(i <= Len(a))
    <3>1. o[i] = new /\ k = 1 /\ f.head
      BY <1>1, <1>4, <2>3
    <3>2. Append(<<>>, 1) = [j \in 1..1 |-> j]
      OBVIOUS
    <3> QED BY <1>3, <2>1, <3>1, <3>2
  <2> QED BY <2>2, <2>3
<1>10. u \in CallRecords /\ u = Call(i, k)
  <2>1. (o[i].named \/ f.head) = TRUE /\ f.part = k
    BY <1>1, <1>9
  <2>2. u = [index |-> i, named |-> TRUE, args |-> [j \in 1..k |-> j]]
    BY <1>9, <2>1, Zenon
  <2> HIDE DEF u
  <2>3. [j \in 1..k |-> j] \in Seq(Nat)
    OBVIOUS
  <2> QED BY <2>2, <2>3 DEF Call, CallRecords
<1> HIDE DEF u
<1>11. /\ v \in Seq(CallRecords) /\ Len(v) = Len(o) /\ v[i] = u
       /\ \A n \in 1..Len(o) : n # i => v[n] = o[n]
  BY <1>4, <1>10, ExceptSeq
<1>12. \A n \in 1..Len(a) : n \in 1..Len(o)
  BY <1>4
<1> HIDE DEF v
<1> QED BY <1>4, <1>8, <1>10, <1>11, <1>12 DEF Fed

\* The buffer, if it holds a blank line, starts with the first fragment and it.
LEMMA BlankIsSecond ==
    ASSUME ToolTypes, NEW d \in Seq(Pieces), Framed(d), Tool!BlankAt # 0
    PROVE  Len(d) > 0 /\ Tool!BlankAt = 2 /\ Len(buf) >= 2 /\ buf[1] = Tool!Fragment(d[1].index, d[1].part)
<1> DEFINE I == {n \in 1..Len(buf) : buf[n].kind = "blank"}
<1>1. Tool!BlankAt = IF I # {} THEN Tool!Min(I) ELSE 0
  BY DEF Tool!BlankAt, Tool!SelectInSeq
<1>2. /\ Len(Flow) = Len(buf) + Len(wire) /\ Len(buf) \in Nat /\ Len(wire) \in Nat /\ Len(d) \in Nat
      /\ \A n \in 1..Len(Flow) : Flow[n] = IF n <= Len(buf) THEN buf[n] ELSE wire[n - Len(buf)]
  BY FlowIs
<1>3. PICK n \in 1..Len(buf) : buf[n].kind = "blank"
  BY <1>1
<1>4. /\ Len(Flow) = 2 * Len(d)
      /\ \A j \in 1..Len(d) : Flow[2 * j - 1] = Tool!Fragment(d[j].index, d[j].part) /\ Flow[2 * j] = Tool!Blank
  BY DEF Framed
<1>5. Len(d) > 0 /\ 1 \in 1..Len(d) /\ 1 \in 1..Len(Flow) /\ 2 \in 1..Len(Flow) /\ 1 <= Len(buf)
  BY <1>2, <1>3, <1>4
<1>6. Flow[1] = Tool!Fragment(d[1].index, d[1].part) /\ Flow[2] = Tool!Blank
  <2>1. 2 * 1 - 1 = 1 /\ 2 * 1 = 2
    OBVIOUS
  <2> QED BY <1>4, <1>5, <2>1
<1>7. buf[1] = Tool!Fragment(d[1].index, d[1].part)
  BY <1>2, <1>5, <1>6
<1>8. buf[1].kind # "blank"
  BY <1>7 DEF Tool!Fragment
<1>9. n # 1 /\ Len(buf) >= 2
  BY <1>2, <1>3, <1>8
<1>10. buf[2] = Tool!Blank
  BY <1>2, <1>5, <1>6, <1>9
<1>11. 2 \in I /\ \A y \in I : 2 <= y
  BY <1>2, <1>8, <1>9, <1>10 DEF Tool!Blank
<1> HIDE DEF I
<1>12. Tool!Min(I) = 2
  <2>1. \A y \in I : y = 2 \/ ~(y <= 2)
    BY <1>2, <1>11 DEF I
  <2> QED BY <1>11, <2>1 DEF Tool!Min
<1> QED BY <1>1, <1>5, <1>7, <1>9, <1>11, <1>12

LEMMA EventStep == ASSUME ToolInv, Tool!Event PROVE ToolInv'
<1>1. /\ ToolTypes /\ wire \in Seq(Symbols) /\ buf \in Seq(Symbols) /\ Len(wire) \in Nat /\ Len(buf) \in Nat
      /\ sentTo \in [1..Calls -> 0..Parts] /\ acc \in Seq(CallRecords) /\ Len(acc) \in Nat
  BY DEF ToolInv, ToolTypes, CallRecords
<1>2. PICK d \in Seq(Pieces) : \E got \in [1..Calls -> 0..Parts] :
           Framed(d) /\ Taken(got) /\ UnderWay(d, got) /\ IndexOrder(d)
  BY DEF ToolInv
<1>3. PICK got \in [1..Calls -> 0..Parts] : Framed(d) /\ Taken(got) /\ UnderWay(d, got) /\ IndexOrder(d)
  BY <1>2
<1>4. Tool!BlankAt # 0 /\ UNCHANGED <<wire, sentTo>>
  BY DEF Tool!Event
<1>5. Len(d) > 0 /\ Tool!BlankAt = 2 /\ Len(buf) >= 2 /\ buf[1] = Tool!Fragment(d[1].index, d[1].part)
  BY <1>1, <1>3, <1>4, BlankIsSecond
<1> DEFINE N == Len(d)
           i == d[1].index
           k == d[1].part
<1>6. /\ N \in Nat \ {0} /\ 1 \in 1..N
      /\ \A j \in 1..N : d[j].index \in 1..Calls /\ d[j].part \in 1..Parts
  <2>1. N \in Nat /\ \A j \in 1..N : d[j] \in Pieces
    OBVIOUS
  <2> QED BY <1>5, <2>1 DEF Pieces
<1>7. i \in 1..Calls /\ i \in Nat \ {0} /\ k \in 1..Parts /\ k \in Nat \ {0}
  BY <1>6, Numbers
<1>8. acc' = Tool!Feed(acc, Tool!Fragment(i, k)) /\ buf' = SubSeq(buf, 3, Len(buf))
  <2>1. acc' = (IF Tool!BlankAt = 1 THEN acc ELSE Tool!Feed(acc, buf[Tool!BlankAt - 1]))
        /\ buf' = SubSeq(buf, Tool!BlankAt + 1, Len(buf))
    BY DEF Tool!Event
  <2>2. Tool!BlankAt - 1 = 1 /\ Tool!BlankAt + 1 = 3 /\ Tool!BlankAt # 1
    BY <1>5
  <2> QED BY <1>5, <2>1, <2>2
<1> HIDE DEF N, i, k
<1>9. /\ \A n \in 1..Calls : got[n] <= sentTo[n] /\ got[n] \in Int /\ sentTo[n] \in Int /\ got[n] >= 0 /\ sentTo[n] <= Parts
      /\ \A j \in 1..N : got[d[j].index] < d[j].part /\ d[j].part <= sentTo[d[j].index]
      /\ \A n \in 1..Calls : \A m \in 1..Parts : (got[n] < m /\ m <= sentTo[n]) =>
             \E j \in 1..N : d[j].index = n /\ d[j].part = m
      /\ \A j, l \in 1..N : (j < l /\ d[j].index = d[l].index) => d[j].part < d[l].part
  <2>1. /\ \A n \in 1..Calls : got[n] <= sentTo[n]
        /\ \A j \in 1..N : got[d[j].index] < d[j].part /\ d[j].part <= sentTo[d[j].index]
        /\ \A n \in 1..Calls : \A m \in 1..Parts : (got[n] < m /\ m <= sentTo[n]) =>
               \E j \in 1..N : d[j].index = n /\ d[j].part = m
        /\ \A j, l \in 1..N : (j < l /\ d[j].index = d[l].index) => d[j].part < d[l].part
    BY <1>3 DEF UnderWay, N
  <2>2. \A n \in 1..Calls : got[n] \in Int /\ sentTo[n] \in Int /\ got[n] >= 0 /\ sentTo[n] <= Parts
    BY <1>1, <1>3, Numbers
  <2> QED BY <2>1, <2>2
<1>10. /\ Len(acc) <= Calls /\ \A n \in 1..Len(acc) : got[n] > 0 /\ acc[n] = Call(n, got[n])
       /\ \A n \in 1..Calls : n > Len(acc) => got[n] = 0
  BY <1>3 DEF Taken
<1>11. k = got[i] + 1
  <2>1. got[i] < k /\ k <= sentTo[i] /\ got[i] \in Int /\ got[i] >= 0 /\ sentTo[i] \in Int /\ sentTo[i] <= Parts
    BY <1>6, <1>7, <1>9 DEF i, k
  <2>2. ASSUME got[i] + 1 < k PROVE FALSE
    <3>1. got[i] + 1 \in 1..Parts /\ got[i] < got[i] + 1 /\ got[i] + 1 <= sentTo[i]
      BY <1>7, <2>1, <2>2, Numbers
    <3>2. PICK j \in 1..N : d[j].index = i /\ d[j].part = got[i] + 1
      BY <1>7, <1>9, <3>1
    <3>3. j # 1
      BY <2>2, <3>2, <2>1, <1>7 DEF k
    <3>4. 1 < j
      BY <1>6, <3>3
    <3>5. k < d[j].part
      BY <1>6, <1>9, <3>2, <3>4 DEF i, k
    <3> QED BY <1>7, <2>1, <2>2, <3>2, <3>5
  <2> QED BY <1>7, <2>1, <2>2
<1>12. (i <= Len(acc) /\ k = got[i] + 1) \/ (i = Len(acc) + 1 /\ k = 1)
  <2>1. CASE i <= Len(acc)
    BY <1>11, <2>1
  <2>2. CASE i > Len(acc)
    <3>1. got[i] = 0 /\ k = 1
      BY <1>7, <1>10, <1>11, <2>2
    <3>2. i = 1 \/ i - 1 <= Len(acc)
      <4>1. \A j \in 1..N : (d[j].part = 1 /\ d[j].index > 1) =>
                \/ d[j].index - 1 <= Len(acc)
                \/ \E l \in 1..N : l < j /\ d[l].index = d[j].index - 1
        BY <1>3 DEF IndexOrder, N
      <4>2. i > 1 => \/ i - 1 <= Len(acc)
                     \/ \E l \in 1..N : l < 1 /\ d[l].index = i - 1
        BY <1>6, <3>1, <4>1 DEF i, k
      <4> QED BY <1>6, <1>7, <4>2
    <3> QED BY <1>1, <1>7, <2>2, <3>1, <3>2
  <2> QED BY <1>1, <1>7, <2>1, <2>2
<1>13. /\ acc' \in Seq(CallRecords) /\ Len(acc') = IF i <= Len(acc) THEN Len(acc) ELSE Len(acc) + 1
       /\ acc'[i] = Call(i, k) /\ \A n \in 1..Len(acc) : n # i => acc'[n] = acc[n]
  <2>1. \A n \in 1..Len(acc) : acc[n].index = n
    <3>1. \A n, m : Call(n, m).index = n
      BY DEF Call
    <3> QED BY <1>10, <3>1
  <2> DEFINE r == Tool!Feed(acc, Tool!Fragment(i, k))
  <2>2. /\ r \in Seq(CallRecords) /\ Len(r) = IF i <= Len(acc) THEN Len(acc) ELSE Len(acc) + 1
        /\ r[i] = Call(i, k) /\ \A n \in 1..Len(acc) : n # i => r[n] = acc[n]
    <3>1. i \in Nat \ {0} /\ k \in Nat \ {0} /\ acc \in Seq(CallRecords)
      BY <1>1, <1>7
    <3> HIDE DEF r
    <3>2. r = Tool!Feed(acc, Tool!Fragment(i, k))
      BY DEF r
    <3>3. (i <= Len(acc) /\ acc[i] = Call(i, k - 1)) \/ (i = Len(acc) + 1 /\ k = 1)
      BY <1>7, <1>10, <1>11, <1>12
    <3>4. Fed(acc, i, k, r)
      BY <2>1, <3>1, <3>2, <3>3, FeedIs
    <3> QED BY <3>4 DEF Fed
  <2>3. acc' = r
    BY <1>8
  <2> HIDE DEF r
  <2> QED BY <2>2, <2>3
<1>14. PICK gg \in [1..Calls -> 0..Parts] : gg[i] = k /\ \A n \in 1..Calls : n # i => gg[n] = got[n]
  <2> DEFINE g2 == [got EXCEPT ![i] = k]
  <2>1. g2 \in [1..Calls -> 0..Parts] /\ g2[i] = k /\ \A n \in 1..Calls : n # i => g2[n] = got[n]
    BY <1>7, Numbers
  <2> HIDE DEF g2
  <2> QED BY <2>1
<1>15. PICK e \in Seq(Pieces) : Len(e) = N - 1 /\ \A j \in 1..(N - 1) : e[j] = d[j + 1]
  <2>1. Tail(d) \in Seq(Pieces) /\ Len(Tail(d)) = N - 1 /\ \A j \in 1..(N - 1) : Tail(d)[j] = d[j + 1]
    BY <1>6 DEF N
  <2> QED BY <2>1
<1>16. /\ \A j \in 1..Len(e) : j + 1 \in 1..N /\ e[j] = d[j + 1] /\ j + 1 > 1
       /\ \A j \in 1..N : j = 1 \/ (j - 1 \in 1..Len(e) /\ e[j - 1] = d[j])
  <2>1. \A j \in 1..Len(e) : j + 1 \in 1..N /\ e[j] = d[j + 1] /\ j + 1 > 1
    BY <1>6, <1>15
  <2>2. ASSUME NEW j \in 1..N, j # 1 PROVE j - 1 \in 1..Len(e) /\ e[j - 1] = d[j]
    <3>1. j - 1 \in 1..Len(e) /\ (j - 1) + 1 = j
      BY <1>6, <1>15, <2>2
    <3> QED BY <2>1, <3>1
  <2> QED BY <2>1, <2>2
<1>17. /\ buf' \in Seq(Symbols) /\ Len(buf') = Len(buf) - 2
       /\ \A n \in 1..(Len(buf) - 2) : buf'[n] = buf[2 + n]
  <2>1. 2 \in 0..Len(buf) /\ 2 + 1 = 3
    BY <1>1, <1>5
  <2> QED BY <1>1, <1>8, <2>1, CutAt
<1>18. ToolTypes'
  BY <1>1, <1>4, <1>13, <1>17 DEF ToolTypes, CallRecords
<1>19. Framed(e)'
  <2>1. /\ Len(Flow) = Len(buf) + Len(wire)
        /\ \A n \in 1..Len(Flow) : Flow[n] = IF n <= Len(buf) THEN buf[n] ELSE wire[n - Len(buf)]
    BY <1>1, FlowIs
  <2>2. /\ Flow' = buf' \o wire /\ Len(buf' \o wire) = Len(buf') + Len(wire)
        /\ \A n \in 1..(Len(buf') + Len(wire)) : (buf' \o wire)[n] = IF n <= Len(buf') THEN buf'[n] ELSE wire[n - Len(buf')]
    BY <1>1, <1>4, <1>17, ConcatProperties DEF Flow
  <2>3. /\ Len(Flow') = Len(Flow) - 2 /\ Len(Flow) \in Nat
        /\ \A n \in 1..(Len(Flow) - 2) : Flow'[n] = IF n <= Len(buf') THEN buf'[n] ELSE wire[n - Len(buf')]
    <3>1. Len(buf') + Len(wire) = Len(Flow) - 2 /\ Len(Flow) \in Nat
      BY <1>1, <1>17, <2>1
    <3> QED BY <2>2, <3>1
  <2>4. ASSUME NEW n \in 1..(Len(Flow) - 2) PROVE Flow'[n] = Flow[2 + n]
    <3>0. 2 + n \in 1..Len(Flow) /\ n \in Int /\ 1 <= n
      BY <2>3
    <3>1. CASE n <= Len(buf')
      <4>1. n \in 1..(Len(buf) - 2) /\ 2 + n <= Len(buf)
        BY <1>1, <1>17, <3>0, <3>1
      <4> QED BY <1>17, <2>1, <2>3, <3>0, <3>1, <4>1
    <3>2. CASE ~(n <= Len(buf'))
      <4>1. ~(2 + n <= Len(buf)) /\ (2 + n) - Len(buf) = n - Len(buf')
        BY <1>1, <1>17, <3>0, <3>2
      <4> QED BY <2>1, <2>3, <3>0, <3>2, <4>1
    <3> QED BY <3>1, <3>2
  <2>5. Len(Flow) = 2 * N /\ \A j \in 1..N : Flow[2 * j - 1] = Tool!Fragment(d[j].index, d[j].part) /\ Flow[2 * j] = Tool!Blank
    BY <1>3 DEF Framed, N
  <2>6. Len(Flow') = 2 * Len(e)
    BY <1>6, <1>15, <2>3, <2>5
  <2>7. \A j \in 1..Len(e) : Flow'[2 * j - 1] = Tool!Fragment(e[j].index, e[j].part) /\ Flow'[2 * j] = Tool!Blank
    <3> TAKE j \in 1..Len(e)
    <3>1. /\ 2 * j - 1 \in 1..(Len(Flow) - 2) /\ 2 * j \in 1..(Len(Flow) - 2)
          /\ 2 + (2 * j - 1) = 2 * (j + 1) - 1 /\ 2 + 2 * j = 2 * (j + 1)
      BY <1>6, <1>15, <2>3, <2>5
    <3>2. Flow'[2 * j - 1] = Flow[2 * (j + 1) - 1] /\ Flow'[2 * j] = Flow[2 * (j + 1)]
      BY <2>4, <3>1
    <3>3. j + 1 \in 1..N /\ e[j] = d[j + 1]
      BY <1>16
    <3>4. /\ Flow[2 * (j + 1) - 1] = Tool!Fragment(d[j + 1].index, d[j + 1].part)
          /\ Flow[2 * (j + 1)] = Tool!Blank
      BY <2>5, <3>3
    <3> QED BY <3>2, <3>3, <3>4
  <2>8. (Len(Flow) = 2 * Len(e))' /\ (\A j \in 1..Len(e) : Flow[2 * j - 1] = Tool!Fragment(e[j].index, e[j].part) /\ Flow[2 * j] = Tool!Blank)'
    BY <2>6, <2>7
  <2> QED BY <2>8 DEF Framed
<1>20. Taken(gg)'
  <2>1. Len(acc') <= Calls /\ Len(acc) <= Len(acc') /\ Len(acc') \in Nat
    BY <1>1, <1>7, <1>10, <1>12, <1>13, Numbers, SMTT(30)
  <2>2. ASSUME NEW n \in 1..Len(acc') PROVE gg[n] > 0 /\ acc'[n] = Call(n, gg[n])
    <3>1. CASE n = i
      BY <1>7, <1>13, <1>14, <3>1
    <3>2. CASE n # i
      <4>1. n \in Int /\ 1 <= n /\ n <= Len(acc') /\ i \in Int
        BY <1>7, <2>1
      <4>2. n <= Len(acc)
        BY <1>1, <1>12, <1>13, <3>2, <4>1
      <4>3. n \in 1..Len(acc) /\ n \in 1..Calls
        BY <1>1, <1>10, <4>1, <4>2, Numbers
      <4> QED BY <1>10, <1>13, <1>14, <3>2, <4>3
    <3> QED BY <3>1, <3>2
  <2>3. ASSUME NEW n \in 1..Calls, n > Len(acc') PROVE gg[n] = 0
    <3>1. n > Len(acc) /\ n # i
      BY <1>1, <1>7, <1>12, <1>13, <2>1, <2>3
    <3> QED BY <1>10, <1>14, <3>1
  <2> QED BY <2>1, <2>2, <2>3 DEF Taken
<1>21. UnderWay(e, gg)'
  <2>1. \A n \in 1..Calls : gg[n] <= sentTo[n]
    BY <1>6, <1>7, <1>9, <1>14 DEF i, k
  <2>2. ASSUME NEW j \in 1..Len(e) PROVE gg[e[j].index] < e[j].part /\ e[j].part <= sentTo[e[j].index]
    <3>1. e[j] = d[j + 1] /\ j + 1 \in 1..N /\ 1 < j + 1 /\ d[j + 1].index \in 1..Calls
      BY <1>6, <1>16
    <3>2. got[d[j + 1].index] < d[j + 1].part /\ d[j + 1].part <= sentTo[d[j + 1].index]
      BY <1>9, <3>1
    <3>3. CASE d[j + 1].index = i
      <4>1. k < d[j + 1].part
        BY <1>6, <1>9, <3>1, <3>3 DEF i, k
      <4> QED BY <1>14, <3>1, <3>2, <3>3, <4>1
    <3>4. CASE d[j + 1].index # i
      BY <1>14, <3>1, <3>2, <3>4
    <3> QED BY <3>3, <3>4
  <2>3. ASSUME NEW n \in 1..Calls, NEW m \in 1..Parts, gg[n] < m, m <= sentTo[n]
        PROVE  \E j \in 1..Len(e) : e[j].index = n /\ e[j].part = m
    <3>1. got[n] < m
      <4>1. CASE n = i
        BY <1>7, <1>9, <1>11, <1>14, <2>3, <4>1
      <4>2. CASE n # i
        BY <1>14, <2>3, <4>2
      <4> QED BY <4>1, <4>2
    <3>2. PICK j \in 1..N : d[j].index = n /\ d[j].part = m
      BY <1>9, <2>3, <3>1
    <3>3. j # 1
      BY <1>7, <1>14, <2>3, <3>2 DEF i, k
    <3>4. j - 1 \in 1..Len(e) /\ e[j - 1] = d[j]
      BY <1>16, <3>3
    <3> QED BY <3>2, <3>4
  <2>4. ASSUME NEW j \in 1..Len(e), NEW l \in 1..Len(e), j < l, e[j].index = e[l].index PROVE e[j].part < e[l].part
    <3>1. /\ e[j] = d[j + 1] /\ j + 1 \in 1..N /\ e[l] = d[l + 1] /\ l + 1 \in 1..N /\ j + 1 < l + 1
      BY <1>16, <2>4
    <3> QED BY <1>9, <2>4, <3>1
  <2> QED BY <1>4, <2>1, <2>2, <2>3, <2>4 DEF UnderWay
<1>22. IndexOrder(e)'
  <2>1. \A n \in 1..Calls : (sentTo[n] > 0 /\ n > 1) => sentTo[n - 1] > 0
    BY <1>3 DEF IndexOrder
  <2>2. ASSUME NEW j \in 1..Len(e), e[j].part = 1, e[j].index > 1
        PROVE  \/ e[j].index - 1 <= Len(acc')
               \/ \E l \in 1..Len(e) : l < j /\ e[l].index = e[j].index - 1
    <3>0. Len(acc) <= Len(acc') /\ i <= Len(acc') /\ Len(acc') \in Int
      BY <1>1, <1>7, <1>12, <1>13
    <3>1. e[j] = d[j + 1] /\ j + 1 \in 1..N /\ d[j + 1].index \in 1..Calls /\ d[j + 1].index - 1 \in Int
      BY <1>6, <1>16, Numbers
    <3>2. \/ d[j + 1].index - 1 <= Len(acc)
          \/ \E l \in 1..N : l < j + 1 /\ d[l].index = d[j + 1].index - 1
      BY <1>3, <2>2, <3>1 DEF IndexOrder, N
    <3>3. CASE d[j + 1].index - 1 <= Len(acc)
      BY <1>1, <3>0, <3>1, <3>3
    <3>4. ASSUME NEW l \in 1..N, l < j + 1, d[l].index = d[j + 1].index - 1
          PROVE  \/ e[j].index - 1 <= Len(acc')
                 \/ \E n \in 1..Len(e) : n < j /\ e[n].index = e[j].index - 1
      <4>1. CASE l = 1
        BY <3>0, <3>1, <3>4, <4>1 DEF i
      <4>2. CASE l # 1
        <5>1. l - 1 \in 1..Len(e) /\ e[l - 1] = d[l] /\ l - 1 < j
          BY <1>16, <3>4, <4>2
        <5> QED BY <3>1, <3>4, <5>1
      <4> QED BY <4>1, <4>2
    <3> QED BY <3>2, <3>3, <3>4
  <2> QED BY <1>4, <2>1, <2>2 DEF IndexOrder
<1>23. (Framed(e) /\ Taken(gg) /\ UnderWay(e, gg) /\ IndexOrder(e))'
  BY <1>19, <1>20, <1>21, <1>22
<1> QED BY <1>14, <1>15, <1>18, <1>23 DEF ToolInv

LEMMA ToolStep == ASSUME ToolInv, [Tool!Next]_Tool!vars PROVE ToolInv'
<1>1. CASE \E i \in 1..Calls : Tool!ServerSends(i)
  BY <1>1, SendStep
<1>2. CASE \E n \in 1..(2 * Calls * Parts) : Tool!Receive(n)
  BY <1>2, ReceiveStep
<1>3. CASE Tool!Event
  BY <1>3, EventStep
<1>4. CASE UNCHANGED Tool!vars
  <2>1. UNCHANGED <<wire, sentTo, buf, acc>>
    BY <1>4 DEF Tool!vars
  <2>2. ToolTypes' /\ Flow' = Flow
    BY <2>1 DEF ToolInv, ToolTypes, Flow
  <2>3. PICK d \in Seq(Pieces) : \E got \in [1..Calls -> 0..Parts] :
           Framed(d) /\ Taken(got) /\ UnderWay(d, got) /\ IndexOrder(d)
    BY DEF ToolInv
  <2>4. PICK got \in [1..Calls -> 0..Parts] : Framed(d) /\ Taken(got) /\ UnderWay(d, got) /\ IndexOrder(d)
    BY <2>3
  <2>5. (Framed(d) /\ Taken(got) /\ UnderWay(d, got) /\ IndexOrder(d))'
    BY <2>1, <2>2, <2>4 DEF Framed, Taken, UnderWay, IndexOrder
  <2> QED BY <2>2, <2>5 DEF ToolInv
<1> QED BY <1>1, <1>2, <1>3, <1>4 DEF Tool!Next

LEMMA ToolIsSound == ToolInv => Tool!TypeOK /\ Tool!CallsReassembled
<1> SUFFICES ASSUME ToolInv PROVE Tool!TypeOK /\ Tool!CallsReassembled
  OBVIOUS
<1>1. ToolTypes /\ acc \in Seq(CallRecords) /\ Len(acc) \in Nat /\ sentTo \in [1..Calls -> 0..Parts]
  BY DEF ToolInv, ToolTypes, CallRecords
<1>2. PICK d \in Seq(Pieces) : \E got \in [1..Calls -> 0..Parts] :
           Framed(d) /\ Taken(got) /\ UnderWay(d, got) /\ IndexOrder(d)
  BY DEF ToolInv
<1>3. PICK got \in [1..Calls -> 0..Parts] : Framed(d) /\ Taken(got) /\ UnderWay(d, got) /\ IndexOrder(d)
  BY <1>2
<1>4. /\ Len(acc) <= Calls /\ \A i \in 1..Len(acc) : got[i] > 0 /\ acc[i] = Call(i, got[i])
      /\ \A i \in 1..Calls : i > Len(acc) => got[i] = 0
  BY <1>3 DEF Taken
<1>5. Tool!TypeOK
  <2>1. ASSUME NEW i \in DOMAIN acc PROVE acc[i].index \in 1..Calls /\ acc[i].named \in BOOLEAN
    <3>1. i \in 1..Len(acc) /\ i \in 1..Calls
      BY <1>1, <1>4, <2>1, Numbers
    <3>2. acc[i] = Call(i, got[i])
      BY <1>1, <1>4, <2>1
    <3>3. Call(i, got[i]).index = i /\ Call(i, got[i]).named = TRUE
      BY DEF Call
    <3> QED BY <3>1, <3>2, <3>3
  <2>2. \A i \in 1..Calls : sentTo[i] \in 0..Parts
    BY <1>1
  <2> QED BY <2>1, <2>2 DEF Tool!TypeOK
<1>6. ASSUME wire = <<>>, buf = <<>>
      PROVE  /\ Len(acc) = Cardinality({i \in 1..Calls : sentTo[i] > 0})
             /\ \A i \in DOMAIN acc :
                  acc[i] = [index |-> i, named |-> TRUE, args |-> [k \in 1..sentTo[i] |-> k]]
  <2>1. Len(d) = 0
    <3>1. Len(Flow) = 0
      BY <1>6 DEF Flow
    <3>2. Len(Flow) = 2 * Len(d) /\ Len(d) \in Nat
      BY <1>3 DEF Framed
    <3>3. 2 * Len(d) = 0
      BY <3>1, <3>2
    <3> HIDE DEF Flow
    <3> QED BY <3>2, <3>3
  <2>2. ASSUME NEW i \in 1..Calls PROVE got[i] = sentTo[i] /\ got[i] \in Nat
    <3>1. got[i] <= sentTo[i] /\ got[i] \in 0..Parts /\ sentTo[i] \in 0..Parts
      BY <1>1, <1>3 DEF UnderWay
    <3>2. ~(got[i] < sentTo[i])
      <4>1. SUFFICES ASSUME got[i] < sentTo[i] PROVE FALSE
        OBVIOUS
      <4>2. sentTo[i] \in 1..Parts /\ sentTo[i] <= sentTo[i]
        BY <3>1, <4>1, Numbers
      <4>3. \E j \in 1..Len(d) : TRUE
        BY <1>3, <4>1, <4>2 DEF UnderWay
      <4> QED BY <2>1, <4>3
    <3> QED BY <3>1, <3>2, Numbers
  <2>3. {i \in 1..Calls : sentTo[i] > 0} = 1..Len(acc)
    <3>1. ASSUME NEW i \in 1..Calls PROVE sentTo[i] > 0 <=> i <= Len(acc)
      BY <1>1, <1>4, <2>2
    <3>2. \A i \in 1..Len(acc) : i \in 1..Calls
      BY <1>1, <1>4, Numbers
    <3> QED BY <1>1, <3>1, <3>2
  <2>4. Cardinality(1..Len(acc)) = Len(acc)
    <3>0. 1 \in Int /\ Len(acc) \in Int
      BY <1>1
    <3>1. Cardinality(1..Len(acc)) = IF 1 > Len(acc) THEN 0 ELSE Len(acc) - 1 + 1
      BY <3>0, FS_Interval
    <3> QED BY <1>1, <3>1
  <2>5. ASSUME NEW i \in 1..Len(acc)
        PROVE  acc[i] = [index |-> i, named |-> TRUE, args |-> [k \in 1..sentTo[i] |-> k]]
    <3>1. i \in 1..Calls
      BY <1>1, <1>4, Numbers
    <3>2. got[i] = sentTo[i] /\ acc[i] = Call(i, got[i])
      BY <1>4, <2>2, <3>1
    <3> QED BY <3>2 DEF Call
  <2>6. DOMAIN acc = 1..Len(acc)
    BY <1>1
  <2> QED BY <2>3, <2>4, <2>5, <2>6
<1>7. Tool!CallsReassembled
  <2>1. (wire = <<>> /\ buf = <<>>) =>
            /\ Len(acc) = Cardinality({i \in 1..Calls : sentTo[i] > 0})
            /\ \A i \in DOMAIN acc :
                 acc[i] = [index |-> i, named |-> TRUE, args |-> [k \in 1..sentTo[i] |-> k]]
    BY <1>6
  <2>2. \A S : Tool!Cardinality(S) = Cardinality(S)
    BY DEF Tool!Cardinality, Cardinality
  <2> QED BY <2>1, <2>2, Zenon DEF Tool!CallsReassembled
<1> QED BY <1>5, <1>7

-----------------------------------------------------------------------------
(* The parts together.                                                     *)

RouterInv == IInv /\ ReqInv /\ CacheInv /\ ToolInv /\ FetchInv /\ RenewInv /\ IdleInv

LEMMA RouterStarts == RouterInit => RouterInv
BY InitIInv, RequestStarts, CacheStarts, ToolStarts, FetchStarts, RenewStarts, IdleStarts DEF RouterInit, RouterInv

\* A part that does not move keeps its variables.
LEMMA StepsAreParts ==
    ASSUME [RouterNext]_allVars
    PROVE  /\ [Next]_vars /\ [Req!Next]_Req!vars /\ [Cache!Next]_Cache!vars /\ [Tool!Next]_Tool!vars
           /\ [Fetch!Next]_Fetch!vars /\ [Renew!Next]_Renew!vars /\ [Idle!Next]_Idle!vars
<1>1. /\ UNCHANGED reqVars => UNCHANGED Req!vars
      /\ UNCHANGED cacheVars => UNCHANGED Cache!vars
      /\ UNCHANGED streamVars => UNCHANGED Tool!vars
      /\ UNCHANGED fetchVars => UNCHANGED Fetch!vars
      /\ UNCHANGED renewVars => UNCHANGED Renew!vars
      /\ UNCHANGED idleVars => UNCHANGED Idle!vars
  BY DEF reqVars, Req!vars, cacheVars, Cache!vars, streamVars, Tool!vars, fetchVars, Fetch!vars,
         renewVars, Renew!vars, Renew!data, idleVars, Idle!vars
<1>2. CASE InKeys(Next)
  BY <1>1, <1>2 DEF InKeys, jobVars
<1>3. CASE InRequest(Req!Next)
  BY <1>1, <1>3 DEF InRequest, jobVars
<1>4. CASE InCache(Cache!Next)
  BY <1>1, <1>4 DEF InCache, jobVars
<1>5. CASE InFetch(Fetch!Next)
  BY <1>1, <1>5 DEF InFetch, jobVars
<1>6. CASE InStream(Tool!Next)
  BY <1>1, <1>6 DEF InStream, jobVars
<1>7. CASE InJobs(part = "renewal" /\ Renew!Next /\ UNCHANGED idleVars)
  BY <1>1, <1>7 DEF InJobs
<1>8. CASE InJobs(part = "restart" /\ Idle!Next /\ UNCHANGED renewVars)
  BY <1>1, <1>8 DEF InJobs
<1>9. CASE UNCHANGED allVars
  BY <1>1, <1>9 DEF allVars, jobVars
<1> QED BY <1>2, <1>3, <1>4, <1>5, <1>6, <1>7, <1>8, <1>9 DEF RouterNext

LEMMA RouterStep == ASSUME RouterInv, [RouterNext]_allVars PROVE RouterInv'
BY StepsAreParts, NextIInv, RequestStep, CacheStep, ToolStep, FetchStep, RenewStep, IdleStep DEF RouterInv

\* Whatever the route, the caller and the body: nothing is posted upstream that
\* its handler's checks would refuse, a scoped key starts nothing but what it
\* may, and web_fetch connects to no private address, however a name's
\* addresses change between the check and the connection and wherever a
\* redirect leads (router-app.py's route handlers and _require_owner; the
\* pinned address of web_fetch).
THEOREM RequestsAreChecked == RouterSpec => []OnlyCheckedLeaves
<1>1. RouterInit => RouterInv
  BY RouterStarts
<1>2. RouterInv /\ [RouterNext]_allVars => RouterInv'
  BY RouterStep
<1>3. RouterInv => OnlyCheckedLeaves
  BY RequestIsSound DEF RouterInv, FetchInv, OnlyCheckedLeaves
<1> QED
  BY <1>1, <1>2, <1>3, PTL DEF RouterSpec

\* Every part keeps its types; a stream has its chunks in order and one ending,
\* every tool call is reassembled whole however the bytes are cut and is
\* answered under its id, the cache gives no answer that is stale, foreign or an
\* error, what /v1/models lists the profile guard lets pass, no job takes the
\* key of a client it did not reach, and none cuts off an answer for idleness
\* (tool_loop_stream and ToolCallAccumulator, TTLCache, the renewal and the
\* idle-restart jobs).
THEOREM AnswersStayWhole == RouterSpec => []AnswersAreWhole
<1>1. RouterInit => RouterInv
  BY RouterStarts
<1>2. RouterInv /\ [RouterNext]_allVars => RouterInv'
  BY RouterStep
<1>3. RouterInv => AnswersAreWhole
  <2>1. RouterInv => TypesKept
    BY RequestIsSound, CacheIsSound, ToolIsSound DEF RouterInv, FetchInv, RenewInv, IdleInv, TypesKept
  <2>2. RouterInv => /\ Req!OneEnding /\ Req!ConversationPaired /\ Req!AdvertisedIsServed
                     /\ Tool!CallsReassembled /\ Cache!CacheHonest
                     /\ Renew!RunnerKeepsKey /\ Idle!NothingLiveIsCut
    BY RequestIsSound, CacheIsSound, ToolIsSound DEF RouterInv, RenewInv, IdleInv
  <2> QED BY <2>1, <2>2 DEF AnswersAreWhole
<1> QED
  BY <1>1, <1>2, <1>3, PTL DEF RouterSpec
===============================================================================
