------------------------------ MODULE RouterKeys ------------------------------
(***************************************************************************)
(* Scoped router keys: router-keys.py issues and revokes them in a JSON    *)
(* file, the router's KeyStore (access_keys.py) re-reads that file when    *)
(* its signature (inode, mtime, size) changed.                             *)
(*                                                                         *)
(* Every router-keys process is an actor of its own.  The router is one    *)
(* event loop and authenticate() never awaits, so at most one              *)
(* authentication is under way; but the file belongs to other processes,   *)
(* so its stat and its read are two steps.                                 *)
(***************************************************************************)
EXTENDS Integers, FiniteSets

CONSTANTS
    Admins,     \* processes running router-keys
    Names,      \* names given to --name
    MaxSaves,   \* bound: how often the file is replaced
    MaxMinted,  \* bound: how many keys are created
    Ttl,        \* --ttl-hours, in ticks of the clock
    MaxNow,     \* bound of the clock
    NoAdmin

ASSUME KeysAssumption ==
    /\ NoAdmin \notin Admins /\ Names # {}
    /\ {MaxSaves, MaxMinted, Ttl, MaxNow} \subseteq Nat

VARIABLES
    file,       \* ROUTER_KEYS_FILE
    saves,      \* how many files have stood at that path: the next signature
    lock,       \* who holds <keys file>.lock
    admin,      \* per process: where it stands and what it loaded
    minted,     \* keys written to an --out file so far
    store,      \* KeyStore._sig and KeyStore._entries
    auth,       \* the authentication under way
    now,
    added,      \* keys whose add has been acknowledged
    revoked     \* keys whose revoke has been acknowledged

vars == <<file, saves, lock, admin, minted, store, auth, now, added, revoked>>

Keys    == 1..MaxMinted
Entries == [name : Names, key : Keys, expires : 0..(MaxNow + Ttl)]
Missing   == [sig |-> 0, ok |-> FALSE, keys |-> {}]
Malformed(sig) == [sig |-> sig, ok |-> FALSE, keys |-> {}]

AtRest == [pc |-> "idle", op |-> "add", name |-> CHOOSE n \in Names : TRUE, data |-> {}, key |-> 0]
NoAuth == [pc |-> "idle", key |-> 0, before |-> {}, promised |-> {}, ok |-> FALSE]

Init ==
    /\ file = Missing /\ saves = 0
    /\ lock = NoAdmin /\ admin = [a \in Admins |-> AtRest]
    /\ minted = 0
    /\ store = [sig |-> 0, entries |-> {}]
    /\ auth = NoAuth
    /\ now = 0 /\ added = {} /\ revoked = {}

-------------------------------------------------------------------------------
(* router-keys                                                             *)

routerVars == <<store, auth, now>>

\* Closing the lock file releases it, whatever the way out.
Quit(a) ==
    /\ admin' = [admin EXCEPT ![a] = AtRest]
    /\ lock' = NoAdmin

\* router-keys without the lock, for comparison.
TakeNoLock(a) ==
    /\ admin[a].pc = "idle"
    /\ \E op \in {"add", "revoke", "revokeAll"}, n \in Names :
         admin' = [admin EXCEPT ![a] = [AtRest EXCEPT !.pc = "locked", !.op = op, !.name = n]]
    /\ UNCHANGED <<file, saves, lock, minted, routerVars, added, revoked>>

TakeLock(a) ==
    /\ admin[a].pc = "idle" /\ lock = NoAdmin
    /\ lock' = a
    /\ \E op \in {"add", "revoke", "revokeAll"}, n \in Names :
         admin' = [admin EXCEPT ![a] = [AtRest EXCEPT !.pc = "locked", !.op = op, !.name = n]]
    /\ UNCHANGED <<file, saves, minted, routerVars, added, revoked>>

Named(data, n) == {e \in data : e.name = n}

\* A missing file is an empty list, a malformed one ends the process.
Readable == file.sig = 0 \/ file.ok

Load(a) ==
    /\ admin[a].pc = "locked"
    /\ Readable
    /\ (admin[a].op = "add") => (Named(file.keys, admin[a].name) = {})
    /\ (admin[a].op = "revoke") => (Named(file.keys, admin[a].name) # {})
    /\ admin' = [admin EXCEPT ![a].pc = "loaded", ![a].data = file.keys]
    /\ UNCHANGED <<file, saves, lock, minted, routerVars, added, revoked>>

\* Malformed file, name taken, no such name: exit without a change.
Refuse(a) ==
    /\ admin[a].pc = "locked"
    /\ \/ ~Readable
       \/ admin[a].op = "add" /\ Named(file.keys, admin[a].name) # {}
       \/ admin[a].op = "revoke" /\ Named(file.keys, admin[a].name) = {}
    /\ Quit(a)
    /\ UNCHANGED <<file, saves, minted, routerVars, added, revoked>>

\* The plaintext goes to --out before the keys file knows its hash.
Mint(a) ==
    /\ admin[a].pc = "loaded" /\ admin[a].op = "add" /\ admin[a].key = 0
    /\ minted < MaxMinted
    /\ minted' = minted + 1
    /\ admin' = [admin EXCEPT ![a].key = minted + 1,
                              ![a].data = @ \cup {[name |-> admin[a].name, key |-> minted + 1,
                                                   expires |-> now + Ttl]}]
    /\ UNCHANGED <<file, saves, lock, routerVars, added, revoked>>

KeysOf(data) == {e.key : e \in data}

\* What the process writes: its loaded list, with or without the entries named.
Remaining(a) ==
    CASE admin[a].op = "add" -> admin[a].data
      [] admin[a].op = "revoke" -> admin[a].data \ Named(admin[a].data, admin[a].name)
      [] OTHER -> {}

\* os.replace: a new inode under the old path; then the result is printed.
Save(a) ==
    /\ admin[a].pc = "loaded" /\ saves < MaxSaves
    /\ (admin[a].op = "add") => (admin[a].key # 0)
    /\ file' = [sig |-> saves + 1, ok |-> TRUE, keys |-> Remaining(a)]
    /\ saves' = saves + 1
    /\ added' = added \cup (IF admin[a].op = "add" THEN {admin[a].key} ELSE {})
    /\ revoked' = revoked \cup (KeysOf(admin[a].data) \ KeysOf(Remaining(a)))
    /\ Quit(a)
    /\ UNCHANGED <<minted, routerVars>>

\* An --out file that exists, a full disk, a kill: the keys file is untouched.
Fail(a) ==
    /\ admin[a].pc \in {"locked", "loaded"}
    /\ Quit(a)
    /\ UNCHANGED <<file, saves, minted, routerVars, added, revoked>>

\* The file is the operator's too: removed, or left malformed by an editor.
Tamper ==
    /\ saves < MaxSaves
    /\ saves' = saves + 1
    /\ file' \in {Missing, Malformed(saves + 1)}
    /\ added' = {}
    /\ UNCHANGED <<lock, admin, minted, routerVars, revoked>>

-------------------------------------------------------------------------------
(* KeyStore.authenticate                                                   *)

adminVars == <<file, saves, lock, admin, minted, added, revoked>>

\* `before` and `promised` record what had been acknowledged when it began.
Present(k) ==
    /\ auth.pc = "idle"
    /\ auth' = [pc |-> "stat", key |-> k, before |-> revoked, promised |-> added, ok |-> FALSE]
    /\ UNCHANGED <<adminVars, store, now>>

Stat ==
    /\ auth.pc = "stat"
    /\ \/ /\ file.sig = 0
          /\ store' = [sig |-> 0, entries |-> {}]
          /\ auth' = [auth EXCEPT !.pc = "match"]
       \/ /\ file.sig # 0 /\ file.sig = store.sig
          /\ auth' = [auth EXCEPT !.pc = "match"]
          /\ UNCHANGED store
       \/ /\ file.sig # 0 /\ file.sig # store.sig
          /\ store' = [store EXCEPT !.sig = file.sig]
          /\ auth' = [auth EXCEPT !.pc = "read"]
    /\ UNCHANGED <<adminVars, now>>

\* The file that is read may not be the one that was stat'ed.
ReadFile ==
    /\ auth.pc = "read"
    /\ store' = [store EXCEPT !.entries = file.keys]
    /\ auth' = [auth EXCEPT !.pc = "match"]
    /\ UNCHANGED <<adminVars, now>>

Match ==
    /\ auth.pc = "match"
    /\ auth' = [auth EXCEPT !.pc = "done",
                            !.ok = \E e \in store.entries : e.key = auth.key /\ now < e.expires]
    /\ UNCHANGED <<adminVars, store, now>>

Answer ==
    /\ auth.pc = "done"
    /\ auth' = NoAuth
    /\ UNCHANGED <<adminVars, store, now>>

Tick ==
    /\ now < MaxNow /\ now' = now + 1
    /\ UNCHANGED <<adminVars, store, auth>>

Next ==
    \/ \E a \in Admins : TakeLock(a) \/ Load(a) \/ Refuse(a) \/ Mint(a) \/ Save(a) \/ Fail(a)
    \/ \E k \in 1..minted : Present(k)
    \/ Tamper \/ Stat \/ ReadFile \/ Match \/ Answer \/ Tick

Spec == Init /\ [][Next]_vars

-------------------------------------------------------------------------------
TypeOK ==
    /\ file \in [sig : 0..MaxSaves, ok : BOOLEAN, keys : SUBSET Entries]
    /\ saves \in 0..MaxSaves /\ minted \in 0..MaxMinted /\ now \in 0..MaxNow
    /\ lock \in Admins \cup {NoAdmin}
    /\ \A a \in Admins : admin[a].pc \in {"idle", "locked", "loaded"}
    /\ store.sig \in 0..MaxSaves /\ store.entries \subseteq Entries
    /\ auth.pc \in {"idle", "stat", "read", "match", "done"}

\* No process undoes another's change: a revoked key never comes back to the
\* file and an added one stays until it is revoked (the lock of _locked held
\* across load, modify and save).
NothingUndone ==
    /\ KeysOf(file.keys) \cap revoked = {}
    /\ added \subseteq KeysOf(file.keys) \cup revoked

\* The next request sees every change: a key revoked before the request began
\* is refused, one added before it and not revoked since is accepted until it
\* expires (the signature test of _reload_if_changed).
NextRequestSees ==
    auth.pc = "done" =>
        /\ auth.ok => auth.key \notin auth.before
        /\ (/\ auth.key \in (auth.promised \cap added) \ revoked
            /\ \A e \in file.keys : e.key = auth.key => now < e.expires) => auth.ok

\* Issued and revoked keys take effect: no router-keys process undoes another's
\* change and the router's next request sees it (router-keys.py:_locked,
\* KeyStore).
KeysTakeEffect == TypeOK /\ NothingUndone /\ NextRequestSees
===============================================================================
