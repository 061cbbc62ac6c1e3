------------------------------ MODULE KeyRenewal ------------------------------
(***************************************************************************)
(* agent-runner-key-renew.sh: the host's daily job that replaces the       *)
(* runner's router key when it has little time left.  `set -e` ends it at  *)
(* the first command that fails; a command that failed, or was running     *)
(* when the host went down, may have done its work all the same.           *)
(*                                                                         *)
(* A command of router-keys (RouterKeys) is one step here.                 *)
(***************************************************************************)
EXTENDS Integers

CONSTANTS
    Ttl,        \* TTL, in days
    RenewAt,    \* RENEW_HOURS, in days
    MaxKeys     \* bound: keys issued

VARIABLES
    entry,      \* the entry agent-runner of the keys file, NoEntry without
    outFile,    \* the key in the --out file, 0 without
    installed,  \* the key in the runner's router.key
    at,         \* the command the script is about to run, or "idle"
    found,      \* $exp: an active entry was listed
    reached,    \* the runner answered this run's first ssh
    issued,     \* keys issued so far
    revoker     \* who revoked the installed key: "nobody", "owner", or a run that
                \* had "reached" or "missed" the runner

data == <<entry, outFile, installed, issued, revoker>>
vars == <<data, at, found, reached>>

NoEntry == [key |-> 0, left |-> 0]
Active  == entry.key # 0 /\ entry.left > 0

Init ==
    /\ entry = [key |-> 1, left |-> Ttl] /\ installed = 1 /\ issued = 1
    /\ outFile = 0 /\ at = "idle" /\ found = FALSE /\ reached = FALSE /\ revoker = "nobody"

DayPasses ==
    /\ at = "idle" /\ entry.left > 0
    /\ entry' = [entry EXCEPT !.left = @ - 1]
    /\ UNCHANGED <<outFile, installed, issued, revoker, at, found, reached>>

\* The owner's remedy: the entry revoked by hand, a left-over file removed.
OwnerClears ==
    /\ at = "idle"
    /\ entry' = NoEntry /\ outFile' = 0
    /\ revoker' = IF entry.key = 0 THEN revoker ELSE "owner"
    /\ UNCHANGED <<installed, issued, at, found, reached>>

-------------------------------------------------------------------------------
(* What the commands do.                                                   *)

RevokesKey ==
    /\ found /\ entry' = NoEntry /\ revoker' = (IF reached THEN "reached" ELSE "missed")
    /\ UNCHANGED <<outFile, installed, issued>>

\* router-keys add: refused while the name or the file exists.  The key goes
\* to the file before the entry is saved.
WritesKey ==
    /\ entry = NoEntry /\ outFile = 0 /\ issued < MaxKeys
    /\ issued' = issued + 1 /\ outFile' = issued + 1
    /\ UNCHANGED <<installed, revoker>>
AddsKey == WritesKey /\ entry' = [key |-> issued + 1, left |-> Ttl]

\* The file is shredded before it was read, for comparison.
PushesNothing ==
    /\ installed' = 0 /\ revoker' = "nobody"
    /\ UNCHANGED <<entry, outFile, issued>>

\* tee, chown, chmod and mv on the runner: the old key or the new one.
PushesKey ==
    /\ installed' = outFile /\ revoker' = "nobody"
    /\ UNCHANGED <<entry, outFile, issued>>

ShredsFile == outFile' = 0 /\ UNCHANGED <<entry, installed, issued, revoker>>

-------------------------------------------------------------------------------
(* The script.                                                             *)

Due == \E force \in BOOLEAN : force \/ ~Active \/ entry.left <= RenewAt

\* The runner is not asked first, for comparison.
StartsBlindly ==
    /\ at = "idle" /\ Due
    /\ at' = "revoke" /\ found' = Active /\ reached' = FALSE /\ UNCHANGED data

\* An entry that expired is not listed as active: it is not found.
Starts ==
    /\ at = "idle" /\ Due
    /\ at' = "reach" /\ found' = Active /\ reached' = FALSE /\ UNCHANGED data

Runs(command, effect, next) ==
    at = command /\ effect /\ at' = next /\ UNCHANGED <<found, reached>>

Reaches == at = "reach" /\ at' = "revoke" /\ reached' = TRUE /\ UNCHANGED <<data, found>>
Revokes == Runs("revoke", RevokesKey \/ (~found /\ UNCHANGED data), "add")
Adds    == Runs("add", AddsKey, "push")
Pushes  == Runs("push", PushesKey, "shred")
Shreds  == Runs("shred", ShredsFile, "verify")
Ends    == \E command \in {"reach", "revoke", "add", "push", "shred", "verify"} :
    Runs(command,
         \/ UNCHANGED data
         \/ command = "revoke" /\ RevokesKey
         \/ command = "add" /\ (AddsKey \/ (WritesKey /\ UNCHANGED entry))
         \/ command = "push" /\ PushesKey
         \/ command = "shred" /\ ShredsFile,
         "idle")

Next ==
    \/ DayPasses \/ OwnerClears
    \/ Starts \/ Reaches \/ Revokes \/ Adds \/ Pushes \/ Shreds \/ Ends

-------------------------------------------------------------------------------
TypeOK ==
    /\ entry \in {NoEntry} \cup [key : 1..MaxKeys, left : 0..Ttl]
    /\ outFile \in 0..MaxKeys /\ installed \in 0..MaxKeys /\ issued \in 1..MaxKeys
    /\ at \in {"idle", "reach", "revoke", "add", "push", "shred", "verify"}
    /\ {found, reached} \subseteq BOOLEAN /\ revoker \in {"nobody", "owner", "reached", "missed"}

\* The runner's key is in the router's file unless the owner, or a run that had
\* reached the runner, revoked it ("runner reachable before we revoke
\* anything"); a run that gets to its last check has installed the key it
\* issued, which is valid, and left no copy in the router's container.
RunnerKeepsKey ==
    /\ installed # entry.key => revoker \in {"owner", "reached"}
    /\ at = "verify" => Active /\ installed = entry.key /\ outFile = 0
===============================================================================
