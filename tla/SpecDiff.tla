-------------------------------- MODULE SpecDiff -------------------------------
(***************************************************************************)
(* vcf_diff_spec (mcp_server.py): the structural difference of two         *)
(* documents that nobody validated.  Mappings are compared key by key,     *)
(* lists of named items by name, other lists as a whole; the report is     *)
(* bounded, and what changed under a credential position is masked.        *)
(*                                                                         *)
(* A document is a function from places to leaves plus one list of hosts;  *)
(* a place says whether it lies in a credentials block, has a credential-  *)
(* shaped name, or neither.  Leaves are compared in the order of places.   *)
(***************************************************************************)
EXTENDS Integers, Sequences, FiniteSets, SequencesExt

CONSTANTS
    Places,       \* sequence of the places of a document, in sorted order
    Kind,         \* place -> "credentials", "named" or "plain"
    HostLists,    \* the lists of hosts looked at, sequences of Items
    MaxChanges    \* MAX_CHANGES and MAX_CHANGE_CHARS, as one bound

VARIABLES
    left, right,  \* the documents: [leaf, hosts]
    at,           \* the next place, or beyond the last: the hosts
    changes,      \* reported: records [place, left, right]
    truncated, answer

vars == <<left, right, at, changes, truncated, answer>>

Leaves == {"absent", "reference", "secret"}
HostNames == {"esx01", "esx02"}
Items     == [name : HostNames, ip : {"ip1", "ip2"}]
Documents == [leaf : [ToSet(Places) -> Leaves], hosts : HostLists]
NoAnswer  == [given |-> FALSE, valid |-> FALSE]

Init ==
    /\ left \in Documents /\ right \in Documents
    /\ at = 1 /\ changes = <<>> /\ truncated = FALSE /\ answer = NoAnswer

\* load_document() of one side fails: nothing is compared.
Unreadable ==
    /\ at = 1 /\ ~answer.given
    /\ answer' = [given |-> TRUE, valid |-> FALSE]
    /\ UNCHANGED <<left, right, at, changes, truncated>>

\* _mask_credential_value: references stay, everything else is masked.
Masked(v) == IF v \in {"absent", "reference"} THEN v ELSE "masked"

\* _change_entry, for comparison by the name of the key alone.
NamedOnly(p, v) == IF Kind[p] = "named" THEN Masked(v) ELSE v
Shown(p, v) == IF Kind[p] \in {"credentials", "named"} THEN Masked(v) ELSE v

\* For comparison: nothing bounds the report.
ReportAll(entry) == changes' = Append(changes, entry) /\ UNCHANGED truncated
\* _ChangeBudget.take: the first change past the bound ends the comparison.
Report(entry) ==
    IF Len(changes) >= MaxChanges
    THEN truncated' = TRUE /\ UNCHANGED changes
    ELSE changes' = Append(changes, entry) /\ UNCHANGED truncated

Comparing == ~answer.given /\ ~truncated

Compare ==
    /\ Comparing /\ at <= Len(Places)
    /\ LET p == Places[at] IN
          IF left.leaf[p] = right.leaf[p] THEN UNCHANGED <<changes, truncated>>
          ELSE Report([place |-> p, left |-> Shown(p, left.leaf[p]), right |-> Shown(p, right.leaf[p])])
    /\ at' = at + 1
    /\ UNCHANGED <<left, right, answer>>

\* _diff_lists: items matched by name, a later item replacing an earlier one
\* of the same name.
LastOf(l, n)   == CHOOSE k \in DOMAIN l : l[k].name = n /\ \A j \in DOMAIN l : l[j].name = n => j <= k
ByName(l, n) == IF \E k \in DOMAIN l : l[k].name = n THEN l[LastOf(l, n)].ip ELSE "absent"
\* For comparison: matched by position.
ByPosition(l, n) == IF l = <<>> THEN "absent" ELSE l[1].ip

Match(l, n) == ByName(l, n)
Names == <<"esx01", "esx02">>
CompareHosts ==
    /\ Comparing /\ at \in Len(Places) + 1 .. Len(Places) + 2
    /\ LET n == Names[at - Len(Places)] IN
          IF Match(left.hosts, n) = Match(right.hosts, n) THEN UNCHANGED <<changes, truncated>>
          ELSE Report([place |-> n, left |-> Match(left.hosts, n), right |-> Match(right.hosts, n)])
    /\ at' = at + 1
    /\ UNCHANGED <<left, right, answer>>

\* A truncated diff is never called valid.
Finish ==
    /\ ~answer.given /\ (truncated \/ at > Len(Places) + 2)
    /\ answer' = [given |-> TRUE, valid |-> ~truncated]
    /\ UNCHANGED <<left, right, at, changes, truncated>>

Next == Unreadable \/ Compare \/ CompareHosts \/ Finish

Spec == Init /\ [][Next]_vars

-------------------------------------------------------------------------------
TypeOK ==
    /\ left \in Documents /\ right \in Documents /\ at \in 1 .. Len(Places) + 3
    /\ Len(changes) <= MaxChanges /\ truncated \in BOOLEAN

UniqueNames(l) == \A j, k \in DOMAIN l : l[j].name = l[k].name => j = k

\* A valid diff is complete: what it does not mention is the same in both, as
\* long as a list names each item once; and no secret appears in any diff.
DiffIsComplete ==
    /\ answer.given /\ answer.valid =>
          LET mentioned == {c.place : c \in ToSet(changes)} IN
          /\ \A p \in ToSet(Places) : left.leaf[p] # right.leaf[p] => p \in mentioned
          /\ UniqueNames(left.hosts) /\ UniqueNames(right.hosts) /\ ToSet(left.hosts) # ToSet(right.hosts)
                => mentioned \cap HostNames # {}
    /\ \A c \in ToSet(changes) :
          c.place \in ToSet(Places) /\ Kind[c.place] # "plain" => "secret" \notin {c.left, c.right}
===============================================================================
