------------------------------ MODULE MemoryBridge ------------------------------
(***************************************************************************)
(* The MCP bridge to the memory vault (memory-vault-bridge.py): every      *)
(* request runs in a task of its own with its ?space= in a context         *)
(* variable; a space is created before its first use and remembered.       *)
(*                                                                         *)
(* The vault may refuse, fail or be unreachable at each call.  A memory is *)
(* represented by the request that sent it.                                *)
(***************************************************************************)
EXTENDS Integers, FiniteSets

CONSTANTS
    Requests,   \* calls of a tool that may be under way together
    Spaces,     \* space names
    Default     \* MEMVAULT_DEFAULT_SPACE, one of them

VARIABLES
    req,        \* per request: its tool, its space, where it is
    known,      \* _known_spaces
    created,    \* spaces of the vault
    refusing,   \* spaces whose creation the vault refused
    stored      \* memories: the request and the space each lies in

vars == <<req, known, created, refusing, stored>>

NoRequest == [pc |-> "new", tool |-> "remember", query |-> Default, given |-> Default, space |-> Default,
              overridden |-> FALSE, answer |-> "none"]

Init ==
    /\ req = [r \in Requests |-> NoRequest]
    /\ known = {} /\ created = {} /\ refusing = {}
    /\ stored = {}

-------------------------------------------------------------------------------
\* One variable for all requests instead of one per context, for comparison.
SpaceOfAnyone(r, query) == IF \E o \in Requests : req[o].pc = "ensure"
                           THEN (CHOOSE o \in Requests : req[o].pc = "ensure") ELSE r
SharedSpace(r, query) == IF SpaceOfAnyone(r, query) = r THEN query ELSE req[SpaceOfAnyone(r, query)].query

\* _space_var.set in the request's own context.
ContextSpace(r, query) == query

\* The space argument of the tool goes before ?space=.
Arrives(r) ==
    /\ req[r].pc = "new"
    /\ \E tool \in {"remember", "recall", "forget", "memory_status"}, query, given \in Spaces, overridden \in BOOLEAN :
         req' = [req EXCEPT ![r] =
                   [pc |-> IF tool \in {"remember", "recall"} THEN "ensure" ELSE "call",
                    tool |-> tool, query |-> query, given |-> given, overridden |-> overridden,
                    space |-> IF overridden THEN given ELSE ContextSpace(r, query), answer |-> "none"]]
    /\ UNCHANGED <<known, created, refusing, stored>>

\* _ensure_space: known, created, there already, refused (any 4xx is taken for
\* "already exists"), or not reached, which leaves it to the next request.
EnsureSpace(r) ==
    LET s == req[r].space IN
    /\ req[r].pc = "ensure"
    /\ req' = [req EXCEPT ![r].pc = "call"]
    /\ \/ s \in known /\ UNCHANGED <<known, created, refusing>>
       \/ s \notin known /\ known' = known \cup {s} /\ created' = created \cup {s} /\ UNCHANGED refusing
       \/ s \notin known /\ known' = known \cup {s} /\ refusing' = refusing \cup {s} /\ UNCHANGED created
       \/ s \notin known /\ UNCHANGED <<known, created, refusing>>
    /\ UNCHANGED stored

\* The vault takes a memory only into a space it has.
Remember(r) ==
    /\ req[r].pc = "call" /\ req[r].tool = "remember"
    /\ \/ /\ req[r].space \in created
          /\ stored' = stored \cup {<<r, req[r].space>>}
          /\ req' = [req EXCEPT ![r].pc = "answered", ![r].answer = "stored"]
       \/ /\ req' = [req EXCEPT ![r].pc = "answered", ![r].answer = "error"]
          /\ UNCHANGED stored
    /\ UNCHANGED <<known, created, refusing>>

\* recall, forget, memory_status (with its second address after a 404).
OtherTool(r) ==
    /\ req[r].pc = "call" /\ req[r].tool # "remember"
    /\ \E answer \in {"hits", "error"} :
         /\ (answer = "hits" /\ req[r].tool = "recall") => req[r].space \in created
         /\ req' = [req EXCEPT ![r].pc = "answered", ![r].answer = answer]
    /\ UNCHANGED <<known, created, refusing, stored>>

Next == \E r \in Requests : Arrives(r) \/ EnsureSpace(r) \/ Remember(r) \/ OtherTool(r)

Spec == Init /\ [][Next]_vars

-------------------------------------------------------------------------------
TypeOK ==
    /\ \A r \in Requests : req[r].pc \in {"new", "ensure", "call", "answered"} /\ req[r].space \in Spaces
    /\ known \subseteq Spaces /\ created \subseteq Spaces

\* A memory answered as stored lies in the space its own request named, though
\* requests for other spaces run at the same time; and a space is only taken
\* for known when it exists or the vault refused to create it
\* (memory-vault-bridge.py:_space, _ensure_space).
StoredWhereAsked ==
    /\ \A r \in Requests :
         req[r].answer = "stored" => <<r, IF req[r].overridden THEN req[r].given ELSE req[r].query>> \in stored
    /\ known \subseteq created \cup refusing
===============================================================================
