-------------------------------- MODULE WebFetch --------------------------------
(***************************************************************************)
(* The web_fetch tool (web_fetch_guard.py): a GET whose redirects are      *)
(* followed by hand, so that every hop is checked, resolved and pinned to  *)
(* the address that was checked.  DNS may answer differently every time    *)
(* and a server may redirect anywhere.                                     *)
(***************************************************************************)
EXTENDS Integers, FiniteSets

CONSTANTS
    Hosts, Denied,        \* host names; DENY_HOSTS
    Addresses, Private,   \* addresses; those _is_public refuses
    MaxRedirects,         \* MAX_REDIRECTS
    MaxBytes,             \* WEB_FETCH_MAX_SIZE_BYTES, in chunks
    NoAddress

VARIABLES
    pc, host,     \* the hop under way
    hops,         \* requests made
    pinned,       \* the address the request of this hop connects to
    contacted,    \* every address a connection was opened to
    body,         \* chunks kept
    truncated, result

vars == <<pc, host, hops, pinned, contacted, body, truncated, result>>

Init ==
    /\ pc = "check" /\ host \in Hosts /\ hops = 0 /\ pinned = NoAddress
    /\ contacted = {} /\ body = 0 /\ truncated = FALSE /\ result = "none"

Return(r) == pc' = "done" /\ result' = r

\* check_target: the name is looked up once and every address must be public.
Vetted(addrs) == host \notin Denied /\ addrs # {} /\ addrs \cap Private = {}

Check(addrs) ==
    /\ pc = "check" /\ hops <= MaxRedirects
    /\ IF Vetted(addrs)
       THEN /\ pinned' \in addrs /\ pc' = "send" /\ UNCHANGED result
       ELSE /\ Return("refused") /\ UNCHANGED pinned
    /\ UNCHANGED <<host, hops, contacted, body, truncated>>

\* Resolving the name again for the connection, for comparison.
ConnectsByName(to) == to \in Addresses

\* _pinned: the connection goes to the address that was checked.
Connects(to) == to = pinned

Send(to) ==
    /\ pc = "send" /\ Connects(to)
    /\ contacted' = contacted \cup {to}
    /\ hops' = hops + 1 /\ pc' = "response"
    /\ UNCHANGED <<host, pinned, body, truncated, result>>

\* 301, 302, 303, 307, 308 with a Location: back to the check.
Redirect(h) ==
    /\ pc = "response" /\ body = 0
    /\ host' = h /\ pc' = "check"
    /\ UNCHANGED <<hops, pinned, contacted, body, truncated, result>>

TooManyRedirects ==
    /\ pc = "check" /\ hops > MaxRedirects
    /\ Return("too_many_redirects")
    /\ UNCHANGED <<host, hops, pinned, contacted, body, truncated>>

\* One chunk of the raw body; reading stops one byte past the cap.
Chunk ==
    /\ pc = "response" /\ ~truncated
    /\ truncated' = (body = MaxBytes)
    /\ body' = IF body = MaxBytes THEN body ELSE body + 1
    /\ UNCHANGED <<pc, host, hops, pinned, contacted, result>>

BodyEnds ==
    /\ pc = "response"
    /\ Return("fetched")
    /\ UNCHANGED <<host, hops, pinned, contacted, body, truncated>>

\* A compressed answer, a transport error, the deadline over the whole fetch.
GivesUp ==
    /\ pc # "done"
    /\ Return("error")
    /\ UNCHANGED <<host, hops, pinned, contacted, body, truncated>>

Next ==
    \/ \E addrs \in SUBSET Addresses : Check(addrs)
    \/ \E to \in Addresses : Send(to)
    \/ \E h \in Hosts : Redirect(h)
    \/ TooManyRedirects \/ Chunk \/ BodyEnds \/ GivesUp

Spec == Init /\ [][Next]_vars

-------------------------------------------------------------------------------
TypeOK ==
    /\ pc \in {"check", "send", "response", "done"} /\ host \in Hosts
    /\ hops \in 0..(MaxRedirects + 1) /\ pinned \in Addresses \cup {NoAddress}
    /\ contacted \subseteq Addresses /\ truncated \in BOOLEAN
    /\ result \in {"none", "refused", "too_many_redirects", "fetched", "error"}

\* Every connection of every hop went to an address that was checked public,
\* and what is returned is bounded.
FetchStaysPublic == contacted \cap Private = {} /\ body <= MaxBytes /\ (pc = "send" => host \notin Denied)
===============================================================================
