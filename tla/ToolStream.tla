------------------------------- MODULE ToolStream -------------------------------
(***************************************************************************)
(* How tool_loop_stream puts tool calls together: the chat server streams  *)
(* each call in fragments keyed by its index, the transport cuts the bytes *)
(* of those events anywhere, and the router cuts them at blank lines again *)
(* and feeds a ToolCallAccumulator.                                        *)
(*                                                                         *)
(* An event is two symbols, its payload and the blank line; a payload is a *)
(* fragment [index, id, name, part], "" and 0 standing for an absent field.*)
(***************************************************************************)
EXTENDS Integers, Sequences, FiniteSets, SequencesExt

CONSTANTS Calls,     \* how many calls the server makes
          Parts      \* fragments of the arguments of each

VARIABLES wire,      \* symbols the server still has to send
          sentTo,    \* per call, the fragments it has put on the wire
          buf,       \* buf
          acc        \* ToolCallAccumulator.calls: in order of first sight

vars == <<wire, sentTo, buf, acc>>

Blank    == [kind |-> "blank"]
Fragment(i, k) == [kind |-> "delta", index |-> i, part |-> k, head |-> k = 1]

Init ==
    /\ wire = <<>> /\ sentTo = [i \in 1..Calls |-> 0]
    /\ buf = <<>> /\ acc = <<>>

\* llama-server: the first fragment of a call carries its id and name.
ServerSends(i) ==
    /\ sentTo[i] < Parts
    /\ i > 1 => sentTo[i - 1] > 0
    /\ sentTo' = [sentTo EXCEPT ![i] = @ + 1]
    /\ wire' = wire \o <<Fragment(i, sentTo[i] + 1), Blank>>
    /\ UNCHANGED <<buf, acc>>

\* aiter_text: any number of symbols of what is under way.
Receive(n) ==
    /\ n \in 1..Len(wire)
    /\ buf' = buf \o SubSeq(wire, 1, n)
    /\ wire' = SubSeq(wire, n + 1, Len(wire))
    /\ UNCHANGED <<sentTo, acc>>

At(a, i) == SelectInSeq(a, LAMBDA c : c.index = i)

\* feed: a new index opens a call, id and name are set, arguments appended.
Feed(a, d) ==
    LET opened == IF At(a, d.index) # 0 THEN a
                  ELSE Append(a, [index |-> d.index, named |-> FALSE, args |-> <<>>])
        at == At(opened, d.index)
    IN  [opened EXCEPT ![at] = [index |-> d.index, named |-> opened[at].named \/ d.head,
                                args |-> Append(opened[at].args, d.part)]]

BlankAt == SelectInSeq(buf, LAMBDA s : s.kind = "blank")

\* while "\n\n" in buf: one complete event, whose payload is one line.
Event ==
    /\ BlankAt # 0
    /\ acc' = IF BlankAt = 1 THEN acc ELSE Feed(acc, buf[BlankAt - 1])
    /\ buf' = SubSeq(buf, BlankAt + 1, Len(buf))
    /\ UNCHANGED <<wire, sentTo>>

Next ==
    \/ \E i \in 1..Calls : ServerSends(i)
    \/ \E n \in 1..(2 * Calls * Parts) : Receive(n)
    \/ Event

Spec == Init /\ [][Next]_vars

-------------------------------------------------------------------------------
TypeOK ==
    /\ \A i \in DOMAIN acc : acc[i].index \in 1..Calls /\ acc[i].named \in BOOLEAN
    /\ \A i \in 1..Calls : sentTo[i] \in 0..Parts

\* However the bytes were cut and the calls interleaved, once everything has
\* arrived finalize() returns the calls the server made: each once, in order,
\* named, with its arguments whole and in order.
CallsReassembled ==
    (wire = <<>> /\ buf = <<>>) =>
        /\ Len(acc) = Cardinality({i \in 1..Calls : sentTo[i] > 0})
        /\ \A i \in DOMAIN acc :
             acc[i] = [index |-> i, named |-> TRUE, args |-> [k \in 1..sentTo[i] |-> k]]
===============================================================================
