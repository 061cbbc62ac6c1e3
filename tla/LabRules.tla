-------------------------------- MODULE LabRules --------------------------------
(***************************************************************************)
(* The arithmetic of the rules layer (rules/network.py, platform.py):      *)
(* subnets, pools, VLANs and capacity of one inventory, judged with closed *)
(* forms and checked here against counting.  The rules run on documents    *)
(* the schema may have refused, so any section may be missing.             *)
(*                                                                         *)
(* An address is a number, its last octet the number modulo Octet.         *)
(***************************************************************************)
EXTENDS Integers, Sequences, FiniteSets, SequencesExt

CONSTANTS
    Inventories,   \* the documents looked at, records of Inventory
    Octet,         \* 256
    StackRam,      \* STACK_RAM_GB
    Overhead,      \* ESX_HOST_RAM_OVERHEAD_GB
    VspMin         \* VSP_POOL_MIN

VARIABLES doc, findings, pc

vars == <<doc, findings, pc>>

Purposes == {"management", "vsan"}
Absent   == [lo |-> 0, hi |-> 0 - 1]
Span     == [lo : Int, hi : Int]
\* A subnet has an address; a pool's ends may be in either order.
Subnet   == {s \in Span : s = Absent \/ s.lo <= s.hi}
\* net: purpose -> span of its subnet, Absent when malformed; tep: the ranges
\* of the TEP pool; ram: what each host declares, 0 for nothing usable.
Inventory ==
    [net : [Purposes -> Subnet], gateway : [Purposes -> Int], vlan : [Purposes -> Nat],
     pool : Span, tep : Seq(Span), vsp : Span, internal : Span, mgmtIp : Seq(Int), ram : Seq(Nat)]

Init == doc \in Inventories /\ findings = {} /\ pc = "judge"

Addresses(s) == s.lo .. s.hi
Given(s)     == s # Absent
Found(code, yes) == IF yes THEN {code} ELSE {}

\* ip_network.overlaps, by the ends of the spans.
Overlaps(a, b) == Given(a) /\ Given(b) /\ a.lo <= b.hi /\ b.lo <= a.hi
Usable == {p \in Purposes : Given(doc.net[p])}

GatewayRules == Found("GATEWAY", \E p \in Usable : doc.gateway[p] \notin Addresses(doc.net[p]))
OverlapRules == Found("OVERLAP", Overlaps(doc.net["management"], doc.net["vsan"]))
VlanRules    == Found("VLAN", Usable = Purposes /\ doc.vlan["management"] = doc.vlan["vsan"])

\* _host_rules: every address inside the management network, no two alike.
HostRules ==
    Found("HOST-OUTSIDE", Given(doc.net["management"])
             /\ \E a \in ToSet(doc.mgmtIp) : a \notin Addresses(doc.net["management"]))
    \cup Found("DUPLICATE-IP", Cardinality(ToSet(doc.mgmtIp)) < Len(doc.mgmtIp))

Hosts == Len(doc.mgmtIp)

\* _count_congruent, and for comparison one that starts a modulus too late.
CongruentLate(low, high, r) ==
    LET first == low + ((r - low) % Octet)
    IN  IF first >= high THEN 0 ELSE ((high - first) \div Octet) + 1
CountCongruent(low, high, r) ==
    LET first == low + ((r - low) % Octet)
    IN  IF first > high THEN 0 ELSE ((high - first) \div Octet) + 1

Size(s) == IF s.hi < s.lo THEN 0 ELSE s.hi - s.lo + 1

\* _usable_pool_size: the Installer ignores addresses ending in 0 and 255.
UsablePoolSize(s) ==
    IF s.hi < s.lo THEN 0
    ELSE Size(s) - CountCongruent(s.lo, s.hi, 0) - CountCongruent(s.lo, s.hi, Octet - 1)

IpPoolRules ==
    IF ~Given(doc.net["vsan"]) THEN {}
    ELSE IF ~Given(doc.pool) THEN {"POOL-MISSING"}
    ELSE Found("POOL-TOO-SMALL", UsablePoolSize(doc.pool) < Hosts)

\* sum(): of a function on 1..n, number by number.
SumsOf(n, f) == LET sum[k \in 0..n] == IF k = 0 THEN 0 ELSE sum[k - 1] + f[k] IN sum
Sum(n, f)    == SumsOf(n, f)[n]

\* _tep_pool_rules: ranges that run backwards count for nothing.
TepSize == Sum(Len(doc.tep), [i \in 1 .. Len(doc.tep) |-> Size(doc.tep[i])])
TepPoolRules == Found("TEP-TOO-SMALL", Hosts > 0 /\ TepSize < 2 * Hosts)

\* _vsp_rules, _same_subnet.
VspRules ==
    Found("VSP-TOO-SMALL", doc.vsp.hi >= doc.vsp.lo /\ doc.vsp.hi - doc.vsp.lo + 1 < VspMin)
    \cup Found("VSP-CROSSES", doc.vsp.hi >= doc.vsp.lo
                 /\ ~\E p \in Usable : {doc.vsp.lo, doc.vsp.hi} \subseteq Addresses(doc.net[p]))
    \cup Found("VSP-CIDR", \E p \in Usable : Overlaps(doc.internal, doc.net[p]))

\* _capacity_rules: with every host, then without the largest.
HostRam(i) == IF doc.ram[i] > Overhead THEN doc.ram[i] - Overhead ELSE 0
Known      == {i \in 1 .. Len(doc.ram) : doc.ram[i] > 0}
RamOf(is)  == Sum(Len(doc.ram), [i \in 1 .. Len(doc.ram) |-> IF i \in is THEN HostRam(i) ELSE 0])
TotalRam   == RamOf(Known)
LargestRam == HostRam(CHOOSE i \in Known : \A j \in Known : HostRam(j) <= HostRam(i))
\* For comparison: the smallest host is the one taken away.
WithoutSmallest == TotalRam - HostRam(CHOOSE i \in Known : \A j \in Known : HostRam(j) >= HostRam(i))
WithoutOne      == TotalRam - LargestRam
CapacityRules ==
    Found("UNKNOWN-HARDWARE", Known # 1 .. Len(doc.ram))
    \cup (IF Known = {} THEN {}
          ELSE IF TotalRam < StackRam THEN {"RAM-SHORTFALL"}
          ELSE Found("N1-SHORTFALL", WithoutOne < StackRam))

Judge ==
    /\ pc = "judge" /\ pc' = "judged"
    /\ findings' = GatewayRules \cup OverlapRules \cup VlanRules \cup HostRules
                   \cup TepPoolRules \cup IpPoolRules \cup VspRules \cup CapacityRules
    /\ UNCHANGED doc

Next == Judge

Spec == Init /\ [][Next]_vars

-------------------------------------------------------------------------------
TypeOK == doc.pool \in [lo : Int, hi : Int] /\ pc \in {"judge", "judged"}

InstallerCounts(s) == {a \in Addresses(s) : a % Octet \notin {0, Octet - 1}}
Disjoint(ss) == \A i, j \in 1 .. Len(ss) : i # j => Addresses(ss[i]) \cap Addresses(ss[j]) = {}

\* What the rules let pass the Installer's own counting lets pass: an address
\* for every host in the pool, two for every host among TEP ranges that do not
\* overlap, networks without a common address, and enough memory after the loss
\* of any one host; and what they refuse does lack it.
RulesCountRight ==
    pc = "judged" =>
        /\ Given(doc.net["vsan"]) /\ Given(doc.pool) =>
              ("POOL-TOO-SMALL" \in findings <=> Cardinality(InstallerCounts(doc.pool)) < Hosts)
        /\ Disjoint(doc.tep) /\ Hosts > 0 =>
              ("TEP-TOO-SMALL" \in findings <=> Cardinality(UNION {Addresses(s) : s \in ToSet(doc.tep)}) < 2 * Hosts)
        /\ "OVERLAP" \in findings <=>
              Addresses(doc.net["management"]) \cap Addresses(doc.net["vsan"]) # {}
        /\ findings \cap {"UNKNOWN-HARDWARE", "RAM-SHORTFALL", "N1-SHORTFALL"} = {} =>
              \A lost \in 1 .. Len(doc.ram) : RamOf(Known \ {lost}) >= StackRam
===============================================================================
