--------------------------------- MODULE MCLab ---------------------------------
(***************************************************************************)
(* Instances of Lab for TLC.                                               *)
(***************************************************************************)
EXTENDS Lab


\* Host entries: the identifiers and files an entry may lack are varied around
\* a complete one, the tier's size on both sides of the 400 percent.
AnyEntry ==
    [mac : BOOLEAN, boot : {"d1", "none", "unstable"}, vsan : {"d1", "d2", "none"},
     tier : {"none", "runtime_name", "d1", "d3"}, tierGb : {0, 8, 9}, ramGb : {2},
     claimed : BOOLEAN, vmfs : {"overwrite", "preserve", "other"},
     root : {"none", "hash", "password"}, key : {"none", "public", "private"}, iso : BOOLEAN]
Entries ==
    {e \in AnyEntry :
        /\ ~e.mac => e.iso /\ e.boot = "d1" /\ e.key = "none" /\ e.root = "hash"
        /\ e.root # "hash" => e.boot = "d1" /\ e.iso
        /\ e.boot # "d1" => e.iso /\ e.key = "none"}

PlacesOfADocument == {<<>>, <<"networks", "vsan">>, <<"networks", "vsanWitness">>}

DocumentLeaves == <<"credentials/esxRoot", "nsx/password", "nsx/vip">>
KindOfLeaf == [p \in {"credentials/esxRoot", "nsx/password", "nsx/vip"} |->
                CASE p = "credentials/esxRoot" -> "credentials" [] p = "nsx/password" -> "named" [] OTHER -> "plain"]
Item(n, ip) == [name |-> n, ip |-> ip]
ListsOfHosts ==
    {<<>>, <<Item("esx01", "ip1")>>, <<Item("esx01", "ip1"), Item("esx02", "ip1")>>,
     <<Item("esx02", "ip1"), Item("esx01", "ip1")>>, <<Item("esx01", "ip2"), Item("esx02", "ip1")>>}

HostTargets ==
    [kind : {"host"}, name : {"own", "foreign", "unusable"}, ip : {"declared", "outside"}]
ApplianceTargets == [kind : {"appliance"}, name : {"own", "foreign"}, ptr : BOOLEAN]
ListsOfTargets ==
    {<<>>} \cup {<<h>> : h \in HostTargets} \cup {<<a>> : a \in ApplianceTargets}
    \cup {<<h, a>> : h \in HostTargets, a \in ApplianceTargets}

S(a, b) == [lo |-> a, hi |-> b]
NoSpan  == S(0, 0 - 1)
Base ==
    [net |-> [management |-> S(0, 7), vsan |-> S(8, 15)],
     gateway |-> [management |-> 1, vsan |-> 9], vlan |-> [management |-> 1, vsan |-> 2],
     pool |-> S(9, 11), tep |-> <<S(16, 19)>>, vsp |-> S(2, 5), internal |-> S(24, 27),
     mgmtIp |-> <<2, 3>>, ram |-> <<6, 6>>]
Subnets == {S(0, 3), S(0, 7), S(4, 7), S(0, 15), S(8, 11), S(8, 15), NoSpan}
Inventories ==
    {[Base EXCEPT !.pool = S(a, b), !.mgmtIp = SubSeq(<<1, 2, 3, 4>>, 1, n)] : a \in 7..17, b \in 6..18, n \in 0..4}
    \cup {[Base EXCEPT !.pool = NoSpan]}
    \cup {[Base EXCEPT !.tep = <<S(16, a), S(b, b + 1)>>, !.mgmtIp = SubSeq(<<1, 2, 3>>, 1, n)] :
             a \in 15..18, b \in 17..20, n \in 0..3}
    \cup {[Base EXCEPT !.net = [management |-> s, vsan |-> t], !.internal = u, !.vlan["vsan"] = v] :
             s \in Subnets, t \in Subnets, u \in {S(24, 27), S(4, 7)}, v \in 1..2}
    \cup {[Base EXCEPT !.ram = <<a, b, c>>] : a \in 0..6, b \in 0..6, c \in {0, 3, 6}}
    \cup {[Base EXCEPT !.mgmtIp = <<a, b>>, !.vsp = S(c, c + d)] : a \in 6..8, b \in 6..8, c \in {4, 6, 9}, d \in {0 - 1, 1, 3}}

Contents   == {"good", "wrong", "short", "absent"}
DepotFiles == <<"ova", "pak">>
Two(a, b) == [f \in {"ova", "pak"} |-> IF f = "ova" THEN a ELSE b]
DepotStarts ==
    {[served |-> Two(a, c), staged |-> Two(b, "good"), knows |-> Two(k, "both")] :
        a \in Contents, b \in Contents, c \in {"absent", "good"}, k \in {"both", "no_size", "no_checksum"}}

===============================================================================
