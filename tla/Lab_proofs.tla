----------------------------- MODULE Lab_proofs -------------------------------
(***************************************************************************)
(* Theorems about the lab's tools, for any inventories, documents, hosts,  *)
(* targets, files and sizes.  LabInv has one inductive invariant per part: *)
(*                                                                         *)
(*   HostInv   what the commands of %firstboot that are no longer to be    *)
(*             run have done; their order in the script is what makes      *)
(*             maintenance mode and the certificate come out right.        *)
(*   ProbeInv  what is asked and touched was permitted, and a host without *)
(*             a finding has been looked up and touched both ways.         *)
(*   DepotInv  a row of the survey speaks of the file as it was looked at. *)
(*   SvcInv    a layer that left no finding has run or is named as skipped.*)
(*   DiffInv   the leaves before `place` are compared; a list's items are  *)
(*             matched by name, the last of a name for all of that name.   *)
(*   RuleInv   the rules' findings are those of the document in hand.      *)
(*                                                                         *)
(* The rules' arithmetic is the longest part: Least and Induction give the *)
(* least number with a property, from it that quotients are unique, that   *)
(* the closed form counts the addresses it stands for (CountCounts), and   *)
(* that the recursive sum exists for any finite set (SumsExist) and grows  *)
(* by what is added to the set (SumFacts, SumWithout).                     *)
(***************************************************************************)
EXTENDS Lab, SequenceTheorems, FiniteSetTheorems, WellFoundedInduction, TLAPS

-----------------------------------------------------------------------------
(* The host.                                                               *)

Confs == [maint : BOOLEAN, ssh : BOOLEAN, sshPolicy : BOOLEAN, ntpPolicy : BOOLEAN, key : BOOLEAN,
          label : {"datastore1", "kept", "host_local"}, tier : BOOLEAN, fqdn : BOOLEAN,
          certStored : {"localhost", "fqdn"}, certServed : {"localhost", "fqdn"}]
Cmds == {"wait_hostd", "maint_on", "services", "rename", "key", "tier", "fqdn_cert", "maint_off", "reboot"}
\* The place of a command in %firstboot.
Rank(c) == CASE c = "wait_hostd" -> 1 [] c = "maint_on" -> 2 [] c = "services" -> 3
             [] c = "rename" -> 4 [] c = "key" -> 5 [] c = "tier" -> 6
             [] c = "fqdn_cert" -> 7 [] c = "maint_off" -> 8 [] c = "reboot" -> 9 [] OTHER -> 0
InOrder(t) == \A m, n \in 1 .. Len(t) : m < n => Rank(t[m]) < Rank(t[n])
In(c, t)   == \E n \in 1 .. Len(t) : t[n] = c

\* What the two files say of a host none of whose refusals applies.
Written == [ks |-> TRUE, boot |-> inv.iso, disk |-> inv.boot, install |-> Host!InstallOptions(inv),
            key |-> inv.key = "public", tier |-> inv.tierGb > 0 /\ Host!TieringFindings(inv) = {}]
Safe    == ~Host!Insecure(inv) /\ ~Host!Withheld(inv)

Configured ==
    /\ conf.sshPolicy /\ conf.ntpPolicy /\ conf.fqdn /\ conf.certStored = "fqdn" /\ ~conf.maint
    /\ conf.label # "datastore1" /\ (files.tier => conf.tier)

\* What the commands that are no longer to be run have done.
EffectsSoFar ==
    /\ ~In("wait_hostd", todo) => hostd
    /\ ~In("maint_on", todo) /\ In("maint_off", todo) => conf.maint
    /\ ~In("maint_off", todo) => ~In("maint_on", todo) /\ ~conf.maint
    /\ ~In("services", todo) => conf.sshPolicy /\ conf.ntpPolicy
    /\ ~In("rename", todo) => conf.label # "datastore1"
    /\ ~In("tier", todo) /\ files.tier => conf.tier
    /\ In("tier", todo) => files.tier /\ In("maint_off", todo)
    /\ ~In("fqdn_cert", todo) => conf.fqdn /\ conf.certStored = "fqdn"
    /\ In("reboot", todo)
FirstbootRuns ==
    /\ todo \in Seq(Cmds) /\ InOrder(todo) /\ EffectsSoFar

\* At power-on the boot disk is empty and the network installs it, or the
\* installer has just been, or %firstboot has done all its work.
AtPowerOn ==
    \/ todo = <<>> /\ ~Host!HasEsx /\ directory
    \/ /\ todo = <<"first">> /\ Host!HasEsx /\ ~conf.maint
       /\ inv.vmfs = "preserve" => conf.label # "datastore1"
    \/ todo = <<>> /\ Host!HasEsx /\ ~directory /\ Configured

HostInv ==
    /\ Host!TypeOK /\ conf \in Confs
    /\ files = Host!NoFiles \/ (files = Written /\ Safe)
    /\ phase \notin {"unrendered", "rendered"} => files = Written /\ Safe /\ files.boot
    /\ phase = "unrendered" => files = Host!NoFiles
    /\ phase = "rendered" /\ files = Host!NoFiles => ~Safe
    /\ phase \in {"unrendered", "rendered"} => ~directory /\ todo = <<>> /\ ~Host!HasEsx
    /\ Host!DisksInTheirRoles
    /\ phase = "firmware" => AtPowerOn
    /\ phase = "firstboot" => ~directory /\ Host!HasEsx /\ FirstbootRuns
    /\ phase = "ready" => Configured /\ conf.certServed = "fqdn" /\ conf.ssh

LEMMA JoinedInOrder ==
    ASSUME NEW s \in Seq(Cmds), NEW t \in Seq(Cmds), InOrder(s), InOrder(t),
           \A m \in 1 .. Len(s), n \in 1 .. Len(t) : Rank(s[m]) < Rank(t[n])
    PROVE  /\ s \o t \in Seq(Cmds) /\ InOrder(s \o t)
           /\ \A c : In(c, s \o t) <=> In(c, s) \/ In(c, t)
<1> DEFINE j == s \o t
<1>1. /\ j \in Seq(Cmds) /\ Len(j) = Len(s) + Len(t)
      /\ \A n \in 1 .. Len(s) : j[n] = s[n]
      /\ \A n \in Len(s) + 1 .. Len(j) : n - Len(s) \in 1 .. Len(t) /\ j[n] = t[n - Len(s)]
      /\ Len(s) \in Nat /\ Len(t) \in Nat
  OBVIOUS
<1> HIDE DEF j
<1>2. ASSUME NEW m \in 1 .. Len(j), NEW n \in 1 .. Len(j), m < n
      PROVE  Rank(j[m]) < Rank(j[n])
  <2>1. CASE n <= Len(s)
    <3>1. m \in 1 .. Len(s) /\ n \in 1 .. Len(s)
      BY <1>1, <1>2, <2>1
    <3> QED BY <1>1, <1>2, <3>1 DEF InOrder
  <2>2. CASE m > Len(s)
    <3>1. /\ m \in Len(s) + 1 .. Len(j) /\ n \in Len(s) + 1 .. Len(j)
          /\ m - Len(s) < n - Len(s)
      BY <1>1, <1>2, <2>2
    <3> QED BY <1>1, <3>1 DEF InOrder
  <2>3. CASE m <= Len(s) /\ n > Len(s)
    <3>1. m \in 1 .. Len(s) /\ n \in Len(s) + 1 .. Len(j)
      BY <1>1, <2>3
    <3> QED BY <1>1, <3>1
  <2> QED BY <2>1, <2>2, <2>3, <1>1
<1>3. ASSUME NEW c PROVE In(c, j) <=> In(c, s) \/ In(c, t)
  <2>1. ASSUME In(c, s) PROVE In(c, j)
    BY <2>1, <1>1 DEF In
  <2>2. ASSUME In(c, t) PROVE In(c, j)
    <3>1. PICK n \in 1 .. Len(t) : t[n] = c
      BY <2>2 DEF In
    <3>2. n + Len(s) \in Len(s) + 1 .. Len(j) /\ n + Len(s) \in 1 .. Len(j) /\ n + Len(s) - Len(s) = n
      BY <1>1
    <3> QED BY <3>1, <3>2, <1>1 DEF In
  <2>3. ASSUME In(c, j) PROVE In(c, s) \/ In(c, t)
    <3>1. PICK n \in 1 .. Len(j) : j[n] = c
      BY <2>3 DEF In
    <3>2. CASE n <= Len(s)
      BY <3>1, <3>2, <1>1 DEF In
    <3>3. CASE n > Len(s)
      <4>1. n \in Len(s) + 1 .. Len(j)
        BY <1>1, <3>3
      <4> QED BY <4>1, <3>1, <1>1 DEF In
    <3> QED BY <3>2, <3>3, <1>1
  <2> QED BY <2>1, <2>2, <2>3
<1> QED BY <1>1, <1>2, <1>3 DEF InOrder, j

\* A command that an option asks for, alone or not at all.
LEMMA OptionInOrder ==
    ASSUME NEW c \in Cmds, NEW asked \in BOOLEAN
    PROVE  LET s == IF asked THEN <<>> ELSE <<c>> IN
           s \in Seq(Cmds) /\ InOrder(s) /\ \A d : In(d, s) <=> d = c /\ ~asked
<1>1. /\ <<c>> \in Seq(Cmds) /\ Len(<<c>>) = 1 /\ <<c>>[1] = c
      /\ <<>> \in Seq(Cmds) /\ Len(<<>>) = 0
  OBVIOUS
<1>2. CASE asked
  BY <1>1, <1>2 DEF InOrder, In
<1>3. CASE ~asked
  <2> DEFINE s == <<c>>
  <2>1. s \in Seq(Cmds) /\ Len(s) = 1 /\ s[1] = c
    BY <1>1
  <2> HIDE DEF s
  <2>2. InOrder(s) /\ \A d : In(d, s) <=> d = c
    BY <2>1 DEF InOrder, In
  <2> QED BY <2>1, <2>2, <1>3 DEF s
<1> QED BY <1>2, <1>3

\* %firstboot's commands are in order, each there when the options ask for it.
LEMMA CommandsInOrder ==
    ASSUME NEW f, f.install.preserve \in BOOLEAN, f.key \in BOOLEAN, f.tier \in BOOLEAN
    PROVE  /\ Host!Commands(f) \in Seq(Cmds) /\ InOrder(Host!Commands(f))
           /\ \A c \in {"wait_hostd", "maint_on", "services", "fqdn_cert", "maint_off", "reboot"} :
                 In(c, Host!Commands(f))
           /\ In("rename", Host!Commands(f)) <=> ~f.install.preserve
           /\ In("tier", Host!Commands(f)) <=> f.tier
<1> DEFINE a == <<"wait_hostd", "maint_on", "services">>
           b == IF f.install.preserve THEN <<>> ELSE <<"rename">>
           k == IF ~f.key THEN <<>> ELSE <<"key">>
           t == IF ~f.tier THEN <<>> ELSE <<"tier">>
           e == <<"fqdn_cert", "maint_off", "reboot">>
<1>1. /\ Len(a) = 3 /\ a[1] = "wait_hostd" /\ a[2] = "maint_on" /\ a[3] = "services" /\ a \in Seq(Cmds)
      /\ Len(e) = 3 /\ e[1] = "fqdn_cert" /\ e[2] = "maint_off" /\ e[3] = "reboot" /\ e \in Seq(Cmds)
  BY DEF Cmds
<1>2. b \in Seq(Cmds) /\ InOrder(b) /\ \A c : In(c, b) <=> c = "rename" /\ ~f.install.preserve
  BY OptionInOrder DEF Cmds
<1>3. k \in Seq(Cmds) /\ InOrder(k) /\ \A c : In(c, k) <=> c = "key" /\ f.key
  BY OptionInOrder DEF Cmds
<1>4. t \in Seq(Cmds) /\ InOrder(t) /\ \A c : In(c, t) <=> c = "tier" /\ f.tier
  BY OptionInOrder DEF Cmds
<1>5. /\ Rank("wait_hostd") = 1 /\ Rank("maint_on") = 2 /\ Rank("services") = 3
      /\ Rank("rename") = 4 /\ Rank("key") = 5 /\ Rank("tier") = 6
      /\ Rank("fqdn_cert") = 7 /\ Rank("maint_off") = 8 /\ Rank("reboot") = 9
  BY DEF Rank
<1>6. Host!Commands(f) = (((a \o b) \o k) \o t) \o e
  BY DEF Host!Commands
<1> HIDE DEF a, b, k, t, e
<1>7. InOrder(a) /\ InOrder(e)
  BY <1>1, <1>5 DEF InOrder
<1>8. /\ \A c : In(c, a) <=> c \in {"wait_hostd", "maint_on", "services"}
      /\ \A c : In(c, e) <=> c \in {"fqdn_cert", "maint_off", "reboot"}
  BY <1>1 DEF In
<1> DEFINE ab == a \o b  abk == ab \o k  abkt == abk \o t  all == abkt \o e
<1> HIDE DEF ab, abk, abkt, all
<1>9. ab \in Seq(Cmds) /\ InOrder(ab) /\ \A c : In(c, ab) <=> In(c, a) \/ In(c, b)
  <2>1. \A m \in 1 .. Len(a), n \in 1 .. Len(b) : Rank(a[m]) < Rank(b[n])
    <3> TAKE m \in 1 .. Len(a), n \in 1 .. Len(b)
    <3>1. In(a[m], a) /\ In(b[n], b)
      BY DEF In
    <3>2. a[m] \in {"wait_hostd", "maint_on", "services"} /\ b[n] = "rename"
      BY <3>1, <1>8, <1>2
    <3> QED BY <3>2, <1>5
  <2> QED BY <2>1, <1>1, <1>2, <1>7, JoinedInOrder DEF ab
<1>10. abk \in Seq(Cmds) /\ InOrder(abk) /\ \A c : In(c, abk) <=> In(c, ab) \/ In(c, k)
  <2>1. \A m \in 1 .. Len(ab), n \in 1 .. Len(k) : Rank(ab[m]) < Rank(k[n])
    <3> TAKE m \in 1 .. Len(ab), n \in 1 .. Len(k)
    <3>1. In(ab[m], ab) /\ In(k[n], k)
      BY DEF In
    <3>2. ab[m] \in {"wait_hostd", "maint_on", "services", "rename"} /\ k[n] = "key"
      BY <3>1, <1>9, <1>8, <1>2, <1>3
    <3> QED BY <3>2, <1>5
  <2> QED BY <2>1, <1>9, <1>3, JoinedInOrder DEF abk
<1>11. abkt \in Seq(Cmds) /\ InOrder(abkt) /\ \A c : In(c, abkt) <=> In(c, abk) \/ In(c, t)
  <2>1. \A m \in 1 .. Len(abk), n \in 1 .. Len(t) : Rank(abk[m]) < Rank(t[n])
    <3> TAKE m \in 1 .. Len(abk), n \in 1 .. Len(t)
    <3>1. In(abk[m], abk) /\ In(t[n], t)
      BY DEF In
    <3>2. abk[m] \in {"wait_hostd", "maint_on", "services", "rename", "key"} /\ t[n] = "tier"
      BY <3>1, <1>10, <1>9, <1>8, <1>2, <1>3, <1>4
    <3> QED BY <3>2, <1>5
  <2> QED BY <2>1, <1>10, <1>4, JoinedInOrder DEF abkt
<1>12. all \in Seq(Cmds) /\ InOrder(all) /\ \A c : In(c, all) <=> In(c, abkt) \/ In(c, e)
  <2>1. \A m \in 1 .. Len(abkt), n \in 1 .. Len(e) : Rank(abkt[m]) < Rank(e[n])
    <3> TAKE m \in 1 .. Len(abkt), n \in 1 .. Len(e)
    <3>1. In(abkt[m], abkt)
      BY DEF In
    <3>2. In(e[n], e)
      BY DEF In
    <3>3. /\ abkt[m] \in {"wait_hostd", "maint_on", "services", "rename", "key", "tier"}
          /\ e[n] \in {"fqdn_cert", "maint_off", "reboot"}
      BY <3>1, <3>2, <1>11, <1>10, <1>9, <1>8, <1>2, <1>3, <1>4
    <3> QED BY <3>3, <1>5
  <2> QED BY <2>1, <1>11, <1>1, <1>7, JoinedInOrder DEF all
<1>13. all = Host!Commands(f)
  BY <1>6 DEF all, abkt, abk, ab
<1>14. \A c : In(c, all) <=> In(c, a) \/ In(c, b) \/ In(c, k) \/ In(c, t) \/ In(c, e)
  BY <1>9, <1>10, <1>11, <1>12
<1>15. /\ \A c \in {"wait_hostd", "maint_on", "services", "fqdn_cert", "maint_off", "reboot"} : In(c, all)
       /\ In("rename", all) <=> ~f.install.preserve
       /\ In("tier", all) <=> f.tier
  <2>1. \A c \in {"wait_hostd", "maint_on", "services"} : In(c, all)
    BY <1>14, <1>8
  <2>2. \A c \in {"fqdn_cert", "maint_off", "reboot"} : In(c, all)
    BY <1>14, <1>8
  <2>3. In("rename", all) <=> ~f.install.preserve
    <3>1. ~In("rename", a) /\ ~In("rename", k) /\ ~In("rename", t) /\ ~In("rename", e)
      BY <1>8, <1>3, <1>4
    <3> QED BY <1>14, <1>2, <3>1
  <2>4. In("tier", all) <=> f.tier
    <3>1. ~In("tier", a) /\ ~In("tier", b) /\ ~In("tier", k) /\ ~In("tier", e)
      BY <1>8, <1>2, <1>3
    <3> QED BY <1>14, <1>4, <3>1
  <2> QED BY <2>1, <2>2, <2>3, <2>4
<1> QED BY <1>12, <1>13, <1>15

\* A command leaves the list when it is run; those after it stay.
LEMMA RestInOrder ==
    ASSUME NEW t \in Seq(Cmds), InOrder(t), t # <<>>
    PROVE  /\ Tail(t) \in Seq(Cmds) /\ InOrder(Tail(t)) /\ In(Head(t), t)
           /\ \A c : In(c, Tail(t)) <=> In(c, t) /\ c # Head(t)
           /\ \A c : In(c, Tail(t)) => Rank(Head(t)) < Rank(c)
<1>1. /\ Tail(t) \in Seq(Cmds) /\ Len(t) \in Nat \ {0} /\ Len(Tail(t)) = Len(t) - 1 /\ Head(t) = t[1]
      /\ \A n \in 1 .. Len(Tail(t)) : n + 1 \in 1 .. Len(t) /\ Tail(t)[n] = t[n + 1]
  OBVIOUS
<1>2. InOrder(Tail(t))
  <2> SUFFICES ASSUME NEW m \in 1 .. Len(Tail(t)), NEW n \in 1 .. Len(Tail(t)), m < n
               PROVE  Rank(Tail(t)[m]) < Rank(Tail(t)[n])
    BY DEF InOrder
  <2>1. m + 1 \in 1 .. Len(t) /\ n + 1 \in 1 .. Len(t) /\ m + 1 < n + 1
    BY <1>1
  <2> QED BY <2>1, <1>1 DEF InOrder
<1>3. \A c : In(c, Tail(t)) => Rank(Head(t)) < Rank(c)
  <2> TAKE c
  <2> HAVE In(c, Tail(t))
  <2>1. PICK n \in 1 .. Len(Tail(t)) : Tail(t)[n] = c
    BY DEF In
  <2>2. n + 1 \in 1 .. Len(t) /\ 1 \in 1 .. Len(t) /\ 1 < n + 1 /\ t[n + 1] = c
    BY <2>1, <1>1
  <2> QED BY <2>2, <1>1 DEF InOrder
<1>4. \A c : Rank(c) \in Nat
  BY DEF Rank
<1>5. \A c : In(c, t) <=> In(c, Tail(t)) \/ c = Head(t)
  <2> TAKE c
  <2>1. ASSUME In(c, t), c # Head(t) PROVE In(c, Tail(t))
    <3>1. PICK n \in 1 .. Len(t) : t[n] = c
      BY <2>1 DEF In
    <3>2. n - 1 \in 1 .. Len(Tail(t)) /\ (n - 1) + 1 = n
      BY <3>1, <2>1, <1>1
    <3>3. Tail(t)[n - 1] = c
      BY <3>1, <3>2, <1>1
    <3> QED BY <3>2, <3>3 DEF In
  <2>2. ASSUME In(c, Tail(t)) PROVE In(c, t)
    BY <2>2, <1>1 DEF In
  <2>3. In(Head(t), t)
    BY <1>1 DEF In
  <2> QED BY <2>1, <2>2, <2>3
<1>6. \A c : In(c, Tail(t)) => c # Head(t)
  BY <1>3, <1>4
<1> QED BY <1>1, <1>2, <1>3, <1>5, <1>6

LEMMA HostInit == Host!Init => HostInv
<1> SUFFICES ASSUME Host!Init PROVE HostInv
  OBVIOUS
<1>1. Host!TypeOK /\ ~Host!HasEsx
  <2>1. PICK c \in {"blank", "vmfs", "vsan"} : disks = [d1 |-> c, d2 |-> "blank", d3 |-> "blank"]
    BY DEF Host!Init
  <2>2. disks \in [Host!Devices -> Host!Content] /\ ~Host!HasEsx
    BY <2>1 DEF Host!Devices, Host!Content, Host!HasEsx
  <2> QED BY <2>2, LabAssumption DEF Host!Init, Host!TypeOK
<1>2. conf \in Confs
  BY DEF Host!Init, Host!Fresh, Confs
<1>3. Host!DisksInTheirRoles
  BY DEF Host!Init, Host!DisksInTheirRoles, Host!Devices
<1> QED
  BY <1>1, <1>2, <1>3 DEF Host!Init, HostInv

\* What the files say, once there are files.
LEMMA FilesSay ==
    ASSUME HostInv, files = Written, Safe
    PROVE  /\ files.disk = inv.boot /\ inv.boot \in Host!Devices
           /\ files.install.preserve = (inv.vmfs = "preserve") /\ files.install.paranoid = (inv.vmfs = "preserve")
           /\ files.key \in BOOLEAN /\ files.tier \in BOOLEAN
           /\ files.tier = (inv.tierGb > 0 /\ Host!TieringFindings(inv) = {})
           /\ files.tier => inv.tier \in Host!Devices /\ inv.tier # inv.boot /\ inv.tier # inv.vsan
           /\ files # Host!NoFiles
<1>1. inv \in Host!HostEntry
  BY DEF HostInv, Host!TypeOK
<1>2. inv.boot \in Host!Devices
  BY <1>1 DEF Safe, Host!Withheld, Host!BootDiskUnsafe, Host!HostEntry
<1>3. /\ files.disk = inv.boot /\ files.key = (inv.key = "public")
      /\ files.install = Host!InstallOptions(inv) /\ files.ks
      /\ files.tier = (inv.tierGb > 0 /\ Host!TieringFindings(inv) = {})
  BY DEF Written
<1>4. /\ files.install.preserve = (inv.vmfs = "preserve") /\ files.install.paranoid = (inv.vmfs = "preserve")
  BY <1>3 DEF Host!InstallOptions
<1>5. ASSUME files.tier PROVE inv.tier \in Host!Devices /\ inv.tier # inv.boot /\ inv.tier # inv.vsan
  <2>1. inv.tierGb > 0 /\ Host!TieringFindings(inv) = {} /\ inv.tierGb \in Nat
    BY <1>3, <1>5, <1>1 DEF Host!HostEntry
  <2>2. inv.tier \notin {"none", "runtime_name"}
    BY <2>1 DEF Host!TieringFindings
  <2>3. inv.tier \in Host!Devices
    BY <2>2, <1>1 DEF Host!HostEntry
  <2>4. ~Host!Collides(inv)
    BY DEF Safe, Host!Withheld
  <2>5. /\ Host!Roles(inv)[1] = inv.boot /\ Host!Roles(inv)[2] = inv.vsan /\ Host!Roles(inv)[3] = inv.tier
        /\ 1 \in 1..3 /\ 2 \in 1..3 /\ 3 \in 1..3 /\ 1 < 3 /\ 2 < 3
    BY DEF Host!Roles
  <2>6. inv.tier # inv.boot /\ inv.tier # inv.vsan
    BY <2>2, <2>4, <2>5 DEF Host!Collides
  <2> QED BY <2>3, <2>6
<1>6. files.tier \in BOOLEAN /\ files.key \in BOOLEAN
  BY <1>3
<1>7. files # Host!NoFiles
  BY <1>3 DEF Host!NoFiles
<1> QED
  BY <1>2, <1>3, <1>4, <1>5, <1>6, <1>7

LEMMA RenderStep == ASSUME HostInv, Host!Render PROVE HostInv'
<1>1. files' = Host!NoFiles \/ (files' = Written' /\ Safe')
  BY DEF Host!Render, Written, Safe
<1>2. files' = Host!NoFiles => ~Safe'
  <2>1. Safe => files' # Host!NoFiles
    BY DEF Host!Render, Host!NoFiles, Safe
  <2> QED BY <2>1 DEF Host!Render, Safe
<1>3. /\ Host!TypeOK' /\ (conf \in Confs)' /\ Host!DisksInTheirRoles' /\ ~directory' /\ phase' = "rendered"
      /\ todo' = <<>> /\ ~Host!HasEsx'
  BY DEF Host!Render, HostInv, Host!TypeOK, Host!DisksInTheirRoles, Host!HasEsx
<1> QED
  BY <1>1, <1>2, <1>3 DEF HostInv

LEMMA PublishStep == ASSUME HostInv, Host!Publish PROVE HostInv'
<1>1. files = Written /\ Safe
  BY DEF HostInv, Host!Publish, Host!NoFiles
<1>2. files' = Written' /\ Safe' /\ files'.boot
  BY <1>1 DEF Host!Publish, Written, Safe
<1>3. AtPowerOn'
  BY DEF HostInv, Host!Publish, AtPowerOn, Host!HasEsx
<1>4. Host!TypeOK' /\ Host!DisksInTheirRoles' /\ phase' = "firmware" /\ (conf \in Confs)'
  BY DEF HostInv, Host!Publish, Host!TypeOK, Host!DisksInTheirRoles
<1> QED
  BY <1>2, <1>3, <1>4 DEF HostInv

\* Past the publication the files stay; a step is described by what it leaves
\* of the rest.
LEMMA PublishedStays ==
    ASSUME HostInv, UNCHANGED <<inv, secureBoot, files>>, phase \notin {"unrendered", "rendered"},
           phase' \in {"firmware", "installing", "aborted", "firstboot", "unconfigured", "ready"},
           directory' \in BOOLEAN, hostd' \in BOOLEAN, disks' \in [Host!Devices -> Host!Content],
           conf' \in Confs, Host!DisksInTheirRoles',
           phase' = "firmware" => AtPowerOn',
           phase' = "firstboot" => ~directory' /\ Host!HasEsx' /\ FirstbootRuns',
           phase' = "ready" => Configured' /\ conf'.certServed = "fqdn" /\ conf'.ssh
    PROVE  HostInv'
<1>1. files = Written /\ Safe /\ files.boot
  BY DEF HostInv
<1>2. files' = Written' /\ Safe' /\ files'.boot
  BY <1>1 DEF Written, Safe
<1>3. Host!TypeOK'
  BY DEF HostInv, Host!TypeOK
<1> QED
  BY <1>2, <1>3 DEF HostInv

LEMMA RemoveDirectoryStep == ASSUME HostInv, Host!RemoveDirectory PROVE HostInv'
<1>1. phase \notin {"unrendered", "rendered"} /\ directory
  BY DEF HostInv, Host!RemoveDirectory
<1>2. phase' = "firmware" => AtPowerOn'
  <2> SUFFICES ASSUME phase = "firmware" PROVE AtPowerOn'
    BY DEF Host!RemoveDirectory
  <2>1. AtPowerOn /\ Host!HasEsx
    BY DEF HostInv, Host!RemoveDirectory
  <2> QED BY <2>1 DEF AtPowerOn, Host!RemoveDirectory, Host!HasEsx, Configured
<1>3. /\ phase \in {"firmware", "installing", "aborted", "firstboot", "unconfigured", "ready"}
      /\ hostd \in BOOLEAN /\ disks \in [Host!Devices -> Host!Content] /\ conf \in Confs
  BY <1>1 DEF HostInv, Host!TypeOK
<1>4. phase # "firstboot" /\ (phase = "ready" => Configured /\ conf.certServed = "fqdn" /\ conf.ssh)
  BY <1>1 DEF HostInv
<1>5. phase' = "ready" => Configured' /\ conf'.certServed = "fqdn" /\ conf'.ssh
  BY <1>4 DEF Host!RemoveDirectory, Configured
<1>6. Host!DisksInTheirRoles'
  BY DEF HostInv, Host!DisksInTheirRoles, Host!RemoveDirectory
<1> QED
  BY <1>1, <1>2, <1>3, <1>4, <1>5, <1>6, PublishedStays DEF Host!RemoveDirectory

LEMMA NetBootStep == ASSUME HostInv, Host!NetBoot PROVE HostInv'
<1>1. /\ hostd \in BOOLEAN /\ disks \in [Host!Devices -> Host!Content] /\ conf \in Confs
      /\ directory \in BOOLEAN
  BY DEF HostInv, Host!TypeOK
<1>2. Host!DisksInTheirRoles'
  BY DEF HostInv, Host!DisksInTheirRoles, Host!NetBoot
<1> QED
  BY <1>1, <1>2, PublishedStays DEF Host!NetBoot

LEMMA InstallAbortsStep == ASSUME HostInv, Host!InstallAborts PROVE HostInv'
<1>1. /\ hostd \in BOOLEAN /\ disks \in [Host!Devices -> Host!Content] /\ conf \in Confs
      /\ directory \in BOOLEAN
  BY DEF HostInv, Host!TypeOK
<1>2. Host!DisksInTheirRoles'
  BY DEF HostInv, Host!DisksInTheirRoles, Host!InstallAborts
<1> QED
  BY <1>1, <1>2, PublishedStays DEF Host!InstallAborts

LEMMA HostdStartsStep == ASSUME HostInv, Host!HostdStarts PROVE HostInv'
<1>1. /\ disks \in [Host!Devices -> Host!Content] /\ conf \in Confs /\ directory \in BOOLEAN
  BY DEF HostInv, Host!TypeOK
<1>2. Host!DisksInTheirRoles'
  BY DEF HostInv, Host!DisksInTheirRoles, Host!HostdStarts
<1>3. ~directory' /\ Host!HasEsx' /\ FirstbootRuns'
  BY DEF HostInv, Host!HostdStarts, Host!HasEsx, FirstbootRuns, EffectsSoFar
<1> QED
  BY <1>1, <1>2, <1>3, PublishedStays DEF Host!HostdStarts

\* The installer writes the disk of the install line, whose content it did not
\* refuse.
LEMMA InstallStep == ASSUME HostInv, Host!Install PROVE HostInv'
<1>1. files = Written /\ Safe
  BY DEF HostInv, Host!Install
<1>2. /\ files.disk = inv.boot /\ inv.boot \in Host!Devices
      /\ files.install.preserve = (inv.vmfs = "preserve") /\ files.install.paranoid = (inv.vmfs = "preserve")
  BY <1>1, FilesSay
<1>3. disks \in [Host!Devices -> Host!Content] /\ directory \in BOOLEAN
  BY DEF HostInv, Host!TypeOK
<1>4. inv.vmfs = "preserve" => disks[inv.boot] \in {"vmfs", "esx_vmfs"}
  BY <1>2 DEF Host!Install, Host!InstallRefused
<1>5. /\ disks' \in [Host!Devices -> Host!Content]
      /\ disks'[inv.boot] \in {"esx", "esx_vmfs"}
      /\ inv.vmfs = "preserve" => disks'[inv.boot] = "esx_vmfs"
      /\ \A d \in Host!Devices : d # inv.boot => disks'[d] = disks[d]
  BY <1>2, <1>3, <1>4 DEF Host!Install, Host!Content
<1>6. Host!DisksInTheirRoles' /\ Host!HasEsx'
  BY <1>2, <1>5 DEF HostInv, Host!DisksInTheirRoles, Host!HasEsx, Host!Install
<1>7. /\ conf' = [Host!Fresh EXCEPT !.label = IF files.install.preserve /\ disks[files.disk] # "blank" THEN "kept" ELSE @]
      /\ todo' = <<"first">> /\ phase' = "firmware" /\ phase = "installing" /\ hostd' = FALSE
      /\ UNCHANGED <<inv, secureBoot, files, directory>>
  BY DEF Host!Install
<1>8. /\ conf' \in Confs /\ ~conf'.maint
      /\ inv.vmfs = "preserve" => conf'.label # "datastore1"
  BY <1>2, <1>4, <1>7 DEF Host!Fresh, Confs
<1>9. AtPowerOn'
  BY <1>6, <1>7, <1>8 DEF AtPowerOn
<1> QED
  BY <1>3, <1>5, <1>6, <1>7, <1>8, <1>9, PublishedStays

LEMMA LocalBootStep == ASSUME HostInv, Host!LocalBoot PROVE HostInv'
<1>1. files = Written /\ Safe /\ AtPowerOn
  BY DEF HostInv, Host!LocalBoot
<1>2. /\ files.install.preserve = (inv.vmfs = "preserve") /\ files.key \in BOOLEAN /\ files.tier \in BOOLEAN
  BY <1>1, FilesSay
<1>3. disks \in [Host!Devices -> Host!Content] /\ conf \in Confs /\ directory \in BOOLEAN
  BY DEF HostInv, Host!TypeOK
<1>4. /\ phase = "firmware" /\ ~directory /\ Host!HasEsx
      /\ conf' = [conf EXCEPT !.certServed = conf.certStored, !.ssh = conf.sshPolicy]
      /\ hostd' = FALSE /\ UNCHANGED <<inv, secureBoot, disks, files, directory>>
  BY DEF Host!LocalBoot
<1>5. /\ conf' \in Confs /\ conf'.certServed = conf.certStored /\ conf'.ssh = conf.sshPolicy
      /\ conf'.sshPolicy = conf.sshPolicy /\ conf'.ntpPolicy = conf.ntpPolicy /\ conf'.fqdn = conf.fqdn
      /\ conf'.certStored = conf.certStored /\ conf'.maint = conf.maint /\ conf'.label = conf.label
      /\ conf'.tier = conf.tier
  BY <1>3, <1>4 DEF Confs
<1>6. Host!DisksInTheirRoles' /\ Host!HasEsx'
  BY <1>4 DEF HostInv, Host!DisksInTheirRoles, Host!HasEsx
<1>7. CASE todo = <<"first">> /\ secureBoot
  <2>1. phase' = "unconfigured"
    BY <1>7 DEF Host!LocalBoot
  <2> QED BY <1>3, <1>4, <1>5, <1>6, <2>1, PublishedStays
<1>8. CASE todo = <<"first">> /\ ~secureBoot
  <2>1. phase' = "firstboot" /\ todo' = Host!Commands(files)
    BY <1>8 DEF Host!LocalBoot
  <2>2. /\ Host!Commands(files) \in Seq(Cmds) /\ InOrder(Host!Commands(files))
        /\ \A c \in {"wait_hostd", "maint_on", "services", "fqdn_cert", "maint_off", "reboot"} :
              In(c, Host!Commands(files))
        /\ In("rename", Host!Commands(files)) <=> ~files.install.preserve
        /\ In("tier", Host!Commands(files)) <=> files.tier
    <3>1. files.install.preserve \in BOOLEAN
      BY <1>2
    <3>2. PICK f : f = files
      OBVIOUS
    <3>3. f.install.preserve \in BOOLEAN /\ f.key \in BOOLEAN /\ f.tier \in BOOLEAN
      BY <3>1, <3>2, <1>2
    <3>4. /\ Host!Commands(f) \in Seq(Cmds) /\ InOrder(Host!Commands(f))
          /\ \A c \in {"wait_hostd", "maint_on", "services", "fqdn_cert", "maint_off", "reboot"} :
                In(c, Host!Commands(f))
          /\ In("rename", Host!Commands(f)) <=> ~f.install.preserve
          /\ In("tier", Host!Commands(f)) <=> f.tier
      BY <3>3, CommandsInOrder
    <3> QED BY <3>2, <3>4
  <2>3. inv.vmfs = "preserve" => conf.label # "datastore1"
    BY <1>1, <1>8 DEF AtPowerOn
  <2>4. FirstbootRuns'
    BY <2>1, <2>2, <2>3, <1>2, <1>4, <1>5 DEF FirstbootRuns, EffectsSoFar
  <2> QED BY <1>3, <1>4, <1>5, <1>6, <2>1, <2>4, PublishedStays
<1>9. CASE todo # <<"first">>
  <2>1. phase' = "ready" /\ Configured
    BY <1>9, <1>1, <1>4 DEF Host!LocalBoot, AtPowerOn
  <2>2. Configured' /\ conf'.certServed = "fqdn" /\ conf'.ssh
    BY <2>1, <1>4, <1>5 DEF Configured
  <2> QED BY <1>3, <1>4, <1>5, <1>6, <2>1, <2>2, PublishedStays
<1> QED BY <1>7, <1>8, <1>9

\* A command of %firstboot other than the last: what it has to have done by
\* then, and what it leaves of the others.
LEMMA CommandStep ==
    ASSUME HostInv, phase = "firstboot", todo # <<>>, Head(todo) # "reboot",
           Host!Done, phase' = phase, conf' \in Confs, disks' \in [Host!Devices -> Host!Content],
           Host!DisksInTheirRoles', Host!HasEsx',
           Head(todo) = "wait_hostd" => hostd,
           conf.maint # conf'.maint => Head(todo) \in {"maint_on", "maint_off"},
           Head(todo) = "maint_on" => conf'.maint,
           Head(todo) = "maint_off" => ~conf'.maint,
           (conf.sshPolicy /\ conf.ntpPolicy) \/ Head(todo) = "services" => conf'.sshPolicy /\ conf'.ntpPolicy,
           conf.label # "datastore1" \/ Head(todo) = "rename" => conf'.label # "datastore1",
           conf.tier \/ Head(todo) = "tier" => conf'.tier,
           (conf.fqdn /\ conf.certStored = "fqdn") \/ Head(todo) = "fqdn_cert" =>
               conf'.fqdn /\ conf'.certStored = "fqdn"
    PROVE  HostInv'
<1>1. /\ ~directory /\ directory \in BOOLEAN /\ hostd \in BOOLEAN
      /\ todo \in Seq(Cmds) /\ InOrder(todo) /\ EffectsSoFar
  BY DEF HostInv, Host!TypeOK, FirstbootRuns
<1>2. /\ todo' = Tail(todo) /\ UNCHANGED <<inv, secureBoot, files, directory, hostd>>
  BY DEF Host!Done
<1>3. /\ todo' \in Seq(Cmds) /\ InOrder(todo') /\ In(Head(todo), todo)
      /\ \A c : In(c, todo') <=> In(c, todo) /\ c # Head(todo)
      /\ \A c : In(c, todo') => Rank(Head(todo)) < Rank(c)
  BY <1>1, <1>2, RestInOrder
<1>4. Head(todo) = "maint_off" => ~In("maint_on", todo') /\ ~In("tier", todo')
  BY <1>3 DEF Rank
<1>5. conf.maint \in BOOLEAN /\ conf'.maint \in BOOLEAN
  BY DEF HostInv, Confs
<1>6. EffectsSoFar'
  <2> DEFINE c == Head(todo)
  <2>1. \A d : In(d, todo') <=> In(d, todo) /\ d # c
    BY <1>3
  <2>2. /\ ~In("wait_hostd", todo') => hostd'
        /\ ~In("maint_off", todo') => ~In("maint_on", todo') /\ ~conf'.maint
        /\ ~In("maint_on", todo') /\ In("maint_off", todo') => conf'.maint
    <3>1. ~In("wait_hostd", todo') => hostd'
      BY <2>1, <1>1, <1>2 DEF EffectsSoFar
    <3>2. ~In("maint_off", todo') => ~In("maint_on", todo')
      BY <2>1, <1>1, <1>4 DEF EffectsSoFar
    <3>3. ~In("maint_off", todo') => ~conf'.maint
      <4>1. CASE c = "maint_off"
        BY <4>1
      <4>2. CASE c # "maint_off"
        <5>1. SUFFICES ASSUME ~In("maint_off", todo') PROVE ~conf'.maint
          OBVIOUS
        <5>2. ~In("maint_off", todo) /\ ~In("maint_on", todo) /\ ~conf.maint
          BY <5>1, <4>2, <2>1, <1>1 DEF EffectsSoFar
        <5>3. c # "maint_on"
          BY <5>2, <1>3
        <5> QED BY <5>2, <5>3, <4>2, <1>5
      <4> QED BY <4>1, <4>2
    <3>4. ~In("maint_on", todo') /\ In("maint_off", todo') => conf'.maint
      BY <2>1, <1>1, <1>5 DEF EffectsSoFar
    <3> QED BY <3>1, <3>2, <3>3, <3>4
  <2>3. /\ ~In("services", todo') => conf'.sshPolicy /\ conf'.ntpPolicy
        /\ ~In("rename", todo') => conf'.label # "datastore1"
    BY <2>1, <1>1 DEF EffectsSoFar
  <2>4. /\ ~In("tier", todo') /\ files'.tier => conf'.tier
        /\ In("tier", todo') => files'.tier /\ In("maint_off", todo')
    BY <2>1, <1>1, <1>2, <1>4 DEF EffectsSoFar
  <2>5. /\ ~In("fqdn_cert", todo') => conf'.fqdn /\ conf'.certStored = "fqdn"
        /\ In("reboot", todo')
    BY <2>1, <1>1 DEF EffectsSoFar
  <2> QED BY <2>2, <2>3, <2>4, <2>5 DEF EffectsSoFar
<1>7. FirstbootRuns'
  BY <1>3, <1>6 DEF FirstbootRuns
<1> QED
  BY <1>1, <1>2, <1>7, PublishedStays

\* What CommandStep asks of the state before.
LEMMA RunningFacts ==
    ASSUME HostInv, NEW c, Host!Running(c)
    PROVE  /\ phase = "firstboot" /\ todo # <<>> /\ Head(todo) = c
           /\ conf \in Confs /\ disks \in [Host!Devices -> Host!Content]
           /\ Host!DisksInTheirRoles /\ Host!HasEsx
BY DEF HostInv, Host!Running, Host!TypeOK

LEMMA DisksKept ==
    ASSUME Host!DisksInTheirRoles, Host!HasEsx, UNCHANGED <<inv, disks>>
    PROVE  Host!DisksInTheirRoles' /\ Host!HasEsx'
BY DEF Host!DisksInTheirRoles, Host!HasEsx

LEMMA FirstbootStep == ASSUME HostInv, Host!Firstboot PROVE HostInv'
<1>1. ASSUME Host!WaitHostd PROVE HostInv'
  <2>1. Host!Running("wait_hostd") /\ hostd /\ Host!Done /\ UNCHANGED <<phase, conf, disks>>
    BY <1>1 DEF Host!WaitHostd
  <2>2. UNCHANGED inv
    BY <2>1 DEF Host!Done
  <2> QED BY <2>1, <2>2, RunningFacts, DisksKept, CommandStep
<1>2. ASSUME Host!MaintOn PROVE HostInv'
  <2>1. /\ Host!Running("maint_on") /\ conf' = [conf EXCEPT !.maint = TRUE] /\ Host!Done
        /\ UNCHANGED <<phase, disks, inv>>
    BY <1>2 DEF Host!MaintOn, Host!Done
  <2>2. /\ conf' \in Confs /\ conf'.maint = TRUE /\ conf'.sshPolicy = conf.sshPolicy
        /\ conf'.ntpPolicy = conf.ntpPolicy /\ conf'.label = conf.label /\ conf'.tier = conf.tier
        /\ conf'.fqdn = conf.fqdn /\ conf'.certStored = conf.certStored
    BY <2>1, RunningFacts DEF Confs
  <2>3. /\ phase = "firstboot" /\ todo # <<>> /\ Head(todo) = "maint_on"
        /\ disks \in [Host!Devices -> Host!Content] /\ Host!DisksInTheirRoles' /\ Host!HasEsx'
    BY <2>1, RunningFacts, DisksKept
  <2> QED BY <2>1, <2>2, <2>3, CommandStep
<1>3. ASSUME Host!Services PROVE HostInv'
  <2>1. /\ Host!Running("services") /\ Host!Done /\ UNCHANGED <<phase, disks, inv>>
        /\ conf' = [conf EXCEPT !.ssh = hostd, !.sshPolicy = TRUE, !.ntpPolicy = hostd]
    BY <1>3 DEF Host!Services, Host!Done
  <2>2. hostd /\ hostd \in BOOLEAN
    <3>1. EffectsSoFar /\ todo \in Seq(Cmds) /\ InOrder(todo) /\ hostd \in BOOLEAN
      BY <2>1, RunningFacts DEF HostInv, FirstbootRuns, Host!TypeOK
    <3>2. ~In("wait_hostd", todo)
      BY <3>1, <2>1, RunningFacts, RestInOrder DEF Rank
    <3> QED BY <3>1, <3>2 DEF EffectsSoFar
  <2>3. /\ conf' \in Confs /\ conf'.maint = conf.maint /\ conf'.sshPolicy /\ conf'.ntpPolicy
        /\ conf'.label = conf.label /\ conf'.tier = conf.tier /\ conf'.fqdn = conf.fqdn
        /\ conf'.certStored = conf.certStored
    BY <2>1, <2>2, RunningFacts DEF Confs
  <2> QED BY <2>1, <2>3, RunningFacts, DisksKept, CommandStep
<1>4. ASSUME Host!Rename PROVE HostInv'
  <2>1. /\ Host!Running("rename") /\ Host!Done /\ UNCHANGED <<phase, disks, inv>>
        /\ conf' = [conf EXCEPT !.label = IF hostd THEN "host_local" ELSE @]
    BY <1>4 DEF Host!Rename, Host!Done
  <2>2. hostd
    <3>1. EffectsSoFar /\ todo \in Seq(Cmds) /\ InOrder(todo)
      BY <2>1, RunningFacts DEF HostInv, FirstbootRuns
    <3>2. ~In("wait_hostd", todo)
      BY <3>1, <2>1, RunningFacts, RestInOrder DEF Rank
    <3> QED BY <3>1, <3>2 DEF EffectsSoFar
  <2>3. /\ conf' \in Confs /\ conf'.maint = conf.maint /\ conf'.sshPolicy = conf.sshPolicy
        /\ conf'.ntpPolicy = conf.ntpPolicy /\ conf'.label = "host_local" /\ conf'.tier = conf.tier
        /\ conf'.fqdn = conf.fqdn /\ conf'.certStored = conf.certStored
    BY <2>1, <2>2, RunningFacts DEF Confs
  <2> QED BY <2>1, <2>3, RunningFacts, DisksKept, CommandStep
<1>5. ASSUME Host!Key PROVE HostInv'
  <2>1. /\ Host!Running("key") /\ conf' = [conf EXCEPT !.key = TRUE] /\ Host!Done
        /\ UNCHANGED <<phase, disks, inv>>
    BY <1>5 DEF Host!Key, Host!Done
  <2>2. /\ conf' \in Confs /\ conf'.maint = conf.maint /\ conf'.sshPolicy = conf.sshPolicy
        /\ conf'.ntpPolicy = conf.ntpPolicy /\ conf'.label = conf.label /\ conf'.tier = conf.tier
        /\ conf'.fqdn = conf.fqdn /\ conf'.certStored = conf.certStored
    BY <2>1, RunningFacts DEF Confs
  <2> QED BY <2>1, <2>2, RunningFacts, DisksKept, CommandStep
<1>6. ASSUME Host!EnableTier PROVE HostInv'
  <2>1. /\ Host!Running("tier") /\ Host!Done /\ UNCHANGED <<phase, inv>>
        /\ conf' = [conf EXCEPT !.tier = conf.maint]
        /\ disks' = IF conf.maint THEN [disks EXCEPT ![inv.tier] = "tier"] ELSE disks
    BY <1>6 DEF Host!EnableTier, Host!Done
  <2>2. EffectsSoFar /\ todo \in Seq(Cmds) /\ InOrder(todo) /\ conf.maint \in BOOLEAN
    BY <2>1, RunningFacts DEF HostInv, FirstbootRuns, Confs
  <2>3. In("tier", todo)
    BY <2>2, <2>1, RunningFacts, RestInOrder
  <2>4. ~In("maint_on", todo)
    BY <2>2, <2>1, RunningFacts, RestInOrder DEF Rank
  <2>5. conf.maint /\ files.tier
    BY <2>2, <2>3, <2>4 DEF EffectsSoFar
  <2>6. /\ conf' \in Confs /\ conf'.maint = conf.maint /\ conf'.sshPolicy = conf.sshPolicy
        /\ conf'.ntpPolicy = conf.ntpPolicy /\ conf'.label = conf.label /\ conf'.tier
        /\ conf'.fqdn = conf.fqdn /\ conf'.certStored = conf.certStored
    BY <2>1, <2>5, RunningFacts DEF Confs
  <2>7. inv.tier \in Host!Devices /\ inv.tier # inv.boot /\ inv.tier # inv.vsan
    <3>1. files = Written /\ Safe
      BY <2>1, RunningFacts DEF HostInv
    <3> QED BY <3>1, <2>5, FilesSay
  <2>8. disks' = [disks EXCEPT ![inv.tier] = "tier"]
    BY <2>1, <2>5
  <2>9. /\ disks' \in [Host!Devices -> Host!Content] /\ disks'[inv.tier] = "tier"
        /\ \A d \in Host!Devices : d # inv.tier => disks'[d] = disks[d]
    BY <2>8, <2>7, <2>1, RunningFacts DEF Host!Content
  <2>10. Host!DisksInTheirRoles'
    BY <2>9, <2>7, <2>1, RunningFacts DEF Host!DisksInTheirRoles
  <2>11. Host!HasEsx'
    <3>1. PICK d \in Host!Devices : disks[d] \in {"esx", "esx_vmfs"}
      BY <2>1, RunningFacts DEF Host!HasEsx
    <3>2. d # inv.tier
      BY <3>1, <2>7, <2>1, RunningFacts DEF Host!DisksInTheirRoles
    <3> QED BY <3>1, <3>2, <2>9 DEF Host!HasEsx
  <2> QED BY <2>1, <2>6, <2>9, <2>10, <2>11, RunningFacts, CommandStep
<1>7. ASSUME Host!FqdnCert PROVE HostInv'
  <2>1. /\ Host!Running("fqdn_cert") /\ conf' = [conf EXCEPT !.fqdn = TRUE, !.certStored = "fqdn"] /\ Host!Done
        /\ UNCHANGED <<phase, disks, inv>>
    BY <1>7 DEF Host!FqdnCert, Host!Done
  <2>2. /\ conf' \in Confs /\ conf'.maint = conf.maint /\ conf'.sshPolicy = conf.sshPolicy
        /\ conf'.ntpPolicy = conf.ntpPolicy /\ conf'.label = conf.label /\ conf'.tier = conf.tier
        /\ conf'.fqdn /\ conf'.certStored = "fqdn"
    BY <2>1, RunningFacts DEF Confs
  <2> QED BY <2>1, <2>2, RunningFacts, DisksKept, CommandStep
<1>8. ASSUME Host!MaintOff PROVE HostInv'
  <2>1. /\ Host!Running("maint_off") /\ conf' = [conf EXCEPT !.maint = FALSE] /\ Host!Done
        /\ UNCHANGED <<phase, disks, inv>>
    BY <1>8 DEF Host!MaintOff, Host!Done
  <2>2. /\ conf' \in Confs /\ conf'.maint = FALSE /\ conf'.sshPolicy = conf.sshPolicy
        /\ conf'.ntpPolicy = conf.ntpPolicy /\ conf'.label = conf.label /\ conf'.tier = conf.tier
        /\ conf'.fqdn = conf.fqdn /\ conf'.certStored = conf.certStored
    BY <2>1, RunningFacts DEF Confs
  <2>3. /\ phase = "firstboot" /\ todo # <<>> /\ Head(todo) = "maint_off"
        /\ disks \in [Host!Devices -> Host!Content] /\ Host!DisksInTheirRoles' /\ Host!HasEsx'
    BY <2>1, RunningFacts, DisksKept
  <2> QED BY <2>1, <2>2, <2>3, CommandStep
<1>9. ASSUME Host!Reboot PROVE HostInv'
  <2>1. /\ Host!Running("reboot") /\ Host!Done /\ phase' = "firmware"
        /\ todo' = Tail(todo) /\ UNCHANGED <<conf, disks, inv, secureBoot, files, directory, hostd>>
    BY <1>9 DEF Host!Reboot, Host!Done
  <2>2. /\ EffectsSoFar /\ todo \in Seq(Cmds) /\ InOrder(todo) /\ ~directory /\ directory \in BOOLEAN
        /\ hostd \in BOOLEAN
    BY <2>1, RunningFacts DEF HostInv, FirstbootRuns, Host!TypeOK
  <2>3. /\ Head(todo) = "reboot" /\ Tail(todo) \in Seq(Cmds) /\ InOrder(Tail(todo))
        /\ \A c : In(c, Tail(todo)) <=> In(c, todo) /\ c # "reboot"
        /\ \A c : In(c, Tail(todo)) => 9 < Rank(c)
    <3>1. Rank("reboot") = 9
      BY DEF Rank
    <3> QED BY <2>1, <2>2, <3>1, RunningFacts, RestInOrder
  <2>4. \A c : Rank(c) \in 0..9
    BY DEF Rank
  <2>5. \A c : ~In(c, Tail(todo))
    BY <2>3, <2>4
  <2>6. Tail(todo) = <<>>
    <3> DEFINE r == Tail(todo)
    <3>1. r \in Seq(Cmds) /\ ~In(r[1], r)
      BY <2>3, <2>5
    <3> HIDE DEF r
    <3>2. ~(1 \in 1 .. Len(r))
      BY <3>1 DEF In
    <3>3. r = <<>>
      BY <3>1, <3>2
    <3> QED BY <3>3 DEF r
  <2>7. Configured
    BY <2>2, <2>3, <2>5 DEF Configured, EffectsSoFar
  <2>8. AtPowerOn'
    BY <2>1, <2>2, <2>6, <2>7, RunningFacts DEF AtPowerOn, Configured, Host!HasEsx
  <2> QED BY <2>1, <2>2, <2>8, RunningFacts, DisksKept, PublishedStays
<1> QED
  BY <1>1, <1>2, <1>3, <1>4, <1>5, <1>6, <1>7, <1>8, <1>9 DEF Host!Firstboot

LEMMA HostNext == HostInv /\ Host!Next => HostInv'
BY RenderStep, PublishStep, RemoveDirectoryStep, NetBootStep, InstallStep, InstallAbortsStep, LocalBootStep,
   HostdStartsStep, FirstbootStep DEF Host!Next, Host!Boots

LEMMA HostRest == HostInv /\ UNCHANGED hostVars => HostInv'
BY DEF hostVars, HostInv, Host!TypeOK, Host!DisksInTheirRoles, Host!HasEsx, AtPowerOn, Configured,
       FirstbootRuns, EffectsSoFar, Written, Safe

\* What the invariant says of the host's three properties.
LEMMA HostProperties ==
    HostInv => /\ Host!TypeOK /\ Host!DisksInTheirRoles /\ Host!RendererAgrees
               /\ Host!ReadyIsCommissionable
<1> SUFFICES ASSUME HostInv
             PROVE  Host!RendererAgrees /\ Host!ReadyIsCommissionable
  BY DEF HostInv
<1>1. Host!ReadyIsCommissionable
  <2> SUFFICES ASSUME phase = "ready" PROVE Host!ReadyIsCommissionable
    BY DEF Host!ReadyIsCommissionable
  <2>1. /\ files = Written /\ Safe /\ Configured
        /\ conf.certServed = "fqdn" /\ conf.ssh
    BY DEF HostInv
  <2>2. files.tier = (inv.tierGb > 0 /\ Host!TieringFindings(inv) = {})
    BY <2>1, FilesSay
  <2> QED BY <2>1, <2>2 DEF Host!ReadyIsCommissionable, Configured
<1>2. inv \in Host!HostEntry
  BY DEF HostInv, Host!TypeOK
<1>3. files.ks => Safe
  BY DEF HostInv, Host!NoFiles
<1>4. Safe => Host!DeviceFindings(inv) \subseteq {"no_device", "not_stable", "ratio"}
  BY DEF Safe, Host!Withheld, Host!DeviceFindings, Host!TieringFindings
<1>5. Safe => inv.root \in {"reference", "hash"} /\ inv.key # "private"
  BY <1>2 DEF Safe, Host!Withheld, Host!Insecure, Host!HostEntry
<1>6. ASSUME phase = "rendered", ~files.ks, ~Host!Insecure(inv)
      PROVE  Host!DeviceFindings(inv) # {} \/ inv.root = "none" \/ ~inv.mac \/ Host!VmfsModeRefused(inv)
  <2>1. ~Safe
    BY <1>6 DEF HostInv, Written
  <2> QED BY <2>1, <1>6 DEF Safe, Host!Withheld, Host!DeviceFindings
<1> QED
  BY <1>1, <1>3, <1>4, <1>5, <1>6 DEF Host!RendererAgrees

-----------------------------------------------------------------------------
(* The probes.                                                             *)

UnderWay == step \in {"forward", "reverse", "connect", "skip"}
Touched(t) == \E x \in touched : x.at = t
\* How far the target under way has come says what it was let through.
GatePassed ==
    UnderWay =>
        /\ target \in DOMAIN targets
        /\ targets[target].kind = "host" /\ step # "skip" => Probe!Permits(targets[target].ip)
        /\ targets[target].kind = "appliance" /\ step = "reverse" => Probe!Permits(resolved)
        /\ step = "connect" => targets[target].kind = "host"
\* No host is passed over in silence.
HostsAccountedFor ==
    \A t \in DOMAIN targets :
        targets[t].kind = "host" /\ (t < target \/ (t = target /\ UnderWay)) => notes # {} \/ Touched(t)
ForeignReported ==
    \A t \in DOMAIN told : told[t] = "foreign" /\ targets[t].name # "foreign" => "REVERSE-MISMATCH" \in Probe!Codes(t)

ProbeInv ==
    /\ Probe!TypeOK
    /\ targets \in Seq(Probe!Target) /\ told \in [DOMAIN targets -> Probe!Pointers]
    /\ tally \in [candidates : Nat, permitted : Nat, lookups : Nat]
    /\ GatePassed /\ Probe!StaysInside /\ (\A x \in touched : x.at \in DOMAIN targets)
    /\ HostsAccountedFor /\ ForeignReported
    /\ step = "seams" => target = 1 /\ \A t \in DOMAIN told : told[t] = "none"
    /\ step = "done" => target > Len(targets) \/ notes # {}

LEMMA ProbeInit == Probe!Init => ProbeInv
<1> SUFFICES ASSUME Probe!Init PROVE ProbeInv
  OBVIOUS
<1>1. targets \in Seq(Probe!Target) /\ Len(targets) \in Nat
  BY LabAssumption DEF Probe!Init
<1>2. Probe!TypeOK
  <2>1. target \in 1 .. Len(targets) + 1
    BY <1>1 DEF Probe!Init
  <2>2. tally.permitted = 0 /\ tally.candidates = 0 /\ 0 <= 0
    BY DEF Probe!Init
  <2>3. step = "seams" /\ behind \in BOOLEAN /\ canonical = "none" /\ resolved = "none"
    BY DEF Probe!Init
  <2> QED BY <2>1, <2>2, <2>3 DEF Probe!TypeOK
<1>3. told \in [DOMAIN targets -> Probe!Pointers] /\ ForeignReported
  BY <1>1 DEF Probe!Init, Probe!Pointers, ForeignReported
<1>4. GatePassed /\ Probe!StaysInside /\ HostsAccountedFor
  BY <1>1 DEF Probe!Init, GatePassed, Probe!StaysInside, HostsAccountedFor, UnderWay
<1> QED
  BY <1>1, <1>2, <1>3, <1>4 DEF Probe!Init, ProbeInv

LEMMA ThisTarget ==
    ASSUME ProbeInv, target \in DOMAIN targets
    PROVE  /\ targets[target] = Probe!This /\ Probe!This \in Probe!Target
           /\ Probe!This.kind \in {"host", "appliance"} /\ Probe!This.name \in {"own", "foreign", "unusable"}
           /\ Probe!This.kind = "host" => Probe!This.ip \in {"declared", "outside"}
           /\ target \in 1 .. Len(targets)
<1>1. targets[target] \in Probe!Target /\ target \in 1 .. Len(targets)
  BY DEF ProbeInv
<1> QED
  BY <1>1 DEF Probe!This, Probe!Target

\* Notes and traces are only added to.
LEMMA MoreNotes ==
    ASSUME ProbeInv, notes \subseteq notes', touched \subseteq touched', UNCHANGED <<targets, told>>,
           NEW t \in DOMAIN targets
    PROVE  /\ notes # {} \/ Touched(t) => notes' # {} \/ Touched(t)'
           /\ Probe!Codes(t) \subseteq Probe!Codes(t)'
BY DEF Touched, Probe!Codes

\* A step that lets go of the target under way.
LEMMA ToTheNext ==
    ASSUME ProbeInv, target \in DOMAIN targets, Probe!NextTarget, UNCHANGED <<targets, behind, told>>,
           tally' \in [candidates : Nat, permitted : Nat, lookups : Nat],
           tally'.permitted <= tally'.candidates,
           notes \subseteq notes', touched \subseteq touched', Probe!StaysInside',
           \A x \in touched' : x.at \in DOMAIN targets,
           Probe!This.kind = "host" => notes' # {} \/ \E x \in touched' : x.at = target
    PROVE  ProbeInv'
<1>1. /\ target' = target + 1 /\ step' = "target" /\ canonical' = "none" /\ resolved' = "none"
      /\ target \in 1 .. Len(targets) /\ Len(targets) \in Nat
  BY ThisTarget DEF Probe!NextTarget, ProbeInv
<1>2. Probe!TypeOK'
  BY <1>1 DEF ProbeInv, Probe!TypeOK
<1>3. GatePassed'
  BY <1>1 DEF GatePassed, UnderWay
<1>4. HostsAccountedFor'
  <2> SUFFICES ASSUME NEW t \in DOMAIN targets, targets[t].kind = "host", t < target'
               PROVE  notes' # {} \/ Touched(t)'
    BY <1>1 DEF HostsAccountedFor, UnderWay
  <2>1. t \in 1 .. Len(targets)
    BY DEF ProbeInv
  <2>2. CASE t = target
    BY <2>2 DEF Probe!This, Touched
  <2>3. CASE t < target
    BY <2>3, MoreNotes DEF ProbeInv, HostsAccountedFor
  <2> QED BY <2>1, <2>2, <2>3, <1>1
<1>5. ForeignReported'
  BY MoreNotes DEF ProbeInv, ForeignReported
<1> QED
  BY <1>1, <1>2, <1>3, <1>4, <1>5 DEF ProbeInv

\* A step that stays with it.
LEMMA OnWithThis ==
    ASSUME ProbeInv, UNCHANGED <<targets, target>>, target \in DOMAIN targets,
           behind' \in BOOLEAN, canonical' \in {"own", "sibling", "foreign", "none"},
           resolved' \in Probe!Addresses \cup {"none"}, told' \in [DOMAIN targets -> Probe!Pointers],
           step' \in {"forward", "reverse", "connect", "skip"},
           tally' \in [candidates : Nat, permitted : Nat, lookups : Nat],
           tally'.permitted <= tally'.candidates,
           notes \subseteq notes', touched \subseteq touched', Probe!StaysInside',
           \A x \in touched' : x.at \in DOMAIN targets,
           GatePassed', ForeignReported',
           Probe!This.kind = "host" => notes' # {} \/ \E x \in touched' : x.at = target
    PROVE  ProbeInv'
<1>1. Probe!TypeOK'
  BY DEF ProbeInv, Probe!TypeOK
<1>2. HostsAccountedFor'
  <2> SUFFICES ASSUME NEW t \in DOMAIN targets, targets[t].kind = "host", t < target \/ t = target
               PROVE  notes' # {} \/ Touched(t)'
    BY DEF HostsAccountedFor
  <2>1. CASE t = target
    BY <2>1 DEF Probe!This, Touched
  <2>2. CASE t < target
    <3>1. notes # {} \/ Touched(t)
      BY <2>2 DEF ProbeInv, HostsAccountedFor
    <3> QED BY <3>1 DEF Touched
  <2> QED BY <2>1, <2>2
<1> QED
  BY <1>1, <1>2 DEF ProbeInv

LEMMA CheckSeamsStep == ASSUME ProbeInv, Probe!CheckSeams PROVE ProbeInv'
<1>1. /\ UNCHANGED <<targets, asking, behind, touched, told, target, canonical, resolved, tally>>
      /\ step = "seams" /\ step' \in {"target", "done"} /\ (step' = "done" => notes' # {})
  BY DEF Probe!CheckSeams, Probe!Same, Probe!Quiet
<1>2. target = 1 /\ \A t \in DOMAIN told : told[t] = "none"
  BY <1>1 DEF ProbeInv
<1>3. Probe!TypeOK' /\ Probe!StaysInside' /\ GatePassed'
  BY <1>1 DEF ProbeInv, Probe!TypeOK, Probe!StaysInside, GatePassed, UnderWay
<1>4. ForeignReported' /\ HostsAccountedFor'
  BY <1>1, <1>2 DEF ProbeInv, ForeignReported, HostsAccountedFor, UnderWay
<1> QED
  BY <1>1, <1>3, <1>4 DEF ProbeInv

LEMMA CountFacts ==
    ASSUME ProbeInv, NEW t
    PROVE  /\ Probe!Count(t) \in [candidates : Nat, permitted : Nat, lookups : Nat]
           /\ Probe!Count(t).permitted <= Probe!Count(t).candidates
<1> DEFINE one == IF Probe!Permits(t.ip) THEN 1 ELSE 0
<1>1. one \in {0, 1}
  OBVIOUS
<1>2. Probe!Count(t) = [tally EXCEPT !.candidates = @ + 1, !.permitted = @ + one]
  BY DEF Probe!Count
<1> HIDE DEF one
<1>3. tally \in [candidates : Nat, permitted : Nat, lookups : Nat] /\ tally.permitted <= tally.candidates
  BY DEF ProbeInv, Probe!TypeOK
<1>4. /\ tally.candidates \in Nat /\ tally.permitted \in Nat /\ tally.lookups \in Nat
      /\ tally = [candidates |-> tally.candidates, permitted |-> tally.permitted, lookups |-> tally.lookups]
  BY <1>3
<1>5. Probe!Count(t) = [candidates |-> tally.candidates + 1, permitted |-> tally.permitted + one,
                        lookups |-> tally.lookups]
  BY <1>2, <1>4
<1> QED BY <1>1, <1>3, <1>4, <1>5

LEMMA StartHostStep == ASSUME ProbeInv, Probe!StartHost PROVE ProbeInv'
<1>1. /\ step = "target" /\ target \in DOMAIN targets /\ Probe!This.kind = "host"
      /\ targets[target] = Probe!This /\ Probe!This \in Probe!Target
  <2>1. target \in 1 .. Len(targets)
    BY DEF Probe!StartHost, ProbeInv, Probe!TypeOK
  <2> QED BY <2>1, ThisTarget DEF Probe!StartHost, ProbeInv
<1>3. CASE Probe!Gate(Probe!This) \in {"blocked", "nameless"}
  <2>1. /\ Probe!NextTarget /\ Probe!Same /\ tally' = Probe!Count(Probe!This)
        /\ notes \subseteq notes' /\ notes' # {}
    BY <1>3 DEF Probe!StartHost, Probe!Note
  <2>2. UNCHANGED <<targets, behind, told, touched>>
    BY <2>1 DEF Probe!Same
  <2>3. Probe!StaysInside' /\ \A x \in touched' : x.at \in DOMAIN targets
    BY <2>2 DEF ProbeInv, Probe!StaysInside
  <2> QED BY <1>1, <2>1, <2>2, <2>3, CountFacts, ToTheNext
<1>4. CASE Probe!Gate(Probe!This) = "name_blocked"
  <2>1. /\ Probe!Same /\ tally' = Probe!Count(Probe!This) /\ step' = "reverse"
        /\ notes \subseteq notes' /\ notes' # {} /\ UNCHANGED <<target, canonical, resolved>>
    BY <1>4 DEF Probe!StartHost, Probe!Note
  <2>2. UNCHANGED <<targets, behind, told, touched>>
    BY <2>1 DEF Probe!Same
  <2>3. Probe!StaysInside' /\ \A x \in touched' : x.at \in DOMAIN targets
    BY <2>2 DEF ProbeInv, Probe!StaysInside
  <2>4. Probe!Permits(Probe!This.ip)
    BY <1>4 DEF Probe!Gate, Probe!HostGate
  <2>5. GatePassed'
    BY <1>1, <2>1, <2>2, <2>4 DEF GatePassed
  <2>6. ForeignReported'
    BY <2>1, <2>2, MoreNotes DEF ProbeInv, ForeignReported
  <2>7. /\ behind \in BOOLEAN /\ canonical \in {"own", "sibling", "foreign", "none"}
        /\ resolved \in Probe!Addresses \cup {"none"} /\ told \in [DOMAIN targets -> Probe!Pointers]
    BY DEF ProbeInv, Probe!TypeOK
  <2> QED BY <1>1, <2>1, <2>2, <2>3, <2>5, <2>6, <2>7, CountFacts, OnWithThis
<1>5. CASE Probe!Gate(Probe!This) = "clear"
  <2>1. /\ notes' = notes /\ tally' = [Probe!Count(Probe!This) EXCEPT !.lookups = 1] /\ step' = "forward"
        /\ touched' = touched \cup {[act |-> "forward", at |-> target, of |-> Probe!This.name]}
        /\ UNCHANGED <<targets, behind, told, target, canonical, resolved>>
    BY <1>5 DEF Probe!StartHost, Probe!Quiet, Probe!Ask
  <2>2. Probe!Permits(Probe!This.ip) /\ Probe!PermitsName(Probe!This.name)
    BY <1>5 DEF Probe!Gate, Probe!HostGate
  <2>3. Probe!StaysInside' /\ \A x \in touched' : x.at \in DOMAIN targets
    BY <1>1, <2>1, <2>2 DEF ProbeInv, Probe!StaysInside
  <2>4. GatePassed'
    BY <1>1, <2>1, <2>2 DEF GatePassed
  <2>5. ForeignReported'
    BY <2>1, MoreNotes DEF ProbeInv, ForeignReported
  <2>6. /\ behind \in BOOLEAN /\ canonical \in {"own", "sibling", "foreign", "none"}
        /\ resolved \in Probe!Addresses \cup {"none"} /\ told \in [DOMAIN targets -> Probe!Pointers]
    BY DEF ProbeInv, Probe!TypeOK
  <2>7. tally' \in [candidates : Nat, permitted : Nat, lookups : Nat] /\ tally'.permitted <= tally'.candidates
    BY <2>1, CountFacts
  <2>8. \E x \in touched' : x.at = target
    <3> DEFINE y == [act |-> "forward", at |-> target, of |-> Probe!This.name]
    <3>1. y \in touched' /\ y.at = target
      BY <2>1
    <3> QED BY <3>1
  <2> QED BY <1>1, <2>1, <2>3, <2>4, <2>5, <2>6, <2>7, <2>8, OnWithThis
<1> QED
  BY <1>3, <1>4, <1>5 DEF Probe!StartHost

LEMMA StartApplianceStep == ASSUME ProbeInv, Probe!StartAppliance PROVE ProbeInv'
<1>1. /\ step = "target" /\ target \in DOMAIN targets /\ Probe!This.kind = "appliance"
      /\ targets[target] = Probe!This
  <2>1. target \in 1 .. Len(targets)
    BY DEF Probe!StartAppliance, ProbeInv, Probe!TypeOK
  <2> QED BY <2>1, ThisTarget DEF Probe!StartAppliance, ProbeInv
<1>2. /\ tally \in [candidates : Nat, permitted : Nat, lookups : Nat] /\ tally.permitted <= tally.candidates
      /\ behind \in BOOLEAN /\ canonical \in {"own", "sibling", "foreign", "none"}
      /\ resolved \in Probe!Addresses \cup {"none"} /\ told \in [DOMAIN targets -> Probe!Pointers]
  BY DEF ProbeInv, Probe!TypeOK
<1>3. CASE ~Probe!PermitsName(Probe!This.name)
  <2>1. Probe!NextTarget /\ Probe!Same /\ tally' = tally /\ notes \subseteq notes'
    BY <1>3 DEF Probe!StartAppliance, Probe!Note
  <2>2. UNCHANGED <<targets, behind, told, touched>>
    BY <2>1 DEF Probe!Same
  <2>3. Probe!StaysInside' /\ \A x \in touched' : x.at \in DOMAIN targets
    BY <2>2 DEF ProbeInv, Probe!StaysInside
  <2> QED BY <1>1, <1>2, <2>1, <2>2, <2>3, ToTheNext
<1>4. CASE Probe!PermitsName(Probe!This.name)
  <2>1. /\ notes' = notes /\ tally' = [tally EXCEPT !.lookups = 1] /\ step' = "forward"
        /\ touched' = touched \cup {[act |-> "forward", at |-> target, of |-> Probe!This.name]}
        /\ UNCHANGED <<targets, behind, told, target, canonical, resolved>>
    BY <1>4 DEF Probe!StartAppliance, Probe!Quiet, Probe!Ask
  <2>2. Probe!StaysInside' /\ \A x \in touched' : x.at \in DOMAIN targets
    BY <1>1, <1>4, <2>1 DEF ProbeInv, Probe!StaysInside
  <2>3. GatePassed'
    BY <1>1, <2>1 DEF GatePassed
  <2>4. ForeignReported'
    BY <2>1, MoreNotes DEF ProbeInv, ForeignReported
  <2>5. tally' \in [candidates : Nat, permitted : Nat, lookups : Nat] /\ tally'.permitted <= tally'.candidates
    BY <2>1, <1>2
  <2> QED BY <1>1, <1>2, <2>1, <2>2, <2>3, <2>4, <2>5, OnWithThis
<1> QED
  BY <1>3, <1>4

\* What holds while a target is under way, for the steps below.
LEMMA UnderWayFacts ==
    ASSUME ProbeInv, UnderWay
    PROVE  /\ target \in DOMAIN targets /\ targets[target] = Probe!This
           /\ Probe!This.kind \in {"host", "appliance"}
           /\ tally \in [candidates : Nat, permitted : Nat, lookups : Nat] /\ tally.permitted <= tally.candidates
           /\ behind \in BOOLEAN /\ canonical \in {"own", "sibling", "foreign", "none"}
           /\ resolved \in Probe!Addresses \cup {"none"} /\ told \in [DOMAIN targets -> Probe!Pointers]
           /\ Probe!StaysInside /\ (\A x \in touched : x.at \in DOMAIN targets)
           /\ Probe!This.kind = "host" => notes # {} \/ \E x \in touched : x.at = target
<1>1. target \in DOMAIN targets
  BY DEF ProbeInv, GatePassed
<1>2. Probe!This.kind = "host" => notes # {} \/ \E x \in touched : x.at = target
  BY <1>1, ThisTarget DEF ProbeInv, HostsAccountedFor, Touched
<1> QED
  BY <1>1, <1>2, ThisTarget DEF ProbeInv, Probe!TypeOK

LEMMA TraceKept ==
    ASSUME ProbeInv, UNCHANGED <<targets, touched>>
    PROVE  Probe!StaysInside' /\ \A x \in touched' : x.at \in DOMAIN targets
BY DEF ProbeInv, Probe!StaysInside

LEMMA TakeForwardStep ==
    ASSUME ProbeInv, NEW a \in Probe!Forward \cup Probe!NoForward, NEW late \in BOOLEAN, Probe!TakeForward(a, late)
    PROVE  ProbeInv'
<1>1. UnderWay /\ step = "forward"
  BY DEF Probe!TakeForward, UnderWay
<1>2. /\ UNCHANGED <<targets, target, tally, touched, told>> /\ notes \subseteq notes'
      /\ behind' = (behind \/ late)
  BY DEF Probe!TakeForward, Probe!Note, Probe!Quiet
<1>3. /\ canonical' = a.canon /\ a.canon \in {"own", "sibling", "foreign", "none"}
      /\ resolved' = IF a.addr \in Probe!Addresses THEN a.addr ELSE "none"
      /\ step' = IF Probe!This.kind = "host" \/ Probe!Permits(a.addr) THEN "reverse" ELSE "skip"
  BY DEF Probe!TakeForward, Probe!Forward, Probe!NoForward
<1>4. GatePassed'
  BY <1>1, <1>2, <1>3, UnderWayFacts
     DEF ProbeInv, GatePassed, Probe!Permits, Probe!Addresses, UnderWay
<1>5. ForeignReported'
  BY <1>2, MoreNotes DEF ProbeInv, ForeignReported
<1>6. behind' \in BOOLEAN /\ step' \in {"forward", "reverse", "connect", "skip"}
  BY <1>1, <1>2, <1>3, UnderWayFacts
<1>7. resolved' \in Probe!Addresses \cup {"none"}
  BY <1>3
<1>8. Probe!This.kind = "host" => notes' # {} \/ \E x \in touched' : x.at = target
  BY <1>1, <1>2, UnderWayFacts
<1> QED
  BY <1>1, <1>2, <1>3, <1>4, <1>5, <1>6, <1>7, <1>8, UnderWayFacts, TraceKept, OnWithThis

LEMMA SkipStep == ASSUME ProbeInv, Probe!Skip PROVE ProbeInv'
<1>1. UnderWay /\ Probe!NextTarget /\ UNCHANGED <<notes, targets, behind, told, touched, tally>>
  BY DEF Probe!Skip, UnderWay, Probe!Quiet, Probe!Same
<1>2. Probe!This.kind = "host" => notes' # {} \/ \E x \in touched' : x.at = target
  BY <1>1, UnderWayFacts
<1> QED
  BY <1>1, <1>2, UnderWayFacts, TraceKept, ToTheNext

LEMMA AskReverseStep == ASSUME ProbeInv, Probe!AskReverse PROVE ProbeInv'
<1> DEFINE of == IF Probe!This.kind = "host" THEN "declared" ELSE resolved
           y  == [act |-> "reverse", at |-> target, of |-> of]
<1>1. /\ UnderWay /\ step = "reverse" /\ step' = "reverse" /\ notes' = notes
      /\ tally' = [tally EXCEPT !.lookups = 1] /\ touched' = touched \cup {y}
      /\ UNCHANGED <<targets, behind, told, target, canonical, resolved>>
  BY DEF Probe!AskReverse, UnderWay, Probe!Quiet, Probe!Ask
<1>2. Probe!Permits(of)
  <2>1. Probe!This.kind = "appliance" => Probe!Permits(resolved)
    BY <1>1, UnderWayFacts DEF ProbeInv, GatePassed
  <2> QED BY <1>1, <2>1, UnderWayFacts DEF Probe!Permits
<1>3. y.act = "reverse" /\ y.at = target /\ y.of = of
  OBVIOUS
<1> HIDE DEF y, of
<1>4. Probe!StaysInside' /\ \A x \in touched' : x.at \in DOMAIN targets
  BY <1>1, <1>2, <1>3, UnderWayFacts DEF Probe!StaysInside
<1>5. GatePassed'
  BY <1>1 DEF ProbeInv, GatePassed, UnderWay
<1>6. ForeignReported'
  BY <1>1, MoreNotes DEF ProbeInv, ForeignReported
<1>7. tally' \in [candidates : Nat, permitted : Nat, lookups : Nat] /\ tally'.permitted <= tally'.candidates
  BY <1>1, UnderWayFacts
<1>8. \E x \in touched' : x.at = target
  BY <1>1, <1>3
<1> QED
  BY <1>1, <1>4, <1>5, <1>6, <1>7, <1>8, UnderWayFacts, OnWithThis

\* A name outside the suffixes never closes the round trip of another name.
LEMMA TakeReverseStep ==
    ASSUME ProbeInv, NEW r \in Probe!Pointers, NEW late \in BOOLEAN, Probe!TakeReverse(r, late)
    PROVE  ProbeInv'
<1>1. /\ UnderWay /\ step = "reverse" /\ behind' = (behind \/ late) /\ told' = [told EXCEPT ![target] = r]
      /\ step' = IF Probe!This.kind = "host" THEN "connect" ELSE "skip"
      /\ UNCHANGED <<targets, target, canonical, resolved, tally, touched>> /\ notes \subseteq notes'
  BY DEF Probe!TakeReverse, UnderWay, Probe!Note, Probe!Quiet
<1>2. /\ told' \in [DOMAIN targets -> Probe!Pointers] /\ told'[target] = r
      /\ \A t \in DOMAIN targets : t # target => told'[t] = told[t]
  BY <1>1, UnderWayFacts
<1>3. GatePassed'
  BY <1>1, UnderWayFacts DEF ProbeInv, GatePassed, UnderWay
<1>4. ForeignReported'
  <2> SUFFICES ASSUME NEW t \in DOMAIN targets, told'[t] = "foreign", targets[t].name # "foreign"
               PROVE  "REVERSE-MISMATCH" \in Probe!Codes(t)'
    BY <1>1, <1>2 DEF ForeignReported
  <2>1. CASE t = target
    <3>1. r = "foreign" /\ Probe!This.name # "foreign"
      BY <1>1, <1>2, <2>1, UnderWayFacts
    <3>2. ~Probe!RoundTrip(r)
      BY <3>1 DEF Probe!RoundTrip, Probe!PermitsName
    <3>3. notes' = notes \cup {[code |-> "REVERSE-MISMATCH", at |-> target]}
      BY <3>1, <3>2 DEF Probe!TakeReverse, Probe!Note
    <3> DEFINE f == [code |-> "REVERSE-MISMATCH", at |-> target]
    <3>4. f \in notes' /\ f.at = t /\ f.code = "REVERSE-MISMATCH"
      BY <3>3, <2>1
    <3> HIDE DEF f
    <3> QED BY <3>4 DEF Probe!Codes
  <2>2. CASE t # target
    <3>1. "REVERSE-MISMATCH" \in Probe!Codes(t)
      BY <1>1, <1>2, <2>2, UnderWayFacts DEF ProbeInv, ForeignReported
    <3> QED BY <3>1, <1>1 DEF Probe!Codes
  <2> QED BY <2>1, <2>2
<1>5. behind' \in BOOLEAN /\ step' \in {"forward", "reverse", "connect", "skip"}
  BY <1>1, UnderWayFacts
<1>6. Probe!This.kind = "host" => notes' # {} \/ \E x \in touched' : x.at = target
  BY <1>1, UnderWayFacts
<1> QED
  BY <1>1, <1>2, <1>3, <1>4, <1>5, <1>6, UnderWayFacts, TraceKept, OnWithThis

LEMMA ConnectStep == ASSUME ProbeInv, Probe!Connect PROVE ProbeInv'
<1> DEFINE y == [act |-> "connect", at |-> target, of |-> Probe!This.ip]
<1>1. /\ UnderWay /\ step = "connect" /\ touched' = touched \cup {y} /\ notes \subseteq notes'
      /\ Probe!NextTarget /\ UNCHANGED <<targets, behind, told, tally>>
  BY DEF Probe!Connect, UnderWay, Probe!Note, Probe!Quiet
<1>2. Probe!Permits(Probe!This.ip) /\ Probe!This.kind = "host"
  BY <1>1, UnderWayFacts DEF ProbeInv, GatePassed
<1>3. y.act = "connect" /\ y.at = target /\ y.of = Probe!This.ip
  OBVIOUS
<1> HIDE DEF y
<1>4. Probe!StaysInside' /\ \A x \in touched' : x.at \in DOMAIN targets
  BY <1>1, <1>2, <1>3, UnderWayFacts DEF Probe!StaysInside
<1>5. \E x \in touched' : x.at = target
  BY <1>1, <1>3
<1> QED
  BY <1>1, <1>4, <1>5, UnderWayFacts, ToTheNext

LEMMA LateAnswerStep == ASSUME ProbeInv, Probe!LateAnswer PROVE ProbeInv'
BY DEF Probe!LateAnswer, ProbeInv, Probe!TypeOK, GatePassed, UnderWay, Probe!StaysInside,
       HostsAccountedFor, Touched, ForeignReported, Probe!Codes

LEMMA ProbeConcludeStep == ASSUME ProbeInv, Probe!Conclude PROVE ProbeInv'
<1>1. /\ step = "target" /\ step' = "done" /\ target > Len(targets) /\ notes \subseteq notes'
      /\ UNCHANGED <<targets, asking, behind, touched, told, target, canonical, resolved, tally>>
  BY DEF Probe!Conclude, Probe!Same
<1>2. Probe!TypeOK' /\ GatePassed'
  BY <1>1 DEF ProbeInv, Probe!TypeOK, GatePassed, UnderWay
<1>3. HostsAccountedFor'
  BY <1>1, MoreNotes DEF ProbeInv, HostsAccountedFor, UnderWay
<1>4. ForeignReported'
  BY <1>1, MoreNotes DEF ProbeInv, ForeignReported
<1> QED
  BY <1>1, <1>2, <1>3, <1>4, TraceKept DEF ProbeInv

LEMMA ProbeNext == ProbeInv /\ Probe!Next => ProbeInv'
<1> SUFFICES ASSUME ProbeInv, Probe!Next PROVE ProbeInv'
  OBVIOUS
<1>1. ASSUME Probe!ForwardAnswered \/ Probe!ForwardDeadline PROVE ProbeInv'
  <2>1. [canon |-> "none", addr |-> "none"] \in Probe!Forward \cup Probe!NoForward
    BY DEF Probe!NoForward
  <2> QED BY <1>1, <2>1, TakeForwardStep DEF Probe!ForwardAnswered, Probe!ForwardDeadline
<1>2. ASSUME Probe!ReverseAnswered \/ Probe!ReverseDeadline PROVE ProbeInv'
  BY <1>2, TakeReverseStep DEF Probe!ReverseAnswered, Probe!ReverseDeadline, Probe!Pointers
<1> QED
  BY <1>1, <1>2, CheckSeamsStep, StartHostStep, StartApplianceStep, SkipStep, AskReverseStep, ConnectStep,
     LateAnswerStep, ProbeConcludeStep DEF Probe!Next, Probe!Own

LEMMA ProbeRest == ProbeInv /\ UNCHANGED probeVars => ProbeInv'
BY DEF probeVars, ProbeInv, Probe!TypeOK, GatePassed, UnderWay, Probe!StaysInside,
       HostsAccountedFor, Touched, ForeignReported, Probe!Codes

LEMMA ProbeProperties == ProbeInv => Probe!TypeOK /\ Probe!StaysInside /\ Probe!NoFalsePass
<1> SUFFICES ASSUME ProbeInv PROVE Probe!NoFalsePass
  BY DEF ProbeInv
<1>1. ASSUME step = "done", NEW h \in DOMAIN targets, targets[h].kind = "host",
             \A t \in DOMAIN targets : ~\E x \in touched : x.at = t
      PROVE  notes # {}
  <2>1. h \in 1 .. Len(targets) /\ Len(targets) \in Nat
    BY DEF ProbeInv
  <2>2. CASE target > Len(targets)
    <3>1. target \in Nat /\ h < target
      BY <2>1, <2>2 DEF ProbeInv, Probe!TypeOK
    <3> QED BY <3>1, <1>1 DEF ProbeInv, HostsAccountedFor, Touched
  <2>3. CASE ~(target > Len(targets))
    BY <2>3, <1>1 DEF ProbeInv
  <2> QED BY <2>2, <2>3
<1> QED
  BY <1>1 DEF Probe!NoFalsePass, ProbeInv, ForeignReported

-----------------------------------------------------------------------------
(* The depot.                                                              *)

Place == 1 .. Len(Files)
Probings == {"none", "error", "absent", "other_size", "right_size"}
\* What is being copied was found good, unless it was rewritten since.
CopiesTheVerified ==
    pc \in {"copy", "copying"} => at \in Place /\ (staged[Dep!f0] = "good" \/ Dep!f0 \in swapped)
\* What has been asked for was answered, or the question failed.
SurveyIsTrue ==
    pc = "survey" => \A k \in Place : k < at => row[Files[k]].probe \in {"error", Dep!Answer(Files[k])}
ConfirmedSoFar ==
    pc = "confirm" /\ ~fail => \A k \in Place : k < at => served[Files[k]] \in {"good", "wrong"}

DepotInv ==
    /\ Dep!TypeOK
    /\ knows \in [Dep!Names -> {"both", "no_size", "no_checksum"}] /\ swapped \subseteq Dep!Names
    /\ row \in [Dep!Names -> [probe : Probings, staged : BOOLEAN]] /\ fail \in BOOLEAN
    /\ Dep!FleetReadsWhole /\ Dep!VerdictIsFounded
    /\ pc # "idle" => verdict = "none"
    /\ CopiesTheVerified /\ SurveyIsTrue /\ ConfirmedSoFar

LEMMA FilesFacts ==
    /\ Len(Files) \in Nat /\ \A k \in Place : Files[k] \in Dep!Names
    /\ \A f \in Dep!Names : \E k \in Place : Files[k] = f
<1>1. Files \in Seq(Dep!Names)
  BY LabAssumption
<1>2. Dep!Names = {Files[k] : k \in DOMAIN Files}
  BY DEF Dep!Names, Dep!ToSet
<1> QED
  BY <1>1, <1>2 DEF Place

LEMMA DepotInit == Dep!Init => DepotInv
<1> SUFFICES ASSUME Dep!Init PROVE DepotInv
  OBVIOUS
<1>1. PICK s \in Starts : served = s.served /\ staged = s.staged /\ knows = s.knows
  BY DEF Dep!Init
<1>2. s \in Dep!Start
  BY LabAssumption
<1>3. /\ served \in [Dep!Names -> Dep!Contents] /\ staged \in [Dep!Names -> Dep!Contents]
      /\ knows \in [Dep!Names -> {"both", "no_size", "no_checksum"}]
  BY <1>1, <1>2 DEF Dep!Start
<1>4. Dep!TypeOK /\ row \in [Dep!Names -> [probe : Probings, staged : BOOLEAN]]
  BY <1>3, FilesFacts DEF Dep!Init, Dep!TypeOK, Dep!Contents, Dep!Unseen, Probings
<1> QED
  BY <1>3, <1>4 DEF Dep!Init, DepotInv, Dep!FleetReadsWhole, Dep!VerdictIsFounded, CopiesTheVerified,
                    SurveyIsTrue, ConfirmedSoFar

LEMMA BeginStep == ASSUME DepotInv, NEW c \in Dep!Commands, Dep!Begin(c) PROVE DepotInv'
<1>1. /\ at' = 1 /\ fail' = FALSE /\ row' = [f \in Dep!Names |-> Dep!Unseen] /\ swapped' = {}
      /\ before' = served /\ UNCHANGED <<served, staged, knows, scratch>>
      /\ (pc' = "survey" /\ verdict' = "none") \/ (pc' = "idle" /\ verdict' = "stopped")
  BY DEF Dep!Begin
<1>2. Dep!TypeOK' /\ (row \in [Dep!Names -> [probe : Probings, staged : BOOLEAN]])'
  BY <1>1, FilesFacts DEF DepotInv, Dep!TypeOK, Dep!Unseen, Probings
<1>3. Dep!FleetReadsWhole' /\ Dep!VerdictIsFounded'
  BY <1>1 DEF Dep!FleetReadsWhole, Dep!VerdictIsFounded
<1>4. SurveyIsTrue'
  BY <1>1 DEF SurveyIsTrue, Place
<1> QED
  BY <1>1, <1>2, <1>3, <1>4 DEF DepotInv, CopiesTheVerified, ConfirmedSoFar

\* Steps that write nothing of the world.
LEMMA WorldKept ==
    ASSUME DepotInv, UNCHANGED Dep!World, pc # "idle",
           pc' \in {"idle", "survey", "file", "copy", "copying", "confirm"}, at' \in 1 .. Len(Files) + 1,
           row' \in [Dep!Names -> [probe : Probings, staged : BOOLEAN]], fail' \in BOOLEAN,
           Dep!VerdictIsFounded', pc' # "idle" => verdict' = "none",
           CopiesTheVerified', SurveyIsTrue', ConfirmedSoFar'
    PROVE  DepotInv'
<1>1. UNCHANGED <<served, staged, knows, scratch, swapped, before>>
  BY DEF Dep!World
<1>2. Dep!TypeOK' /\ Dep!FleetReadsWhole'
  BY <1>1 DEF DepotInv, Dep!TypeOK, Dep!FleetReadsWhole
<1> QED
  BY <1>1, <1>2 DEF DepotInv

LEMMA DepotFacts ==
    ASSUME DepotInv
    PROVE  /\ served \in [Dep!Names -> Dep!Contents] /\ staged \in [Dep!Names -> Dep!Contents]
           /\ scratch \in [Dep!Names -> Dep!Contents]
           /\ pc \in {"idle", "survey", "file", "copy", "copying", "confirm"}
           /\ Len(Files) \in Nat /\ at \in 1 .. Len(Files) + 1
           /\ at <= Len(Files) => at \in Place /\ at + 1 \in 1 .. Len(Files) + 1 /\ Dep!f0 \in Dep!Names
BY FilesFacts DEF DepotInv, Dep!TypeOK, Dep!f0, Place

LEMMA SurveyStep == ASSUME DepotInv, Dep!Survey PROVE DepotInv'
<1>1. PICK p \in Dep!HeadOf(Dep!f0), b \in BOOLEAN : row' = [row EXCEPT ![Dep!f0] = [probe |-> p, staged |-> b]]
  BY DEF Dep!Survey
<1>2. /\ pc = "survey" /\ pc' = "survey" /\ at \in Place /\ at' = at + 1 /\ UNCHANGED <<count, cmd, fail, verdict>>
      /\ UNCHANGED Dep!World /\ UNCHANGED served /\ Dep!f0 \in Dep!Names /\ at' \in 1 .. Len(Files) + 1
  BY DepotFacts DEF Dep!Survey, Dep!World
<1>3. p \in {Dep!Answer(Dep!f0), "error"} /\ p \in Probings
  BY <1>1 DEF Dep!HeadOf, Dep!Failed, Dep!Answer, Probings
<1>4. /\ row' \in [Dep!Names -> [probe : Probings, staged : BOOLEAN]] /\ row'[Dep!f0].probe = p
      /\ \A f \in Dep!Names : f # Dep!f0 => row'[f] = row[f]
  BY <1>1, <1>2, <1>3, DepotFacts DEF DepotInv
<1>5. SurveyIsTrue'
  <2> SUFFICES ASSUME NEW k \in Place, k < at' PROVE row'[Files[k]].probe \in {"error", Dep!Answer(Files[k])'}
    BY DEF SurveyIsTrue, Place
  <2>0. Dep!Answer(Files[k])' = Dep!Answer(Files[k])
    BY <1>2 DEF Dep!Answer
  <2>1. CASE Files[k] = Dep!f0
    BY <2>0, <2>1, <1>3, <1>4
  <2>2. CASE Files[k] # Dep!f0
    <3>1. k < at
      BY <2>2, <1>2 DEF Dep!f0, Place
    <3>2. row[Files[k]].probe \in {"error", Dep!Answer(Files[k])}
      BY <3>1, <1>2 DEF DepotInv, SurveyIsTrue
    <3> QED BY <3>2, <2>0, <2>2, <1>4, FilesFacts
  <2> QED BY <2>1, <2>2
<1>6. Dep!VerdictIsFounded' /\ verdict' = "none" /\ fail' \in BOOLEAN
  BY <1>2 DEF DepotInv, Dep!VerdictIsFounded
<1> QED
  BY <1>2, <1>4, <1>5, <1>6, WorldKept, DepotFacts DEF CopiesTheVerified, ConfirmedSoFar

\* What an audit concludes is what the depot answered.
LEMMA DepotConcludeStep == ASSUME DepotInv, Dep!Conclude PROVE DepotInv'
<1>1. /\ pc = "survey" /\ pc' = "idle" /\ at > Len(Files) /\ UNCHANGED <<count, cmd, at, row, fail>>
      /\ UNCHANGED Dep!World /\ UNCHANGED <<served, knows>>
      /\ verdict' = IF cmd = "plan" THEN "none"
                    ELSE IF \E f \in Dep!Names : Dep!Unknown(f) THEN "indeterminate"
                    ELSE IF \E f \in Dep!Names : Dep!Missing(f) THEN "incomplete" ELSE "complete"
  BY DEF Dep!Conclude, Dep!World
<1>2. \A f \in Dep!Names : row[f].probe \in {"error", Dep!Answer(f)}
  <2> TAKE f \in Dep!Names
  <2>1. PICK k \in Place : Files[k] = f
    BY FilesFacts
  <2>2. k < at
    BY <1>1, FilesFacts, DepotFacts DEF Place
  <2> QED BY <2>1, <2>2, <1>1 DEF DepotInv, SurveyIsTrue
<1>3. \A f \in Dep!Names : served[f] \in Dep!Contents
  BY DepotFacts
<1>4. verdict' = "complete" => \A f \in Dep!Names : served'[f] \in {"good", "wrong"}
  BY <1>1, <1>2, <1>3 DEF Dep!Unknown, Dep!Missing, Dep!Published, Dep!Answer, Dep!Contents
<1>5. verdict' = "incomplete" => \E f \in Dep!Names : served'[f] \in {"absent", "short"}
  BY <1>1, <1>2, <1>3 DEF Dep!Unknown, Dep!Missing, Dep!Published, Dep!Answer, Dep!Contents
<1>6. Dep!VerdictIsFounded'
  BY <1>1, <1>4, <1>5 DEF Dep!VerdictIsFounded
<1> QED
  BY <1>1, <1>6, DepotFacts, WorldKept DEF DepotInv, CopiesTheVerified, SurveyIsTrue, ConfirmedSoFar

\* Steps from file to file of a publish.
LEMMA FileStep ==
    ASSUME DepotInv, Dep!StartPublishing \/ Dep!Pass \/ Dep!Verify \/ Dep!Kill
    PROVE  DepotInv'
<1>0. UNCHANGED Dep!World /\ UNCHANGED <<row, count, cmd>> /\ pc \in {"survey", "file", "copying", "confirm"}
  BY DEF Dep!StartPublishing, Dep!Pass, Dep!Verify, Dep!Kill
<1>1. UNCHANGED <<served, staged, swapped>>
  BY <1>0 DEF Dep!World
<1>2. at' \in 1 .. Len(Files) + 1 /\ fail' \in BOOLEAN /\ pc' \in {"idle", "file", "copy"}
  <2>1. ASSUME Dep!StartPublishing \/ Dep!Kill PROVE at' \in 1 .. Len(Files) + 1 /\ fail' \in BOOLEAN /\ pc' \in {"idle", "file"}
    BY <2>1, DepotFacts DEF Dep!StartPublishing, Dep!Kill, DepotInv
  <2>2. ASSUME Dep!Pass PROVE at' \in 1 .. Len(Files) + 1 /\ fail' \in BOOLEAN /\ pc' = "file"
    BY <2>2, DepotFacts DEF Dep!Pass
  <2>3. ASSUME Dep!Verify PROVE at' \in 1 .. Len(Files) + 1 /\ fail' \in BOOLEAN /\ pc' \in {"file", "copy"}
    BY <2>3, DepotFacts DEF Dep!Verify, DepotInv
  <2> QED BY <2>1, <2>2, <2>3
<1>3. CopiesTheVerified'
  <2> SUFFICES ASSUME pc' = "copy" PROVE at' \in Place /\ staged'[Dep!f0'] = "good"
    BY <1>2 DEF CopiesTheVerified, Place
  <2>1. Dep!Verify /\ at' = at /\ Dep!Verified(Dep!f0) /\ at <= Len(Files)
    BY DEF Dep!StartPublishing, Dep!Pass, Dep!Verify, Dep!Kill
  <2> QED BY <2>1, <1>1, DepotFacts DEF Dep!Verified, Dep!f0
<1>4. verdict' \in {"none", "killed"} /\ (pc' # "idle" => verdict' = "none")
  BY <1>0 DEF DepotInv, Dep!StartPublishing, Dep!Pass, Dep!Verify, Dep!Kill
<1>5. Dep!VerdictIsFounded'
  BY <1>4 DEF Dep!VerdictIsFounded
<1>6. row' \in [Dep!Names -> [probe : Probings, staged : BOOLEAN]]
  BY <1>0 DEF DepotInv
<1> QED
  BY <1>0, <1>2, <1>3, <1>4, <1>5, <1>6, WorldKept DEF SurveyIsTrue, ConfirmedSoFar

LEMMA EndOfFilesStep == ASSUME DepotInv, Dep!EndOfFiles PROVE DepotInv'
<1>1. /\ pc = "file" /\ UNCHANGED Dep!World /\ UNCHANGED <<count, cmd, row, fail>> /\ verdict = "none"
      /\ \/ cmd = "publish" /\ ~fail /\ pc' = "confirm" /\ at' = 1 /\ verdict' = verdict
         \/ /\ pc' = "idle" /\ at' = at
            /\ verdict' = "problems" \/ (verdict' = "consistent" /\ cmd' # "publish")
  BY DEF DepotInv, Dep!EndOfFiles
<1>2. Dep!VerdictIsFounded'
  BY <1>1 DEF Dep!VerdictIsFounded
<1>3. ConfirmedSoFar' /\ SurveyIsTrue' /\ CopiesTheVerified'
  BY <1>1 DEF ConfirmedSoFar, SurveyIsTrue, CopiesTheVerified, Place
<1>4. at' \in 1 .. Len(Files) + 1 /\ fail' \in BOOLEAN /\ row' \in [Dep!Names -> [probe : Probings, staged : BOOLEAN]]
  BY <1>1, DepotFacts DEF DepotInv
<1> QED
  BY <1>1, <1>2, <1>3, <1>4, WorldKept

LEMMA ConfirmStep == ASSUME DepotInv, Dep!Confirm PROVE DepotInv'
<1>1. PICK p \in Dep!HeadOf(Dep!f0) : fail' = (fail \/ p # "right_size")
  BY DEF Dep!Confirm
<1>2. /\ pc = "confirm" /\ pc' = "confirm" /\ at \in Place /\ at' = at + 1 /\ UNCHANGED Dep!World
      /\ UNCHANGED <<served, row, verdict>> /\ verdict = "none" /\ Dep!f0 \in Dep!Names
  BY DepotFacts DEF Dep!Confirm, Dep!World, DepotInv
<1>3. p = "right_size" => served[Dep!f0] \in {"good", "wrong"}
  BY <1>2, DepotFacts DEF Dep!HeadOf, Dep!Failed, Dep!Answer, Dep!Contents
<1>4. ConfirmedSoFar'
  <2> SUFFICES ASSUME ~fail', NEW k \in Place, k < at' PROVE served[Files[k]] \in {"good", "wrong"}
    BY <1>2 DEF ConfirmedSoFar, Place
  <2>1. CASE k = at
    BY <2>1, <1>1, <1>3 DEF Dep!f0
  <2>2. CASE k < at
    BY <2>2, <1>1, <1>2 DEF DepotInv, ConfirmedSoFar
  <2> QED BY <2>1, <2>2, <1>2 DEF Place
<1>5. fail' \in BOOLEAN /\ Dep!VerdictIsFounded' /\ at' \in 1 .. Len(Files) + 1
      /\ row' \in [Dep!Names -> [probe : Probings, staged : BOOLEAN]]
  BY <1>1, <1>2, DepotFacts DEF DepotInv, Dep!VerdictIsFounded, Place
<1> QED
  BY <1>2, <1>4, <1>5, WorldKept DEF CopiesTheVerified, SurveyIsTrue

LEMMA ConfirmedStep == ASSUME DepotInv, Dep!Confirmed PROVE DepotInv'
<1>1. /\ pc = "confirm" /\ pc' = "idle" /\ at > Len(Files) /\ UNCHANGED Dep!World
      /\ UNCHANGED <<served, cmd, at, row, fail>> /\ verdict' = IF fail THEN "problems" ELSE "consistent"
  BY DEF Dep!Confirmed, Dep!World
<1>2. ~fail => \A f \in Dep!Names : served[f] \in {"good", "wrong"}
  <2> SUFFICES ASSUME ~fail, NEW f \in Dep!Names PROVE served[f] \in {"good", "wrong"}
    OBVIOUS
  <2>1. PICK k \in Place : Files[k] = f
    BY FilesFacts
  <2>2. k < at
    BY <1>1, FilesFacts, DepotFacts DEF Place
  <2> QED BY <2>1, <2>2, <1>1 DEF DepotInv, ConfirmedSoFar
<1>3. Dep!VerdictIsFounded'
  BY <1>1, <1>2 DEF Dep!VerdictIsFounded
<1> QED
  BY <1>1, <1>3, WorldKept, DepotFacts DEF DepotInv, CopiesTheVerified, SurveyIsTrue, ConfirmedSoFar

LEMMA StagingStep ==
    ASSUME DepotInv, NEW f \in Dep!Names, NEW c \in Dep!Contents, Dep!StagingChanges(f, c)
    PROVE  DepotInv'
<1>1. /\ pc \in {"file", "copy", "copying"} /\ swapped = {} /\ swapped' = {f}
      /\ staged' = [staged EXCEPT ![f] = c]
      /\ UNCHANGED <<served, knows, scratch, count, cmd, at, pc, row, fail, verdict, before>>
  BY DEF Dep!StagingChanges
<1>2. Dep!TypeOK' /\ Dep!FleetReadsWhole' /\ Dep!VerdictIsFounded'
  BY <1>1 DEF DepotInv, Dep!TypeOK, Dep!FleetReadsWhole, Dep!VerdictIsFounded
<1>3. CopiesTheVerified'
  BY <1>1, DepotFacts DEF DepotInv, CopiesTheVerified, Dep!f0
<1> QED
  BY <1>1, <1>2, <1>3 DEF DepotInv, SurveyIsTrue, ConfirmedSoFar

LEMMA CopyStep ==
    ASSUME DepotInv, Dep!StartCopy \/ Dep!FinishCopy \/ (\E interrupted \in BOOLEAN : Dep!AbortCopy(interrupted))
    PROVE  DepotInv'
<1>1. /\ pc \in {"copy", "copying"} /\ at \in Place /\ Dep!f0 \in Dep!Names
      /\ staged[Dep!f0] = "good" \/ Dep!f0 \in swapped
  BY DepotFacts DEF DepotInv, CopiesTheVerified, Place, Dep!StartCopy, Dep!FinishCopy, Dep!AbortCopy
<1>2. /\ UNCHANGED <<staged, knows, swapped, before, count, cmd, row, verdict>> /\ verdict = "none"
      /\ scratch' \in [Dep!Names -> Dep!Contents] /\ pc' \in {"file", "copying"} /\ fail' \in BOOLEAN
      /\ at' \in 1 .. Len(Files) + 1 /\ (pc' = "copying" => at' = at)
  <2>0. /\ verdict = "none" /\ fail \in BOOLEAN /\ scratch \in [Dep!Names -> Dep!Contents]
        /\ at + 1 \in 1 .. Len(Files) + 1 /\ Len(Files) + 1 \in 1 .. Len(Files) + 1 /\ at \in 1 .. Len(Files) + 1
    BY <1>1, DepotFacts DEF DepotInv, Place
  <2>1. ASSUME scratch' = [scratch EXCEPT ![Dep!f0] = "short"] \/ scratch' = [scratch EXCEPT ![Dep!f0] = "absent"]
        PROVE  scratch' \in [Dep!Names -> Dep!Contents]
    BY <1>1, <2>0, <2>1 DEF Dep!Contents
  <2>2. CASE Dep!StartCopy
    BY <2>0, <2>1, <2>2 DEF Dep!StartCopy
  <2>3. CASE Dep!FinishCopy
    BY <2>0, <2>1, <2>3 DEF Dep!FinishCopy
  <2>4. CASE \E interrupted \in BOOLEAN : Dep!AbortCopy(interrupted)
    BY <2>0, <2>1, <2>4 DEF Dep!AbortCopy
  <2> QED BY <2>2, <2>3, <2>4
<1>3. served' \in [Dep!Names -> Dep!Contents] /\ Dep!FleetReadsWhole'
  <2>1. CASE served' = served
    BY <2>1, <1>2, DepotFacts DEF DepotInv, Dep!FleetReadsWhole
  <2>2. CASE served' = [served EXCEPT ![Dep!f0] = staged[Dep!f0]] /\ staged[Dep!f0] \in {"good", "wrong"}
    BY <2>2, <1>1, <1>2, DepotFacts DEF DepotInv, Dep!FleetReadsWhole, Dep!Contents
  <2> QED BY <2>1, <2>2 DEF Dep!StartCopy, Dep!FinishCopy, Dep!AbortCopy
<1>4. Dep!TypeOK' /\ Dep!VerdictIsFounded'
  BY <1>2, <1>3 DEF DepotInv, Dep!TypeOK, Dep!VerdictIsFounded
<1>5. CopiesTheVerified'
  BY <1>1, <1>2 DEF CopiesTheVerified, Dep!f0
<1> QED
  BY <1>2, <1>3, <1>4, <1>5 DEF DepotInv, SurveyIsTrue, ConfirmedSoFar

LEMMA DepotNext == DepotInv /\ Dep!Next => DepotInv'
<1> SUFFICES ASSUME DepotInv, Dep!Next PROVE DepotInv'
  OBVIOUS
<1> QED
  BY BeginStep, SurveyStep, DepotConcludeStep, FileStep, EndOfFilesStep, ConfirmStep, ConfirmedStep,
     StagingStep, CopyStep DEF Dep!Next

LEMMA DepotRest == DepotInv /\ UNCHANGED depotVars => DepotInv'
BY DEF depotVars, DepotInv, Dep!TypeOK, Dep!FleetReadsWhole, Dep!VerdictIsFounded, CopiesTheVerified,
       Dep!f0, SurveyIsTrue, Dep!Answer, ConfirmedSoFar

-----------------------------------------------------------------------------
(* The two front doors.                                                    *)

Layers == {"idle", "args", "schema", "rules", "validate", "render", "provision", "verify", "answered"}
NotInASpec == {"VCF-SCHEMA", "VCF-RENDER-UNDECLARED-FIELD", "VCF-SCHEMA-INTEGRITY"}
\* Every pointer the schema layer failed at has a finding, and a literal
\* credential a critical one.
SchemaReported ==
    /\ \A p \in bad : Svc!Finding("VCF-INV-SCHEMA", "error", p) \in found
    /\ call.literal => Svc!Critical(found)
    /\ \A f \in found : f.code \notin NotInASpec

\* How far a call has come says what it ran and what it found.
CallSoFar ==
    /\ layer = "idle" =>
          bad = {} /\ found = {} /\ ruled = {} /\ ran = {} /\ skipped = {} /\ out = Svc!NoOut
    /\ layer # "idle" => call \in Svc!Calls
    /\ layer \in {"args", "schema"} =>
          bad = {} /\ found = {} /\ ruled = {} /\ ran = {"detect"} /\ skipped = {}
    /\ layer = "schema" => Svc!Kind(call) # "neither" /\ (call.tool # "validate" => Svc!Kind(call) = "inventory")
    /\ layer \in {"rules", "validate", "render", "provision", "verify"} =>
          Svc!Kind(call) = "inventory" /\ SchemaReported
    /\ layer = "rules" => ruled = {} /\ ran = {"detect", "schema"} /\ skipped = {}
    /\ layer \in {"validate", "render", "provision"} =>
          layer = call.tool /\ ran = {"detect", "schema", "rules"}
          /\ skipped \subseteq {"rules"} /\ (layer # "validate" => skipped = {})
    /\ layer = "verify" =>
          call.tool = "render" /\ ~call.literal /\ skipped = {} /\ ran = {"detect", "schema", "rules", "render"}

Dropped ==
    \A f \in ruled \ found :
        /\ call.tool = "validate" /\ "rules" \in skipped
        /\ \E g \in found : g.code = "VCF-INV-SCHEMA" /\ g.at # Svc!Root /\ Svc!IsPrefix(g.at, f.at)

SvcInv ==
    /\ Svc!TypeOK /\ layer \in Layers /\ CallSoFar /\ Dropped
    /\ schemaCache \in {"none", "vendored"}
    /\ out.given <=> layer = "answered"
    /\ Svc!ValidIsEarned /\ Svc!SpecIsVerified

LEMMA SvcInit == Svc!Init => SvcInv
BY LabAssumption DEF Svc!Init, SvcInv, Svc!TypeOK, CallSoFar, Dropped, Layers, Svc!NoOut, Svc!ValidIsEarned,
                     Svc!SpecIsVerified, Svc!Answered

LEMMA CallTypes ==
    ASSUME SvcInv, layer # "idle"
    PROVE  /\ call \in Svc!Calls /\ call.tool \in Svc!Tools /\ call.literal \in BOOLEAN /\ call.args \in BOOLEAN
           /\ Svc!Kind(call) \in {"inventory", "sddc_spec", "neither"}
<1>1. call \in Svc!Calls
  BY DEF SvcInv, CallSoFar
<1> QED
  BY <1>1 DEF Svc!Calls, Svc!Kind

LEMMA ArriveStep == ASSUME SvcInv, NEW c \in Svc!Calls, Svc!Arrive(c) PROVE SvcInv'
<1>1. /\ layer = "idle" /\ layer' = "args" /\ call' = c /\ ran' = {"detect"} /\ calls' = calls + 1
      /\ calls < MaxCalls /\ UNCHANGED <<schemaFile, schemaCache, bad, found, ruled, skipped, out>>
      /\ bad = {} /\ found = {} /\ ruled = {} /\ skipped = {} /\ out = Svc!NoOut
  BY DEF Svc!Arrive, SvcInv, CallSoFar
<1>2. Svc!TypeOK'
  BY <1>1, LabAssumption DEF SvcInv, Svc!TypeOK
<1> QED
  BY <1>1, <1>2 DEF SvcInv, CallSoFar, Dropped, Layers, Svc!NoOut, Svc!ValidIsEarned, Svc!SpecIsVerified,
                    Svc!Answered

LEMMA ReturnStep == ASSUME SvcInv, Svc!Return PROVE SvcInv'
BY DEF Svc!Return, SvcInv, Svc!TypeOK, CallSoFar, Dropped, Layers, Svc!NoOut, Svc!ValidIsEarned,
       Svc!SpecIsVerified, Svc!Answered, Svc!Idle

LEMMA TamperStep == ASSUME SvcInv, Svc!Tamper PROVE SvcInv'
BY DEF Svc!Tamper, SvcInv, Svc!TypeOK, CallSoFar, Dropped, SchemaReported, Svc!ValidIsEarned,
       Svc!SpecIsVerified, Svc!Answered

LEMMA SvcRest == SvcInv /\ UNCHANGED specVars => SvcInv'
BY DEF specVars, SvcInv, Svc!TypeOK, CallSoFar, Dropped, SchemaReported, Svc!ValidIsEarned,
       Svc!SpecIsVerified, Svc!Answered

\* An answer is valid iff nothing blocks it, and something blocks it when no
\* layer ran.
LEMMA AnswerFacts ==
    ASSUME NEW fs, NEW layers, NEW skips, NEW given \in BOOLEAN, Svc!Answer(fs, layers, skips, given)
    PROVE  /\ fs \subseteq found' /\ ran' = layers /\ skipped' = skips /\ layer' = "answered"
           /\ UNCHANGED <<calls, schemaFile, schemaCache, call, bad, ruled>>
           /\ out'.given /\ out'.files = given /\ out'.valid \in BOOLEAN
           /\ out'.exit \in 0..2 /\ (out'.valid <=> out'.exit = 0)
           /\ out'.valid => ~Svc!Blocking(found') /\ ~Svc!Blocking(fs) /\ layers # {"detect"}
           /\ \A f \in found' \ fs : f.code = "VCF-NO-VALIDATION-RAN"
<1> DEFINE final == Svc!Refused(fs, layers)
           ok    == ~Svc!Blocking(final)
           no    == Svc!Finding("VCF-NO-VALIDATION-RAN", "error", Svc!Root)
<1>1. /\ out' = [given |-> TRUE, valid |-> ok, files |-> given, exit |-> IF ok THEN 0 ELSE 1]
      /\ found' = final /\ ran' = layers /\ skipped' = skips /\ layer' = "answered"
      /\ UNCHANGED <<calls, schemaFile, schemaCache, call, bad, ruled>>
  BY DEF Svc!Answer, Svc!Unlooked
<1>2. no.code = "VCF-NO-VALIDATION-RAN" /\ no.sev = "error"
  BY DEF Svc!Finding
<1>3. final = fs \/ final = fs \cup {no}
  BY DEF Svc!Refused
<1>4. ~Svc!Blocking(fs) /\ layers = {"detect"} => final = fs \cup {no}
  BY DEF Svc!Refused
<1>5. Svc!Blocking(fs) => final = fs
  BY DEF Svc!Refused
<1> HIDE DEF final, no
<1>6. ok => ~Svc!Blocking(fs) /\ layers # {"detect"}
  BY <1>2, <1>3, <1>4, <1>5 DEF Svc!Blocking
<1>7. ok \in BOOLEAN /\ (ok => ~Svc!Blocking(final))
  OBVIOUS
<1> HIDE DEF ok
<1>8. /\ out'.given /\ out'.files = given /\ out'.valid = ok /\ out'.exit \in 0..2
      /\ ok <=> out'.exit = 0
  BY <1>1, <1>7
<1>9. fs \subseteq found' /\ \A f \in found' \ fs : f.code = "VCF-NO-VALIDATION-RAN"
  BY <1>1, <1>2, <1>3
<1> QED
  BY <1>1, <1>6, <1>7, <1>8, <1>9

\* A step that answers: what it must account for.
LEMMA Answering ==
    ASSUME SvcInv, layer \notin {"idle", "answered"}, layer' = "answered",
           UNCHANGED <<calls, call>>, bad' \subseteq DocumentPlaces, schemaCache' \in {"none", "vendored"},
           out'.given, out'.files \in BOOLEAN, out'.valid \in BOOLEAN, out'.exit \in 0..2,
           out'.valid <=> out'.exit = 0,
           ran' \cap skipped' \subseteq {"rules"}, Dropped',
           out'.valid => /\ ran' \ {"detect"} # {} /\ ~call.literal /\ ~Svc!Blocking(found')
                         /\ Svc!Kind(call) # "neither" /\ Svc!LayersOf(call.tool) \subseteq ran' \cup skipped',
           call.literal => ~out'.files,
           call.tool = "render" /\ out'.files =>
               /\ {"render", "verify"} \subseteq ran' /\ schemaCache' = "vendored"
               /\ ~\E f \in found' : f.code \in NotInASpec
    PROVE  SvcInv'
<1>1. Svc!TypeOK'
  BY DEF SvcInv, Svc!TypeOK
<1>2. CallSoFar'
  BY DEF SvcInv, CallSoFar
<1>3. Svc!ValidIsEarned' /\ Svc!SpecIsVerified'
  BY DEF Svc!ValidIsEarned, Svc!SpecIsVerified, NotInASpec
<1> QED
  BY <1>1, <1>2, <1>3 DEF SvcInv, Layers

\* A step to the next layer.
LEMMA ToALayer ==
    ASSUME SvcInv, layer \notin {"idle", "answered"}, layer' \in Layers \ {"idle", "answered"},
           UNCHANGED <<calls, call, schemaCache, out>>, bad' \subseteq DocumentPlaces,
           ran' \cap skipped' \subseteq {"rules"}, CallSoFar', Dropped'
    PROVE  SvcInv'
<1>1. Svc!TypeOK'
  BY DEF SvcInv, Svc!TypeOK
<1>2. Svc!ValidIsEarned' /\ Svc!SpecIsVerified'
  BY DEF SvcInv, Svc!ValidIsEarned, Svc!SpecIsVerified, Svc!Answered
<1> QED
  BY <1>1, <1>2 DEF SvcInv

\* Before the schema layer there is nothing to drop, and only a refusal to say.
LEMMA RefusedEarly ==
    ASSUME SvcInv, Svc!BadArgs \/ Svc!Unreadable \/ Svc!UnknownKind \/ Svc!WrongKind
    PROVE  SvcInv'
<1>1. /\ layer = "args" /\ bad = {} /\ found = {} /\ ruled = {} /\ ran = {"detect"} /\ skipped = {}
  BY DEF SvcInv, CallSoFar, Svc!BadArgs, Svc!Unreadable, Svc!UnknownKind, Svc!WrongKind, Svc!Detected
<1>2. call \in Svc!Calls /\ call.tool \in Svc!Tools
  BY <1>1, CallTypes
<1>3. CASE Svc!BadArgs
  <2>1. /\ layer' = "answered" /\ ran' = {} /\ skipped' = {}
        /\ out' = [given |-> TRUE, valid |-> FALSE, files |-> FALSE, exit |-> 2]
        /\ UNCHANGED <<calls, schemaFile, schemaCache, call, bad, ruled>>
    BY <1>3 DEF Svc!BadArgs, Svc!Unlooked
  <2>2. Dropped'
    BY <1>1, <2>1 DEF Dropped
  <2>3. /\ out'.given /\ out'.valid = FALSE /\ out'.files = FALSE /\ out'.exit = 2
    BY <2>1
  <2> QED BY <1>1, <1>2, <2>1, <2>2, <2>3, Answering DEF SvcInv
<1>4. CASE Svc!Unreadable \/ Svc!UnknownKind \/ Svc!WrongKind
  <2>0. PICK c, s : /\ s \in {"critical", "error"}
                    /\ Svc!Answer({Svc!Finding(c, s, Svc!Root)}, ran, Svc!LayersOf(call.tool), FALSE)
    BY <1>4 DEF Svc!Unreadable, Svc!UnknownKind, Svc!WrongKind
  <2> DEFINE f == Svc!Finding(c, s, Svc!Root)
  <2>1. f.sev \in {"critical", "error"} /\ Svc!Answer({f}, ran, Svc!LayersOf(call.tool), FALSE)
    BY <2>0 DEF Svc!Finding
  <2> HIDE DEF f
  <2>2. /\ layer' = "answered" /\ ran' = {"detect"} /\ skipped' = Svc!LayersOf(call.tool)
        /\ UNCHANGED <<calls, schemaFile, schemaCache, call, bad, ruled>>
        /\ out'.given /\ out'.files = FALSE /\ out'.valid \in BOOLEAN
        /\ out'.exit \in 0..2 /\ (out'.valid <=> out'.exit = 0)
        /\ out'.valid => {"detect"} # {"detect"}
    <3>1. /\ ran' = ran /\ skipped' = Svc!LayersOf(call.tool) /\ layer' = "answered"
          /\ UNCHANGED <<calls, schemaFile, schemaCache, call, bad, ruled>>
          /\ out'.given /\ out'.files = FALSE /\ out'.valid \in BOOLEAN
          /\ out'.exit \in 0..2 /\ (out'.valid <=> out'.exit = 0)
          /\ out'.valid => ran # {"detect"}
      BY <2>1, AnswerFacts
    <3> QED BY <1>1, <3>1
  <2>3. Dropped'
    BY <1>1, <2>2 DEF Dropped
  <2>4. ran' \cap skipped' \subseteq {"rules"}
    BY <1>2, <2>2 DEF Svc!LayersOf, Svc!Tools
  <2> QED BY <1>1, <1>2, <2>2, <2>3, <2>4, Answering DEF SvcInv
<1> QED
  BY <1>3, <1>4

LEMMA ToSchemaStep == ASSUME SvcInv, Svc!ToSchema PROVE SvcInv'
<1>1. /\ layer = "args" /\ layer' = "schema"
      /\ UNCHANGED <<calls, schemaFile, schemaCache, call, bad, ruled, found, ran, skipped, out>>
      /\ Svc!Kind(call) = "inventory" \/ (Svc!Kind(call) = "sddc_spec" /\ call.tool = "validate")
  BY DEF Svc!ToSchema, Svc!Detected, Svc!Unlooked
<1>2. CallSoFar'
  BY <1>1 DEF SvcInv, CallSoFar
<1> QED
  BY <1>1, <1>2, ToALayer DEF SvcInv, Svc!TypeOK, Layers, Dropped

LEMMA SchemaFindingsFacts ==
    ASSUME NEW ps, NEW c
    PROVE  /\ \A p \in ps : Svc!Finding(c, "error", p) \in Svc!SchemaFindings(ps, c)
           /\ \A f \in Svc!SchemaFindings(ps, c) : f.code = c /\ f.sev = "error"
BY DEF Svc!SchemaFindings, Svc!Finding

LEMMA CredentialFacts ==
    /\ call.literal => Svc!Critical(Svc!CredentialFindings)
    /\ \A f \in Svc!CredentialFindings : f.code = "VCF-CRED-NOT-A-REFERENCE"
<1> DEFINE f == Svc!Finding("VCF-CRED-NOT-A-REFERENCE", "critical", <<"credentials">>)
<1>1. f.code = "VCF-CRED-NOT-A-REFERENCE" /\ f.sev = "critical"
  BY DEF Svc!Finding
<1>2. Svc!CredentialFindings = IF call.literal THEN {f} ELSE {}
  BY DEF Svc!CredentialFindings
<1> HIDE DEF f
<1> QED BY <1>1, <1>2 DEF Svc!Critical

LEMMA InventorySchemaStep ==
    ASSUME SvcInv, NEW ps \in SUBSET DocumentPlaces, Svc!InventorySchema(ps)
    PROVE  SvcInv'
<1> DEFINE schema == Svc!SchemaFindings(ps, "VCF-INV-SCHEMA")
           info   == IF call.tool = "validate" /\ call.version # "default"
                     THEN {Svc!Finding("VCF-VERSION-NOT-CONSULTED", "info", Svc!Root)} ELSE {}
<1>1. /\ layer = "schema" /\ layer' = "rules" /\ Svc!Kind(call) = "inventory" /\ bad' = ps
      /\ found' = schema \cup Svc!CredentialFindings \cup info
      /\ ran' = ran \cup {"schema"} /\ UNCHANGED <<calls, schemaFile, schemaCache, call, ruled, skipped, out>>
  BY DEF Svc!InventorySchema
<1>2. ran = {"detect"} /\ ruled = {} /\ skipped = {} /\ call \in Svc!Calls
  BY <1>1 DEF SvcInv, CallSoFar
<1>3. \A f \in info : f.code = "VCF-VERSION-NOT-CONSULTED"
  BY DEF Svc!Finding
<1>4. /\ \A p \in ps : Svc!Finding("VCF-INV-SCHEMA", "error", p) \in schema
      /\ \A f \in schema : f.code = "VCF-INV-SCHEMA"
  BY SchemaFindingsFacts
<1> HIDE DEF schema, info
<1>5. SchemaReported'
  <2>1. call.literal => Svc!Critical(found')
    BY <1>1, CredentialFacts DEF Svc!Critical
  <2>2. \A f \in found' : f.code \notin NotInASpec
    BY <1>1, <1>3, <1>4, CredentialFacts DEF NotInASpec
  <2>3. Svc!Critical(found)' = Svc!Critical(found')
    BY DEF Svc!Critical
  <2>4. \A p \in bad' : Svc!Finding("VCF-INV-SCHEMA", "error", p) \in found'
    BY <1>1, <1>4
  <2> QED BY <2>1, <2>2, <2>3, <2>4, <1>1 DEF SchemaReported, Svc!Critical
<1>6. CallSoFar'
  BY <1>1, <1>2, <1>5 DEF CallSoFar
<1> QED
  BY <1>1, <1>2, <1>6, ToALayer DEF Layers, Dropped

\* load_schema() keeps only the text it has verified.
LEMMA CacheStaysVendored ==
    ASSUME SvcInv, NEW c, Svc!LoadVerified(c) \/ UNCHANGED schemaCache
    PROVE  schemaCache' \in {"none", "vendored"}
BY DEF SvcInv, Svc!LoadVerified

LEMMA RefusedBlocks ==
    /\ \A f \in Svc!SchemaRefused : f.sev \in {"critical", "error"}
    /\ Svc!SchemaRefused = {} /\ call.version # "unknown" => schemaCache' # "none"
<1>1. \A c, s, p : Svc!Finding(c, s, p).sev = s
  BY DEF Svc!Finding
<1>2. CASE call.version = "unknown"
  BY <1>1, <1>2 DEF Svc!SchemaRefused
<1>3. CASE call.version # "unknown" /\ schemaCache' = "none"
  BY <1>1, <1>3 DEF Svc!SchemaRefused
<1>4. CASE call.version # "unknown" /\ schemaCache' # "none"
  BY <1>4 DEF Svc!SchemaRefused
<1> QED
  BY <1>2, <1>3, <1>4

LEMMA SpecSchemaStep ==
    ASSUME SvcInv, NEW ps \in SUBSET DocumentPlaces, Svc!SpecSchema(ps)
    PROVE  SvcInv'
<1>1. PICK all : /\ Svc!CredentialFindings \subseteq all /\ found' = all
                 /\ out' = [given |-> TRUE, valid |-> ~Svc!Blocking(all), files |-> FALSE,
                            exit |-> IF Svc!Blocking(all) THEN 1 ELSE 0]
  BY DEF Svc!SpecSchema
<1>2. /\ layer = "schema" /\ layer' = "answered" /\ Svc!Kind(call) = "sddc_spec" /\ bad' \subseteq DocumentPlaces
      /\ ran' = ran \cup {"schema"} /\ skipped' = {"rules", "probes"} /\ UNCHANGED <<calls, schemaFile, call, ruled>>
      /\ Svc!LoadVerified(call) \/ UNCHANGED schemaCache
  BY DEF Svc!SpecSchema
<1>3. ran = {"detect"} /\ ruled = {} /\ call.tool = "validate" /\ call.literal \in BOOLEAN
  BY <1>2, CallTypes DEF SvcInv, CallSoFar
<1>4. schemaCache' \in {"none", "vendored"}
  BY <1>2, CacheStaysVendored
<1>5. ~Svc!Blocking(all) => ~call.literal
  BY <1>1, CredentialFacts DEF Svc!Blocking, Svc!Critical
<1>6. /\ out'.given /\ out'.files = FALSE /\ out'.valid = ~Svc!Blocking(all) /\ out'.exit \in 0..2
      /\ out'.exit = 0 <=> ~Svc!Blocking(all)
  BY <1>1
<1>7. /\ Svc!LayersOf(call.tool) \subseteq ran' \cup skipped' /\ ran' \ {"detect"} # {}
      /\ ran' \cap skipped' \subseteq {"rules"} /\ call.tool # "render"
  BY <1>2, <1>3 DEF Svc!LayersOf
<1>8. Dropped'
  BY <1>2, <1>3 DEF Dropped
<1> HIDE DEF SvcInv
<1> QED
  BY <1>1, <1>2, <1>3, <1>4, <1>5, <1>6, <1>7, <1>8, Answering DEF Svc!Blocking

\* What was withheld so far stays accounted for as findings and skips are added.
LEMMA DroppedGrows ==
    ASSUME Dropped, found \subseteq found', skipped \subseteq skipped', UNCHANGED <<ruled, call>>
    PROVE  Dropped'
BY DEF Dropped

\* _is_blocked(): a finding is withheld under a pointer that is not the root's,
\* and that pointer has a schema finding.
LEMMA RulesStep == ASSUME SvcInv, NEW ps \in SUBSET DocumentPlaces, Svc!Rules(ps) PROVE SvcInv'
<1> DEFINE made == {Svc!Finding("VCF-RULE", "error", p) : p \in ps}
                   \cup {Svc!Finding("VCF-LIC-EVALUATION", "info", <<"instance">>)}
           kept == IF call.tool = "validate" THEN {f \in made : ~Svc!IsBlocked(f.at, bad)} ELSE made
           gated == call.tool = "validate" /\ bad \ {Svc!Root} # {}
<1>1. /\ layer = "rules" /\ layer' = call.tool /\ ruled' = made /\ found' = found \cup kept
      /\ skipped' = (IF gated THEN {"rules"} ELSE {}) /\ ran' = ran \cup {"rules"}
      /\ UNCHANGED <<calls, schemaFile, schemaCache, call, bad, out>>
  BY DEF Svc!Rules
<1>2. /\ ran = {"detect", "schema"} /\ skipped = {} /\ call \in Svc!Calls /\ call.tool \in Svc!Tools
      /\ Svc!Kind(call) = "inventory" /\ SchemaReported /\ bad \subseteq DocumentPlaces
  BY <1>1, CallTypes DEF SvcInv, CallSoFar, Svc!TypeOK
<1>3. \A f \in made : f.code \in {"VCF-RULE", "VCF-LIC-EVALUATION"}
  BY DEF Svc!Finding
<1>4. kept \subseteq made
      /\ \A f \in made \ kept : call.tool = "validate" /\ \E b \in bad : b # Svc!Root /\ Svc!IsPrefix(b, f.at)
  BY DEF Svc!IsBlocked
<1> HIDE DEF made, kept
<1>5. Dropped'
  <2> SUFFICES ASSUME NEW f \in ruled', f \notin found'
      PROVE /\ call'.tool = "validate" /\ "rules" \in skipped'
            /\ \E g \in found' : g.code = "VCF-INV-SCHEMA" /\ g.at # Svc!Root /\ Svc!IsPrefix(g.at, f.at)
    BY DEF Dropped
  <2>1. call.tool = "validate" /\ \E b \in bad : b # Svc!Root /\ Svc!IsPrefix(b, f.at)
    BY <1>1, <1>4
  <2>2. PICK b \in bad : b # Svc!Root /\ Svc!IsPrefix(b, f.at)
    BY <2>1
  <2> DEFINE g == Svc!Finding("VCF-INV-SCHEMA", "error", b)
  <2>3. g \in found' /\ g.code = "VCF-INV-SCHEMA" /\ g.at = b
    BY <1>1, <1>2 DEF SchemaReported, Svc!Finding
  <2> HIDE DEF g
  <2> QED BY <2>1, <2>2, <2>3, <1>1
<1>6. SchemaReported'
  <2>1. \A p \in bad' : Svc!Finding("VCF-INV-SCHEMA", "error", p) \in found'
    BY <1>1, <1>2 DEF SchemaReported
  <2>2. \A f \in found' : f.code \notin NotInASpec
    BY <1>1, <1>2, <1>3, <1>4 DEF SchemaReported, NotInASpec
  <2>3. call'.literal => \E f \in found' : f.sev = "critical"
    BY <1>1, <1>2 DEF SchemaReported, Svc!Critical
  <2> QED BY <2>1, <2>2, <2>3 DEF SchemaReported, Svc!Critical
<1>7. CallSoFar'
  BY <1>1, <1>2, <1>6 DEF CallSoFar, Svc!Tools
<1> QED
  BY <1>1, <1>2, <1>5, <1>7, ToALayer DEF Layers, Svc!Tools

\* An answer out of the last layer of a call.
LEMMA AnswerFromALayer ==
    ASSUME SvcInv, layer \in {"validate", "render", "provision"},
           NEW fs, NEW layers, NEW skips, NEW given \in BOOLEAN, Svc!Answer(fs, layers, skips, given),
           found \subseteq fs, skipped \subseteq skips, ran \subseteq layers,
           layers \cap skips \subseteq {"rules"}, Svc!LayersOf(call.tool) \subseteq layers \cup skips,
           call.literal => ~given, call.tool = "render" => ~given
    PROVE  SvcInv'
<1>1. /\ fs \subseteq found' /\ ran' = layers /\ skipped' = skips /\ layer' = "answered"
      /\ UNCHANGED <<calls, schemaFile, schemaCache, call, bad, ruled>>
      /\ out'.given /\ out'.files = given /\ out'.valid \in BOOLEAN
      /\ out'.exit \in 0..2 /\ (out'.valid <=> out'.exit = 0)
      /\ out'.valid => ~Svc!Blocking(found') /\ ~Svc!Blocking(fs)
  BY AnswerFacts
<1>2. /\ Svc!Kind(call) = "inventory" /\ ran = {"detect", "schema", "rules"} /\ call.literal \in BOOLEAN
      /\ call.literal => Svc!Critical(found)
  BY CallTypes DEF SvcInv, CallSoFar, SchemaReported
<1>3. Dropped'
  BY <1>1, DroppedGrows DEF SvcInv
<1>4. out'.valid => ~call.literal
  BY <1>1, <1>2 DEF Svc!Critical, Svc!Blocking
<1>5. bad' \subseteq DocumentPlaces /\ schemaCache' \in {"none", "vendored"} /\ "schema" \in ran'
  BY <1>1, <1>2 DEF SvcInv, Svc!TypeOK
<1> QED
  BY <1>1, <1>2, <1>3, <1>4, <1>5, Answering

LEMMA ProbesStep == ASSUME SvcInv, NEW failed \in BOOLEAN, Svc!Probes(failed) PROVE SvcInv'
<1>1. /\ layer = "validate" /\ call.tool = "validate" /\ ran = {"detect", "schema", "rules"}
      /\ skipped \subseteq {"rules"}
  BY DEF Svc!Probes, SvcInv, CallSoFar
<1>2. PICK fs, layers, skips :
          /\ Svc!Answer(fs, layers, skips, FALSE) /\ found \subseteq fs /\ skipped \subseteq skips /\ ran \subseteq layers
          /\ \/ layers = ran /\ skips = skipped \cup {"probes"}
             \/ layers = ran \cup {"probes"} /\ skips = skipped
  <2>1. CASE ~call.probe \/ Svc!Critical(found)
    <3>1. Svc!Answer(found, ran, skipped \cup {"probes"}, FALSE)
      BY <2>1 DEF Svc!Probes
    <3> QED BY <3>1
  <2>2. CASE ~(~call.probe \/ Svc!Critical(found))
    <3> DEFINE fs == found \cup (IF failed THEN {Svc!Finding("VCF-PROBE", "warning", <<"hosts">>)} ELSE {})
    <3>1. Svc!Answer(fs, ran \cup {"probes"}, skipped, FALSE) /\ found \subseteq fs
      BY <2>2 DEF Svc!Probes
    <3> HIDE DEF fs
    <3> QED BY <3>1
  <2> QED BY <2>1, <2>2
<1>3. layers \cap skips \subseteq {"rules"} /\ Svc!LayersOf(call.tool) \subseteq layers \cup skips
  BY <1>1, <1>2 DEF Svc!LayersOf
<1> QED
  BY <1>1, <1>2, <1>3, AnswerFromALayer

LEMMA RefusalSteps ==
    ASSUME SvcInv, NEW raises \in BOOLEAN, Svc!RenderRefuses(raises) \/ Svc!ProvisionRefuses(raises)
    PROVE  SvcInv'
<1>1. /\ layer \in {"render", "provision"} /\ call.tool = layer /\ ran = {"detect", "schema", "rules"}
      /\ skipped = {}
  BY DEF Svc!RenderRefuses, Svc!ProvisionRefuses, SvcInv, CallSoFar
<1>2. PICK fs : Svc!Answer(fs, ran, {layer}, FALSE) /\ found \subseteq fs
  <2>1. PICK f : Svc!Answer(found \cup {f}, ran, {layer}, FALSE)
    BY DEF Svc!RenderRefuses, Svc!ProvisionRefuses
  <2> DEFINE fs == found \cup {f}
  <2>2. Svc!Answer(fs, ran, {layer}, FALSE) /\ found \subseteq fs
    BY <2>1
  <2> HIDE DEF fs
  <2> QED BY <2>2
<1>3. ran \cap {layer} \subseteq {"rules"} /\ Svc!LayersOf(call.tool) \subseteq ran \cup {layer}
  BY <1>1 DEF Svc!LayersOf
<1> QED
  BY <1>1, <1>2, <1>3, AnswerFromALayer

LEMMA ProvisionStep == ASSUME SvcInv, NEW withheld \in BOOLEAN, Svc!Provision(withheld) PROVE SvcInv'
<1> DEFINE fs == found \cup (IF withheld THEN {Svc!Finding("VCF-PROV-HOST", "error", <<"hosts">>)} ELSE {})
<1>1. Svc!Answer(fs, ran \cup {"provision"}, {"verify"}, TRUE) /\ ~call.literal /\ layer = "provision"
      /\ found \subseteq fs
  BY DEF Svc!Provision
<1> HIDE DEF fs
<1>2. call.tool = "provision" /\ ran = {"detect", "schema", "rules"} /\ skipped = {}
  BY <1>1 DEF SvcInv, CallSoFar
<1>3. /\ (ran \cup {"provision"}) \cap {"verify"} \subseteq {"rules"}
      /\ Svc!LayersOf(call.tool) \subseteq (ran \cup {"provision"}) \cup {"verify"}
  BY <1>2 DEF Svc!LayersOf
<1> QED
  BY <1>1, <1>2, <1>3, AnswerFromALayer

LEMMA HandRenderStep == ASSUME SvcInv, Svc!Render PROVE SvcInv'
<1>1. /\ layer = "render" /\ layer' = "verify" /\ ~call.literal /\ ran' = ran \cup {"render"}
      /\ UNCHANGED <<calls, schemaFile, schemaCache, call, bad, ruled>> /\ UNCHANGED <<found, skipped, out>>
  BY DEF Svc!Render, Svc!Unlooked
<1>2. call.tool = "render" /\ ran = {"detect", "schema", "rules"} /\ skipped = {} /\ Svc!Kind(call) = "inventory"
      /\ SchemaReported /\ call \in Svc!Calls /\ bad' \subseteq DocumentPlaces
  BY <1>1 DEF SvcInv, CallSoFar, Svc!TypeOK
<1>3. SchemaReported'
  BY <1>1, <1>2 DEF SchemaReported, Svc!Critical
<1>4. CallSoFar'
  BY <1>1, <1>2, <1>3 DEF CallSoFar
<1>5. Dropped'
  BY <1>1, DroppedGrows DEF SvcInv
<1> QED
  BY <1>1, <1>2, <1>4, <1>5, ToALayer DEF Layers

\* _verify_rendered(): nothing blocks what is handed out, so the schema that
\* judged it was there and was the vendored one.
LEMMA VerifyStep ==
    ASSUME SvcInv, NEW fails \in BOOLEAN, NEW undeclared \in BOOLEAN, Svc!Verify(fails, undeclared)
    PROVE  SvcInv'
<1> DEFINE refused == Svc!SchemaRefused
           failed == Svc!SchemaFindings(IF fails THEN {Svc!Root} ELSE {}, "VCF-SCHEMA")
           unknown == Svc!Finding("VCF-RENDER-UNDECLARED-FIELD", "error", Svc!Root)
           problems == IF refused # {} THEN refused ELSE failed \cup (IF undeclared THEN {unknown} ELSE {})
           all == found \cup problems
<1>1. /\ layer = "verify" /\ layer' = "answered" /\ Svc!LoadVerified(call) /\ found' = all
      /\ out' = [given |-> TRUE, valid |-> ~Svc!Blocking(all), files |-> Svc!HandOut(problems),
                 exit |-> IF Svc!Blocking(all) THEN 1 ELSE 0]
      /\ skipped' = (IF Svc!HandOut(problems) THEN skipped ELSE skipped \cup {"spec"})
      /\ ran' = ran \cup {"verify"} /\ UNCHANGED <<calls, schemaFile, call, bad, ruled>>
  BY DEF Svc!Verify
<1>2. /\ call.tool = "render" /\ ~call.literal /\ skipped = {} /\ ran = {"detect", "schema", "rules", "render"}
      /\ Svc!Kind(call) = "inventory" /\ SchemaReported /\ bad \subseteq DocumentPlaces
  BY <1>1 DEF SvcInv, CallSoFar, Svc!TypeOK
<1>3. schemaCache' \in {"none", "vendored"}
  BY <1>1, CacheStaysVendored
<1>4. /\ \A f \in refused : f.sev \in {"critical", "error"}
      /\ refused = {} /\ call.version # "unknown" => schemaCache' # "none"
  BY RefusedBlocks
<1>5. (\A f \in failed : f.sev = "error") /\ unknown.sev = "error"
  BY SchemaFindingsFacts DEF Svc!Finding
<1>6. call.version = "unknown" => refused # {}
  BY DEF Svc!SchemaRefused
<1>7. ~Svc!Blocking(problems) => problems = {} /\ refused = {}
  <2> HIDE DEF refused, failed, unknown
  <2> QED BY <1>4, <1>5 DEF Svc!Blocking
<1> HIDE DEF refused, problems
<1>8. ~Svc!Blocking(problems) => /\ schemaCache' = "vendored" /\ found' = found
                                 /\ \A f \in found' : f.code \notin NotInASpec
  BY <1>1, <1>2, <1>3, <1>4, <1>6, <1>7 DEF SchemaReported
<1>9. Dropped'
  BY <1>1, DroppedGrows DEF SvcInv
<1>10. /\ out'.given /\ out'.files = ~Svc!Blocking(problems) /\ out'.valid = ~Svc!Blocking(all)
       /\ out'.exit \in 0..2 /\ (out'.exit = 0 <=> ~Svc!Blocking(all))
  <2> DEFINE given == ~Svc!Blocking(problems)
             ok == ~Svc!Blocking(all)
  <2>1. out' = [given |-> TRUE, valid |-> ok, files |-> given, exit |-> IF ok THEN 0 ELSE 1] /\ ok \in BOOLEAN
    BY <1>1 DEF Svc!HandOut
  <2> HIDE DEF given, ok
  <2>2. /\ out'.given /\ out'.files = given /\ out'.valid = ok /\ out'.exit \in 0..2 /\ (out'.exit = 0 <=> ok)
    BY <2>1
  <2> QED BY <2>2 DEF given, ok
<1>11. /\ ran' \cap skipped' \subseteq {"rules"} /\ {"render", "verify"} \subseteq ran'
       /\ Svc!LayersOf(call.tool) \subseteq ran' \cup skipped' /\ ran' \ {"detect"} # {}
  BY <1>1, <1>2 DEF Svc!LayersOf
<1>12. /\ out'.files \in BOOLEAN /\ out'.valid \in BOOLEAN
  <2> DEFINE given == Svc!Blocking(problems)
             blocked == Svc!Blocking(all)
  <2>1. out'.files = ~given /\ out'.valid = ~blocked
    BY <1>10
  <2> HIDE DEF given, blocked
  <2> QED BY <2>1
<1> HIDE DEF all
<1> QED
  BY <1>1, <1>2, <1>3, <1>8, <1>9, <1>10, <1>11, <1>12, Answering

LEMMA SvcNext == SvcInv /\ Svc!Next => SvcInv'
<1> SUFFICES ASSUME SvcInv, Svc!Next PROVE SvcInv'
  OBVIOUS
<1> QED
  BY ArriveStep, ReturnStep, TamperStep, RefusedEarly, ToSchemaStep, InventorySchemaStep, SpecSchemaStep,
     RulesStep, ProbesStep, RefusalSteps, ProvisionStep, HandRenderStep, VerifyStep DEF Svc!Next

LEMMA SvcProperties ==
    SvcInv => Svc!TypeOK /\ Svc!ValidIsEarned /\ Svc!SpecIsVerified /\ Svc!NothingSilentlyDropped
              /\ Svc!OnlyVendoredSchema
BY DEF SvcInv, Dropped, Svc!NothingSilentlyDropped, Svc!OnlyVendoredSchema

-----------------------------------------------------------------------------
(* The diff.                                                               *)

Shows == {"absent", "reference", "secret", "masked", "ip1", "ip2"}
Entry == [place : Diff!ToSet(LeafPlaces) \cup Diff!HostNames, left : Shows, right : Shows]
Mentions(cs, p) == \E k \in 1 .. Len(cs) : cs[k].place = p
HostsDiffer(n)  == Diff!Match(left.hosts, n) # Diff!Match(right.hosts, n)

\* What was compared so far and differs was reported, unless the report ended.
DiffInv ==
    /\ Diff!TypeOK /\ changes \in Seq(Entry)
    /\ answer \in [given : BOOLEAN, valid : BOOLEAN]
    /\ answer.valid => ~truncated /\ place > Len(LeafPlaces) + 2
    /\ \A k \in 1 .. Len(changes) :
          changes[k].place \in DOMAIN LeafKind /\ LeafKind[changes[k].place] # "plain"
             => "secret" \notin {changes[k].left, changes[k].right}
    /\ ~truncated =>
          /\ \A k \in 1 .. Len(LeafPlaces) :
                k < place /\ left.leaf[LeafPlaces[k]] # right.leaf[LeafPlaces[k]] => Mentions(changes, LeafPlaces[k])
          /\ \A k \in 1 .. 2 : Len(LeafPlaces) + k < place => (HostsDiffer(Diff!Names[k]) => Mentions(changes, Diff!Names[k]))

LEMMA LeavesFacts ==
    /\ LeafPlaces \in Seq(Diff!ToSet(LeafPlaces)) /\ Len(LeafPlaces) \in Nat /\ DOMAIN LeafPlaces = 1 .. Len(LeafPlaces)
    /\ Diff!ToSet(LeafPlaces) \subseteq DOMAIN LeafKind
    /\ \A k \in 1 .. Len(LeafPlaces) : LeafPlaces[k] \in Diff!ToSet(LeafPlaces)
    /\ \A p \in Diff!ToSet(LeafPlaces) : \E k \in 1 .. Len(LeafPlaces) : LeafPlaces[k] = p
<1> DEFINE S == DOMAIN LeafKind
<1>1. LeafPlaces \in Seq(S)
  BY LabAssumption
<1> HIDE DEF S
<1>2. /\ Len(LeafPlaces) \in Nat /\ DOMAIN LeafPlaces = 1 .. Len(LeafPlaces)
      /\ \A k \in 1 .. Len(LeafPlaces) : LeafPlaces[k] \in S
  BY <1>1
<1>3. Diff!ToSet(LeafPlaces) = {LeafPlaces[k] : k \in 1 .. Len(LeafPlaces)}
  BY <1>2 DEF Diff!ToSet
<1>4. LeafPlaces \in [1 .. Len(LeafPlaces) -> Diff!ToSet(LeafPlaces)]
  BY <1>1, <1>2, <1>3
<1>5. LeafPlaces \in Seq(Diff!ToSet(LeafPlaces))
  BY <1>2, <1>4
<1> QED BY <1>2, <1>3, <1>5 DEF S

LEMMA DiffInit == Diff!Init => DiffInv
<1> SUFFICES ASSUME Diff!Init PROVE DiffInv
  OBVIOUS
<1>1. changes = <<>> /\ changes \in Seq(Entry) /\ Len(changes) = 0 /\ place = 1 /\ truncated = FALSE
  BY DEF Diff!Init
<1>2. answer.given = FALSE /\ answer.valid = FALSE /\ answer \in [given : BOOLEAN, valid : BOOLEAN]
  BY DEF Diff!Init, Diff!NoAnswer
<1>3. Diff!TypeOK
  <2>1. MaxChanges \in Nat /\ Len(LeafPlaces) \in Nat
    BY LabAssumption, LeavesFacts
  <2>2. place \in 1 .. Len(LeafPlaces) + 3 /\ Len(changes) <= MaxChanges
    BY <1>1, <2>1
  <2>3. left \in Diff!Documents /\ right \in Diff!Documents
    BY DEF Diff!Init
  <2> QED BY <2>2, <2>3, <1>1 DEF Diff!TypeOK
<1>4. \A k \in 1 .. Len(LeafPlaces) : ~(k < place)
  BY <1>1
<1>5. \A k \in 1 .. 2 : ~(Len(LeafPlaces) + k < place)
  BY <1>1, LeavesFacts
<1> QED
  BY <1>1, <1>2, <1>3, <1>4, <1>5 DEF DiffInv

\* Reporting adds one entry to what is mentioned, or ends the comparison.
LEMMA ReportFacts ==
    ASSUME DiffInv, NEW e \in Entry, Diff!Report(e),
           e.place \in DOMAIN LeafKind /\ LeafKind[e.place] # "plain" => "secret" \notin {e.left, e.right}
    PROVE  /\ changes' \in Seq(Entry) /\ Len(changes') <= MaxChanges /\ truncated' \in BOOLEAN
           /\ \A p : Mentions(changes, p) => Mentions(changes', p)
           /\ ~truncated' => ~truncated /\ Mentions(changes', e.place)
           /\ \A k \in 1 .. Len(changes') :
                changes'[k].place \in DOMAIN LeafKind /\ LeafKind[changes'[k].place] # "plain"
                   => "secret" \notin {changes'[k].left, changes'[k].right}
<1>1. changes \in Seq(Entry) /\ Len(changes) \in Nat /\ Len(changes) <= MaxChanges /\ truncated \in BOOLEAN
      /\ MaxChanges \in Nat
  BY LabAssumption DEF DiffInv, Diff!TypeOK
<1>2. CASE Len(changes) >= MaxChanges
  <2>1. truncated' = TRUE /\ changes' = changes
    BY <1>2 DEF Diff!Report
  <2> QED BY <2>1, <1>1 DEF DiffInv, Mentions
<1>3. CASE Len(changes) < MaxChanges
  <2>1. truncated' = truncated /\ changes' = Append(changes, e)
    BY <1>1, <1>3 DEF Diff!Report
  <2>2. /\ changes' \in Seq(Entry) /\ Len(changes') = Len(changes) + 1 /\ changes'[Len(changes) + 1] = e
        /\ \A k \in 1 .. Len(changes) : changes'[k] = changes[k]
    BY <2>1, <1>1
  <2>3. \A p : Mentions(changes, p) => Mentions(changes', p)
    <3> SUFFICES ASSUME NEW p, Mentions(changes, p) PROVE \E k \in 1 .. Len(changes') : changes'[k].place = p
      BY DEF Mentions
    <3>1. PICK k \in 1 .. Len(changes) : changes[k].place = p
      BY DEF Mentions
    <3> QED BY <3>1, <2>2, <1>1
  <2>4. \E k \in 1 .. Len(changes') : changes'[k].place = e.place
    BY <2>2, <1>1
  <2>5. Mentions(changes', e.place)
    BY <2>4 DEF Mentions
  <2>6. ASSUME NEW k \in 1 .. Len(changes')
        PROVE  changes'[k].place \in DOMAIN LeafKind /\ LeafKind[changes'[k].place] # "plain"
                   => "secret" \notin {changes'[k].left, changes'[k].right}
    <3>1. CASE k \in 1 .. Len(changes)
      BY <3>1, <2>2 DEF DiffInv
    <3>2. CASE k = Len(changes) + 1
      BY <3>2, <2>2
    <3> QED BY <3>1, <3>2, <2>2, <1>1
  <2> QED BY <2>1, <2>2, <2>3, <2>5, <2>6, <1>1, <1>3
<1> QED
  BY <1>1, <1>2, <1>3

\* The least-number principle, from the well-foundedness of finite sets under
\* strict inclusion; and induction over a set of naturals.
LEMMA Least ==
    ASSUME NEW T \in SUBSET Nat, T # {}
    PROVE  \E m \in T : \A k \in T : m <= k
<1> DEFINE F == {1 .. k : k \in T}
<1>1. F \subseteq FiniteSubsetsOf(Nat)
  BY FS_Interval DEF FiniteSubsetsOf
<1>2. F # {}
  OBVIOUS
<1>3. PICK x \in F : \A y \in F : <<y, x>> \notin StrictSubsetOrdering(Nat)
  <2> HIDE DEF F
  <2> QED BY <1>1, <1>2, WFMin, FS_StrictSubsetOrderingWellFounded
<1>4. PICK m \in T : x = 1 .. m
  OBVIOUS
<1>5. ASSUME NEW k \in T, k < m PROVE FALSE
  <2>1. 1 .. k \subseteq 1 .. m /\ 1 .. k # 1 .. m
    BY <1>5
  <2>2. <<1 .. k, x>> \in StrictSubsetOrdering(Nat)
    BY <2>1, <1>4 DEF StrictSubsetOrdering
  <2> QED BY <2>2, <1>3
<1> QED
  BY <1>5

LEMMA Induction ==
    ASSUME NEW T, 0 \in T, \A k \in Nat : k \in T => k + 1 \in T
    PROVE  \A n \in Nat : n \in T
<1> SUFFICES ASSUME Nat \ T # {} PROVE FALSE
  OBVIOUS
<1>1. PICK m \in Nat \ T : \A k \in Nat \ T : m <= k
  BY Least
<1>2. m - 1 \in Nat /\ m - 1 \in T
  BY <1>1
<1> QED
  BY <1>1, <1>2

\* The last item of a name, in a list that has one.
LEMMA LastIsThere ==
    ASSUME NEW s \in Seq(Diff!Items), NEW n, \E k \in DOMAIN s : s[k].name = n
    PROVE  /\ Diff!LastOf(s, n) \in DOMAIN s /\ s[Diff!LastOf(s, n)].name = n
           /\ \A j \in DOMAIN s : s[j].name = n => j <= Diff!LastOf(s, n)
<1> DEFINE T == {d \in Nat : \E k \in DOMAIN s : s[k].name = n /\ d = Len(s) - k}
<1>1. DOMAIN s = 1 .. Len(s) /\ Len(s) \in Nat
  OBVIOUS
<1>2. T # {}
  <2>1. PICK k \in DOMAIN s : s[k].name = n
    OBVIOUS
  <2>2. Len(s) - k \in T
    BY <1>1, <2>1
  <2> QED BY <2>2
<1>3. PICK d \in T : \A x \in T : d <= x
  <2> HIDE DEF T
  <2>1. T \in SUBSET Nat
    BY DEF T
  <2> QED BY <1>2, <2>1, Least
<1>4. PICK k \in DOMAIN s : s[k].name = n /\ d = Len(s) - k
  BY <1>3
<1>5. ASSUME NEW j \in DOMAIN s, s[j].name = n PROVE j <= k
  <2>1. Len(s) - j \in T
    BY <1>1, <1>5
  <2>2. d <= Len(s) - j
    BY <2>1, <1>3
  <2> QED BY <2>2, <1>1, <1>4
<1> QED
  BY <1>4, <1>5 DEF Diff!LastOf

LEMMA ShownFacts ==
    ASSUME NEW p \in DOMAIN LeafKind, NEW v \in Diff!Leaves
    PROVE  Diff!Shown(p, v) \in Shows /\ (LeafKind[p] # "plain" => Diff!Shown(p, v) # "secret")
<1>1. LeafKind[p] \in {"credentials", "named", "plain"}
  BY LabAssumption
<1> QED
  BY <1>1 DEF Diff!Shown, Diff!Masked, Diff!Leaves, Shows

\* A comparison: what the last place held is mentioned if it differs.
LEMMA Compared ==
    ASSUME DiffInv, UNCHANGED <<left, right, answer>>, ~answer.given, ~truncated,
           place' = place + 1, place \in 1 .. Len(LeafPlaces) + 2,
           \/ UNCHANGED <<changes, truncated>>
           \/ \E e \in Entry :
                 /\ Diff!Report(e)
                 /\ e.place \in DOMAIN LeafKind /\ LeafKind[e.place] # "plain" => "secret" \notin {e.left, e.right},
           ~truncated' =>
              /\ place \in 1 .. Len(LeafPlaces) /\ left.leaf[LeafPlaces[place]] # right.leaf[LeafPlaces[place]]
                    => Mentions(changes', LeafPlaces[place])
              /\ \A k \in 1 .. 2 : Len(LeafPlaces) + k = place => (HostsDiffer(Diff!Names[k]) => Mentions(changes', Diff!Names[k]))
    PROVE  DiffInv'
<1>1. /\ changes' \in Seq(Entry) /\ Len(changes') <= MaxChanges /\ truncated' \in BOOLEAN
      /\ \A p : Mentions(changes, p) => Mentions(changes', p)
      /\ \A k \in 1 .. Len(changes') :
            changes'[k].place \in DOMAIN LeafKind /\ LeafKind[changes'[k].place] # "plain"
               => "secret" \notin {changes'[k].left, changes'[k].right}
  <2>1. CASE UNCHANGED <<changes, truncated>>
    <3>1. \A p : Mentions(changes, p) => Mentions(changes', p)
      BY <2>1 DEF Mentions
    <3> QED BY <2>1, <3>1 DEF DiffInv, Diff!TypeOK
  <2>2. CASE \E e \in Entry :
                 /\ Diff!Report(e)
                 /\ e.place \in DOMAIN LeafKind /\ LeafKind[e.place] # "plain" => "secret" \notin {e.left, e.right}
    BY <2>2, ReportFacts
  <2> QED BY <2>1, <2>2
<1>2. Diff!TypeOK'
  <2>1. place' \in 1 .. Len(LeafPlaces) + 3
    BY LeavesFacts
  <2> QED BY <2>1, <1>1 DEF DiffInv, Diff!TypeOK
<1>3. answer' \in [given : BOOLEAN, valid : BOOLEAN] /\ ~answer'.valid
  <2>1. place <= Len(LeafPlaces) + 2
    BY LeavesFacts
  <2> QED BY <2>1, LeavesFacts DEF DiffInv
<1>4. ASSUME ~truncated', NEW k \in 1 .. Len(LeafPlaces), k < place', left'.leaf[LeafPlaces[k]] # right'.leaf[LeafPlaces[k]]
      PROVE  Mentions(changes', LeafPlaces[k])
  <2>1. CASE k = place
    BY <2>1, <1>4
  <2>2. CASE k < place
    BY <2>2, <1>1, <1>4 DEF DiffInv
  <2> QED BY <2>1, <2>2, <1>4, LeavesFacts
<1>5. ASSUME ~truncated', NEW k \in 1 .. 2, Len(LeafPlaces) + k < place'
      PROVE  HostsDiffer(Diff!Names[k]) => Mentions(changes', Diff!Names[k])
  <2>1. CASE Len(LeafPlaces) + k = place
    BY <2>1, <1>5
  <2>2. CASE Len(LeafPlaces) + k < place
    <3>1. HostsDiffer(Diff!Names[k]) => Mentions(changes, Diff!Names[k])
      BY <2>2, <1>5 DEF DiffInv
    <3> QED BY <3>1, <1>1
  <2> QED BY <2>1, <2>2, <1>5, LeavesFacts
<1>6. \A k \in 1 .. 2 : HostsDiffer(Diff!Names[k])' <=> HostsDiffer(Diff!Names[k])
  BY DEF HostsDiffer, Diff!Match, Diff!ByName, Diff!LastOf
<1> QED
  BY <1>1, <1>2, <1>3, <1>4, <1>5, <1>6 DEF DiffInv

LEMMA CompareStep == ASSUME DiffInv, Diff!Compare PROVE DiffInv'
<1> DEFINE p == LeafPlaces[place]
           e == [place |-> p, left |-> Diff!Shown(p, left.leaf[p]), right |-> Diff!Shown(p, right.leaf[p])]
<1>1. /\ ~answer.given /\ ~truncated /\ place <= Len(LeafPlaces) /\ place' = place + 1
      /\ UNCHANGED <<left, right, answer>>
      /\ IF left.leaf[p] = right.leaf[p] THEN UNCHANGED <<changes, truncated>> ELSE Diff!Report(e)
  BY DEF Diff!Compare, Diff!Comparing
<1>2. place \in 1 .. Len(LeafPlaces) /\ place \in 1 .. Len(LeafPlaces) + 2
  BY <1>1, LeavesFacts DEF DiffInv, Diff!TypeOK
<1>3. p \in Diff!ToSet(LeafPlaces) /\ p \in DOMAIN LeafKind
  BY <1>2, LeavesFacts
<1>4. left.leaf[p] \in Diff!Leaves /\ right.leaf[p] \in Diff!Leaves
  BY <1>3 DEF DiffInv, Diff!TypeOK, Diff!Documents
<1> HIDE DEF p
<1>5. /\ e \in Entry /\ e.place = p
      /\ e.place \in DOMAIN LeafKind /\ LeafKind[e.place] # "plain" => "secret" \notin {e.left, e.right}
  BY <1>3, <1>4, ShownFacts DEF Entry
<1> HIDE DEF e
<1>6. ASSUME ~truncated', left.leaf[p] # right.leaf[p] PROVE Mentions(changes', p)
  <2>1. Diff!Report(e)
    BY <1>1, <1>6
  <2> QED BY <2>1, <1>5, <1>6, ReportFacts
<1>7. \A k \in 1 .. 2 : Len(LeafPlaces) + k # place
  BY <1>2, LeavesFacts
<1>8. \/ UNCHANGED <<changes, truncated>>
      \/ \E x \in Entry :
            /\ Diff!Report(x)
            /\ x.place \in DOMAIN LeafKind /\ LeafKind[x.place] # "plain" => "secret" \notin {x.left, x.right}
  BY <1>1, <1>5
<1> QED
  BY <1>1, <1>2, <1>6, <1>7, <1>8, Compared DEF p

LEMMA CompareHostsStep == ASSUME DiffInv, Diff!CompareHosts PROVE DiffInv'
<1> DEFINE n == Diff!Names[place - Len(LeafPlaces)]
           l == Diff!Match(left.hosts, n)
           r == Diff!Match(right.hosts, n)
           e == [place |-> n, left |-> l, right |-> r]
<1>1. /\ ~answer.given /\ ~truncated /\ place \in Len(LeafPlaces) + 1 .. Len(LeafPlaces) + 2 /\ place' = place + 1
      /\ UNCHANGED <<left, right, answer>>
      /\ IF l = r THEN UNCHANGED <<changes, truncated>> ELSE Diff!Report(e)
  BY DEF Diff!CompareHosts, Diff!Comparing
<1>2. place - Len(LeafPlaces) \in 1 .. 2 /\ place \in 1 .. Len(LeafPlaces) + 2 /\ ~(place \in 1 .. Len(LeafPlaces))
  BY <1>1, LeavesFacts
<1>3. n \in Diff!HostNames
  BY <1>2 DEF Diff!Names, Diff!HostNames
<1>4. ASSUME NEW s \in Seq(Diff!Items) PROVE Diff!Match(s, n) \in Shows
  <2>1. CASE \E k \in DOMAIN s : s[k].name = n
    <3>1. \A k \in DOMAIN s : s[k].ip \in {"ip1", "ip2"}
      <4>1. \A k \in DOMAIN s : s[k] \in Diff!Items
        OBVIOUS
      <4> QED BY <4>1 DEF Diff!Items
    <3>2. Diff!LastOf(s, n) \in DOMAIN s
      BY <2>1, LastIsThere, <1>3
    <3> QED BY <3>1, <3>2, <2>1 DEF Diff!Match, Diff!ByName, Shows
  <2>2. CASE ~\E k \in DOMAIN s : s[k].name = n
    BY <2>2 DEF Diff!Match, Diff!ByName, Shows
  <2> QED BY <2>1, <2>2
<1>5. left.hosts \in Seq(Diff!Items) /\ right.hosts \in Seq(Diff!Items)
  BY LabAssumption DEF DiffInv, Diff!TypeOK, Diff!Documents
<1>6. l \in Shows /\ r \in Shows /\ n \notin DOMAIN LeafKind
  BY <1>3, <1>4, <1>5, LabAssumption
<1>7. l # r <=> HostsDiffer(n)
  BY DEF HostsDiffer
<1> HIDE DEF n, l, r
<1>8. e \in Entry /\ e.place = n
  BY <1>3, <1>6 DEF Entry
<1> HIDE DEF e
<1>9. ASSUME ~truncated', l # r PROVE Mentions(changes', n)
  <2>1. Diff!Report(e)
    BY <1>1, <1>9
  <2> QED BY <2>1, <1>6, <1>8, <1>9, ReportFacts
<1>10. \A k \in 1 .. 2 : Len(LeafPlaces) + k = place => Diff!Names[k] = n
  BY <1>1, LeavesFacts DEF n
<1>11. ~truncated' => \A k \in 1 .. 2 : Len(LeafPlaces) + k = place => (HostsDiffer(Diff!Names[k]) => Mentions(changes', Diff!Names[k]))
  BY <1>7, <1>9, <1>10
<1>12. \/ UNCHANGED <<changes, truncated>>
       \/ \E x \in Entry :
             /\ Diff!Report(x)
             /\ x.place \in DOMAIN LeafKind /\ LeafKind[x.place] # "plain" => "secret" \notin {x.left, x.right}
  BY <1>1, <1>6, <1>8
<1> QED
  BY <1>1, <1>2, <1>11, <1>12, Compared

LEMMA DiffEndSteps == ASSUME DiffInv, Diff!Unreadable \/ Diff!Finish PROVE DiffInv'
<1>1. /\ UNCHANGED <<left, right, place, changes, truncated>> /\ truncated \in BOOLEAN
      /\ \/ answer' = [given |-> TRUE, valid |-> FALSE]
         \/ answer' = [given |-> TRUE, valid |-> ~truncated] /\ (truncated \/ place > Len(LeafPlaces) + 2)
  BY DEF Diff!Unreadable, Diff!Finish, DiffInv, Diff!TypeOK
<1>2. answer' \in [given : BOOLEAN, valid : BOOLEAN] /\ (answer'.valid => ~truncated /\ place > Len(LeafPlaces) + 2)
  <2>1. PICK v \in BOOLEAN : /\ answer' = [given |-> TRUE, valid |-> v]
                             /\ v => ~truncated /\ place > Len(LeafPlaces) + 2
    BY <1>1
  <2>2. answer'.valid = v
    BY <2>1
  <2> QED BY <2>1, <2>2
<1>3. \A n : HostsDiffer(n)' <=> HostsDiffer(n)
  BY <1>1 DEF HostsDiffer, Diff!Match, Diff!ByName, Diff!LastOf
<1> QED
  BY <1>1, <1>2, <1>3 DEF DiffInv, Diff!TypeOK

LEMMA DiffNext == DiffInv /\ Diff!Next => DiffInv'
BY CompareStep, CompareHostsStep, DiffEndSteps DEF Diff!Next

LEMMA DiffRest == DiffInv /\ UNCHANGED diffVars => DiffInv'
<1> SUFFICES ASSUME DiffInv, UNCHANGED <<left, right, place, changes, truncated, answer>> PROVE DiffInv'
  BY DEF diffVars
<1>1. \A n : HostsDiffer(n)' <=> HostsDiffer(n)
  BY DEF HostsDiffer, Diff!Match, Diff!ByName, Diff!LastOf
<1> QED
  BY <1>1 DEF DiffInv, Diff!TypeOK

\* Lists that name each item once and agree name by name hold the same items.
LEMMA SameByName ==
    ASSUME NEW s \in Seq(Diff!Items), NEW t \in Seq(Diff!Items), Diff!UniqueNames(s), Diff!UniqueNames(t),
           \A n \in Diff!HostNames : Diff!Match(s, n) = Diff!Match(t, n)
    PROVE  Diff!ToSet(s) \subseteq Diff!ToSet(t)
<1> SUFFICES ASSUME NEW k \in DOMAIN s PROVE s[k] \in Diff!ToSet(t)
  BY DEF Diff!ToSet
<1> DEFINE n == s[k].name
<1>1. s[k] \in Diff!Items
  OBVIOUS
<1>2. n \in Diff!HostNames /\ s[k].ip \in {"ip1", "ip2"}
  BY <1>1 DEF Diff!Items
<1>3. Diff!LastOf(s, n) = k
  BY LastIsThere DEF Diff!UniqueNames
<1>4. Diff!Match(s, n) = s[k].ip
  BY <1>3 DEF Diff!Match, Diff!ByName
<1>5. Diff!Match(t, n) # "absent"
  BY <1>2, <1>4
<1>6. \E j \in DOMAIN t : t[j].name = n
  BY <1>5 DEF Diff!Match, Diff!ByName
<1>7. PICK j \in DOMAIN t : j = Diff!LastOf(t, n) /\ t[j].name = n
  BY <1>6, LastIsThere
<1>8. Diff!Match(t, n) = t[j].ip
  BY <1>6, <1>7 DEF Diff!Match, Diff!ByName
<1>9. t[j] \in Diff!Items
  OBVIOUS
<1>10. t[j] = s[k]
  BY <1>1, <1>2, <1>4, <1>7, <1>8, <1>9 DEF Diff!Items
<1> QED
  BY <1>10 DEF Diff!ToSet

\* A diff that is valid has compared everything and reported what differs.
LEMMA DiffProperties == DiffInv => Diff!TypeOK /\ Diff!DiffIsComplete
<1> SUFFICES ASSUME DiffInv PROVE Diff!DiffIsComplete
  BY DEF DiffInv
<1> DEFINE mentioned == {c.place : c \in Diff!ToSet(changes)}
<1>0. /\ changes \in Seq(Entry) /\ DOMAIN changes = 1 .. Len(changes)
      /\ Diff!ToSet(changes) = {changes[k] : k \in 1 .. Len(changes)}
  BY DEF DiffInv, Diff!ToSet
<1>1. \A p : Mentions(changes, p) <=> p \in mentioned
  BY <1>0 DEF Mentions
<1>2. ASSUME answer.valid
      PROVE  /\ \A p \in Diff!ToSet(LeafPlaces) : left.leaf[p] # right.leaf[p] => p \in mentioned
             /\ Diff!UniqueNames(left.hosts) /\ Diff!UniqueNames(right.hosts)
                /\ Diff!ToSet(left.hosts) # Diff!ToSet(right.hosts) => mentioned \cap Diff!HostNames # {}
  <2>1. ~truncated /\ place > Len(LeafPlaces) + 2 /\ place \in 1 .. Len(LeafPlaces) + 3
    BY <1>2 DEF DiffInv, Diff!TypeOK
  <2>2. ASSUME NEW p \in Diff!ToSet(LeafPlaces), left.leaf[p] # right.leaf[p] PROVE p \in mentioned
    <3>1. PICK k \in 1 .. Len(LeafPlaces) : LeafPlaces[k] = p
      BY LeavesFacts
    <3>2. k < place
      BY <2>1, LeavesFacts
    <3> QED BY <3>1, <3>2, <2>1, <2>2, <1>1 DEF DiffInv
  <2>3. ASSUME Diff!UniqueNames(left.hosts), Diff!UniqueNames(right.hosts),
               Diff!ToSet(left.hosts) # Diff!ToSet(right.hosts)
        PROVE  mentioned \cap Diff!HostNames # {}
    <3>1. left.hosts \in Seq(Diff!Items) /\ right.hosts \in Seq(Diff!Items)
      BY LabAssumption DEF DiffInv, Diff!TypeOK, Diff!Documents
    <3>2. PICK n \in Diff!HostNames : Diff!Match(left.hosts, n) # Diff!Match(right.hosts, n)
      BY <2>3, <3>1, SameByName
    <3>3. PICK k \in 1 .. 2 : Diff!Names[k] = n
      BY DEF Diff!HostNames, Diff!Names
    <3>4. Len(LeafPlaces) + k < place
      BY <2>1, LeavesFacts
    <3>5. Mentions(changes, n)
      BY <3>2, <3>3, <3>4, <2>1 DEF DiffInv, HostsDiffer
    <3> QED BY <3>5, <1>1
  <2> QED BY <2>2, <2>3
<1>3. ASSUME NEW c \in Diff!ToSet(changes), c.place \in Diff!ToSet(LeafPlaces), LeafKind[c.place] # "plain"
      PROVE  "secret" \notin {c.left, c.right}
  <2>1. PICK k \in 1 .. Len(changes) : c = changes[k]
    BY <1>0
  <2> QED BY <2>1, <1>3, LeavesFacts DEF DiffInv
<1> QED
  BY <1>2, <1>3 DEF Diff!DiffIsComplete

-----------------------------------------------------------------------------
(* The rules' arithmetic.                                                  *)

LEMMA DivFacts ==
    ASSUME NEW d \in Nat \ {0}, NEW n \in Int
    PROVE  n \div d \in Int /\ n % d \in 0 .. d - 1 /\ n = d * (n \div d) + (n % d)
OBVIOUS

LEMMA MulAtLeast ==
    ASSUME NEW d \in Nat \ {0}, NEW x \in Nat \ {0}
    PROVE  d * x >= d
OBVIOUS

LEMMA Distributes ==
    ASSUME NEW d \in Int, NEW x \in Int, NEW y \in Int
    PROVE  d * (x - y) = d * x - d * y /\ d * (x + y) = d * x + d * y
OBVIOUS

\* Quotient and remainder are unique.
LEMMA DivUnique ==
    ASSUME NEW d \in Nat \ {0}, NEW q \in Int, NEW p \in Int, NEW r \in 0 .. d - 1, NEW s \in 0 .. d - 1,
           d * q + r = d * p + s
    PROVE  q = p /\ r = s
<1>1. ASSUME q - p \in Nat \ {0} PROVE FALSE
  <2>1. d * (q - p) >= d /\ d * (q - p) = d * q - d * p
    BY <1>1, MulAtLeast, Distributes
  <2> DEFINE a == d * q
             b == d * p
  <2>2. a \in Int /\ b \in Int /\ a - b >= d /\ a + r = b + s
    BY <2>1
  <2> HIDE DEF a, b
  <2> QED BY <2>2
<1>2. ASSUME p - q \in Nat \ {0} PROVE FALSE
  <2>1. d * (p - q) >= d /\ d * (p - q) = d * p - d * q
    BY <1>2, MulAtLeast, Distributes
  <2> DEFINE a == d * q
             b == d * p
  <2>2. a \in Int /\ b \in Int /\ b - a >= d /\ a + r = b + s
    BY <2>1
  <2> HIDE DEF a, b
  <2> QED BY <2>2
<1>3. q = p
  BY <1>1, <1>2
<1> QED
  BY <1>3

LEMMA DivMod ==
    ASSUME NEW d \in Nat \ {0}, NEW n \in Int, NEW q \in Int, NEW r \in 0 .. d - 1, n = d * q + r
    PROVE  n % d = r /\ n \div d = q
BY DivFacts, DivUnique

LEMMA DivOfNext ==
    ASSUME NEW d \in Nat \ {0}, NEW n \in Nat
    PROVE  /\ n \div d \in Nat
           /\ (n + 1) \div d = IF (n + 1) % d = 0 THEN n \div d + 1 ELSE n \div d
<1> DEFINE q == n \div d
           r == n % d
           e == d * q
<1>1. q \in Int /\ r \in 0 .. d - 1 /\ n = e + r /\ e \in Int
  BY DivFacts
<1>2. q \in Nat
  <2> SUFFICES ASSUME 0 - q \in Nat \ {0} PROVE FALSE
    BY <1>1
  <2>1. d * (0 - q) >= d /\ d * (0 - q) = d * 0 - d * q /\ d * 0 = 0
    BY <1>1, MulAtLeast, Distributes
  <2>2. 0 - e >= d
    BY <2>1
  <2> HIDE DEF e, q, r
  <2> QED BY <1>1, <2>2
<1>3. CASE r = d - 1
  <2>1. d * (q + 1) = d * q + d * 1 /\ d * 1 = d
    BY <1>1, Distributes
  <2>2. d * (q + 1) = e + d
    BY <2>1
  <2>3. n + 1 = d * (q + 1) + 0 /\ 0 \in 0 .. d - 1 /\ q + 1 \in Int /\ n + 1 \in Int
    <3> HIDE DEF e, q, r
    <3> QED BY <1>1, <1>3, <2>2
  <2>4. (n + 1) % d = 0 /\ (n + 1) \div d = q + 1
    <3> HIDE DEF e, q, r
    <3> QED BY <2>3, DivMod
  <2> QED BY <2>4, <1>2
<1>4. CASE r # d - 1
  <2>1. n + 1 = d * q + (r + 1) /\ r + 1 \in 0 .. d - 1
    <3>1. n + 1 = e + (r + 1) /\ r + 1 \in 0 .. d - 1
      <4> HIDE DEF e, q, r
      <4> QED BY <1>1, <1>4
    <3> QED BY <3>1
  <2>2. (n + 1) % d = r + 1 /\ (n + 1) \div d = q
    <3> HIDE DEF e, q, r
    <3> QED BY <2>1, <1>1, DivMod
  <2>3. r + 1 # 0
    BY <1>1
  <2> QED BY <2>2, <2>3, <1>2
<1> QED
  BY <1>3, <1>4

LEMMA OctetFacts == Octet \in Nat \ {0} /\ Octet >= 2
BY LabAssumption

LEMMA CardinalityIs == \A S : Rule!Cardinality(S) = Cardinality(S)
BY DEF Rule!Cardinality, Cardinality

\* The first address of a remainder from low on: it has that remainder, and
\* those after it have it at every modulus.
LEMMA FirstCongruent ==
    ASSUME NEW low \in Int, NEW r \in 0 .. Octet - 1, NEW first \in Int,
           first = low + ((r - low) % Octet)
    PROVE  /\ first \in Int /\ first >= low /\ first % Octet = r
           /\ \A h \in Int : h >= first => (h % Octet = r <=> (h - first) % Octet = 0)
           /\ \A h \in Int : low <= h /\ h < first => h % Octet # r
<1> DEFINE q == (r - low) \div Octet
           m == (r - low) % Octet
           e == Octet * q
<1>0. r \in Int /\ Octet \in Nat \ {0} /\ 0 \in 0 .. Octet - 1 /\ r - low \in Int
  BY OctetFacts
<1>1. q \in Int /\ m \in 0 .. Octet - 1 /\ r - low = e + m /\ e \in Int
  BY <1>0, DivFacts
<1>2. first = low + m
  OBVIOUS
<1>3. Octet * (0 - q) = 0 - e
  <2>1. Octet * (0 - q) = Octet * 0 - Octet * q /\ Octet * 0 = 0
    BY <1>0, <1>1, Distributes
  <2> QED BY <2>1
<1>4. first = Octet * (0 - q) + r /\ first \in Int /\ 0 - q \in Int
  <2> HIDE DEF q, m, e
  <2> QED BY <1>0, <1>1, <1>2, <1>3
<1>5. first % Octet = r
  BY <1>0, <1>4, DivMod
<1>6. ASSUME NEW h \in Int PROVE h % Octet = r <=> (h - first) % Octet = 0
  <2> DEFINE a == h \div Octet
             b == (h - first) \div Octet
  <2>1. a \in Int /\ h = Octet * a + (h % Octet) /\ h % Octet \in Int
    BY <1>0, DivFacts
  <2>2. b \in Int /\ h - first = Octet * b + ((h - first) % Octet) /\ (h - first) % Octet \in Int
    BY <1>0, <1>4, DivFacts
  <2>3. Octet * (a + q) = Octet * a + e /\ Octet * (b - q) = Octet * b - e
    BY <1>0, <1>1, <2>1, <2>2, Distributes
  <2>4. ASSUME h % Octet = r PROVE (h - first) % Octet = 0
    <3>1. h - first = Octet * (a + q) + 0 /\ a + q \in Int /\ h - first \in Int
      <4>0. Octet * a \in Int
        BY <2>1, <1>0
      <4> DEFINE oa == Octet * a
                 oaq == Octet * (a + q)
      <4>1. h = oa + r /\ oaq = oa + e /\ oa \in Int
        BY <2>1, <2>3, <2>4, <4>0
      <4>2. h - first = oaq + 0
        <5> HIDE DEF oa, oaq, a, b, q, m, e
        <5> QED BY <4>1, <1>0, <1>1, <1>2
      <4> QED BY <4>2, <2>1, <1>1, <1>4
    <3> HIDE DEF a, b, q, m, e
    <3> QED BY <3>1, <1>0, DivMod
  <2>5. ASSUME (h - first) % Octet = 0 PROVE h % Octet = r
    <3>1. h = Octet * (b - q) + r /\ b - q \in Int
      <4>0. Octet * b \in Int
        BY <2>2, <1>0
      <4> DEFINE ob == Octet * b
                 obq == Octet * (b - q)
      <4>1. h - first = ob /\ obq = ob - e /\ ob \in Int
        BY <2>2, <2>3, <2>5, <4>0
      <4>2. h = obq + r
        <5> HIDE DEF ob, obq, a, b, q, m, e
        <5> QED BY <4>1, <1>0, <1>1, <1>2
      <4> QED BY <4>2, <2>2, <1>1
    <3> HIDE DEF a, b, q, m, e
    <3> QED BY <3>1, <1>0, DivMod
  <2> QED BY <2>4, <2>5
<1>7. ASSUME NEW h \in Int, low <= h, h < first, h % Octet = r PROVE FALSE
  <2> DEFINE d == first - h
  <2>1. d \in 1 .. Octet - 1 /\ 0 - d = h - first /\ h - first \in Int
    <3>1. m \in Int /\ m <= Octet - 1 /\ low <= h /\ h < low + m
      <4> HIDE DEF q, e
      <4> QED BY <1>0, <1>1, <1>2, <1>7
    <3> HIDE DEF q, m, e
    <3> QED BY <3>1, <1>0, <1>2, <1>4
  <2>2. (h - first) % Octet = 0
    BY <1>6, <1>7
  <2> DEFINE b == (h - first) \div Octet
  <2>3. b \in Int /\ h - first = Octet * b + 0 /\ Octet * (0 - b) = Octet * 0 - Octet * b /\ Octet * 0 = 0
    BY <1>0, <2>1, <2>2, DivFacts, Distributes
  <2> DEFINE ob == Octet * b
             on == Octet * (0 - b)
  <2>4. d = Octet * (0 - b)
    <3>1. h - first = ob /\ on = 0 - ob /\ ob \in Int
      BY <2>3, <1>0
    <3>2. d = on
      <4> HIDE DEF ob, on, b, q, m, e
      <4> QED BY <3>1, <2>1
    <3> QED BY <3>2
  <2>5. d = Octet * (0 - b) + 0 /\ d = Octet * 0 + d /\ 0 - b \in Int /\ d \in 0 .. Octet - 1
    BY <2>1, <2>3, <2>4
  <2>6. d = 0
    <3> HIDE DEF d, b
    <3> QED BY <2>5, <1>0, DivUnique
  <2> QED BY <2>1, <2>6
<1>8. first >= low
  <2> HIDE DEF q, m, e
  <2> QED BY <1>1, <1>2
<1> QED
  BY <1>4, <1>5, <1>6, <1>7, <1>8

\* Adding one address to an interval adds one to the count iff it has the
\* remainder.
LEMMA CountOfNext ==
    ASSUME NEW low \in Int, NEW h \in Int, low <= h + 1, NEW r \in 0 .. Octet - 1
    PROVE  /\ Rule!CountCongruent(low, h, r) \in Nat
           /\ Rule!CountCongruent(low, h + 1, r)
                = IF (h + 1) % Octet = r THEN Rule!CountCongruent(low, h, r) + 1 ELSE Rule!CountCongruent(low, h, r)
<1> DEFINE first == low + ((r - low) % Octet)
           C(k) == Rule!CountCongruent(low, k, r)
<1>0. first = low + ((r - low) % Octet)
  OBVIOUS
<1>1. /\ first \in Int /\ first >= low
      /\ \A k \in Int : k >= first => (k % Octet = r <=> (k - first) % Octet = 0)
      /\ \A k \in Int : low <= k /\ k < first => k % Octet # r
  <2>1. first \in Int
    BY OctetFacts, DivFacts
  <2> HIDE DEF first
  <2> QED BY <1>0, <2>1, FirstCongruent
<1>2. \A k \in Int : C(k) = IF first > k THEN 0 ELSE ((k - first) \div Octet) + 1
  BY DEF Rule!CountCongruent
<1> HIDE DEF first, C
<1>3. CASE first > h + 1
  <2>1. C(h) = 0 /\ C(h + 1) = 0 /\ (h + 1) % Octet # r
    BY <1>1, <1>2, <1>3
  <2> QED BY <2>1 DEF C
<1>4. CASE first = h + 1
  <2>1. (h + 1) - first = Octet * 0 + 0 /\ 0 \in 0 .. Octet - 1 /\ (h + 1) - first \in Int /\ (h + 1) - first = 0
    BY <1>1, <1>4, OctetFacts
  <2>2. ((h + 1) - first) % Octet = 0 /\ ((h + 1) - first) \div Octet = 0
    BY <2>1, OctetFacts, DivMod
  <2>3. (h + 1) % Octet = r
    BY <1>1, <1>4, <2>2
  <2>4. C(h) = 0 /\ C(h + 1) = 1
    BY <1>1, <1>2, <1>4, <2>2
  <2> QED BY <2>3, <2>4 DEF C
<1>5. CASE first <= h
  <2> DEFINE n == h - first
  <2>1. n \in Nat /\ (h + 1) - first = n + 1
    BY <1>1, <1>5
  <2>2. (h + 1) % Octet = r <=> (n + 1) % Octet = 0
    BY <1>1, <1>5, <2>1
  <2>3. C(h) = (n \div Octet) + 1 /\ C(h + 1) = ((n + 1) \div Octet) + 1
    BY <1>1, <1>2, <1>5, <2>1
  <2>4. n \div Octet \in Nat
        /\ (n + 1) \div Octet = IF (n + 1) % Octet = 0 THEN n \div Octet + 1 ELSE n \div Octet
    BY <2>1, OctetFacts, DivOfNext
  <2> HIDE DEF n
  <2> DEFINE q == n \div Octet
             p == (n + 1) \div Octet
             one == (n + 1) % Octet = 0
  <2>5. q \in Nat /\ p = (IF one THEN q + 1 ELSE q) /\ C(h) = q + 1 /\ C(h + 1) = p + 1 /\ (one <=> (h + 1) % Octet = r)
    BY <2>2, <2>3, <2>4
  <2> HIDE DEF q, p, one
  <2>6. C(h) \in Nat /\ C(h + 1) = IF one THEN C(h) + 1 ELSE C(h)
    BY <2>5
  <2> QED BY <2>5, <2>6 DEF C
<1> QED
  BY <1>1, <1>3, <1>4, <1>5

LEMMA DisjointSum ==
    ASSUME NEW S, NEW T, IsFiniteSet(S), IsFiniteSet(T), S \cap T = {}
    PROVE  IsFiniteSet(S \cup T) /\ Cardinality(S \cup T) = Cardinality(S) + Cardinality(T)
BY FS_Union, FS_EmptySet, FS_CardinalityType

Congruents(low, high, r) == {a \in low .. high : a % Octet = r}

\* _count_congruent(): the closed form counts.
LEMMA CountCounts ==
    ASSUME NEW low \in Int, NEW r \in 0 .. Octet - 1, NEW high \in Int, low <= high + 1
    PROVE  /\ IsFiniteSet(Congruents(low, high, r))
           /\ Cardinality(Congruents(low, high, r)) = Rule!CountCongruent(low, high, r)
<1> DEFINE C(h) == Rule!CountCongruent(low, h, r)
           S(h) == Congruents(low, h, r)
           T == {k \in Nat : IsFiniteSet(S(low - 1 + k)) /\ Cardinality(S(low - 1 + k)) = C(low - 1 + k)}
<1>1. 0 \in T
  <2>1. S(low - 1) = {}
    BY DEF Congruents
  <2> DEFINE first == low + ((r - low) % Octet)
  <2>2. first > low - 1
    <3>1. (r - low) % Octet \in Nat
      BY OctetFacts, DivFacts
    <3> QED BY <3>1
  <2>3. C(low - 1) = 0
    BY <2>2 DEF Rule!CountCongruent
  <2>4. low - 1 + 0 = low - 1
    OBVIOUS
  <2> QED BY <2>1, <2>3, <2>4, FS_EmptySet
<1>2. ASSUME NEW k \in Nat, k \in T PROVE k + 1 \in T
  <2> DEFINE h == low - 1 + k
  <2>1. h \in Int /\ low <= h + 1 /\ low - 1 + (k + 1) = h + 1
    OBVIOUS
  <2>2. IsFiniteSet(S(h)) /\ Cardinality(S(h)) = C(h)
    BY <1>2
  <2> HIDE DEF h, T, C
  <2>3. C(h + 1) = IF (h + 1) % Octet = r THEN C(h) + 1 ELSE C(h)
    BY <2>1, CountOfNext DEF C
  <2>4. S(h + 1) = IF (h + 1) % Octet = r THEN S(h) \cup {h + 1} ELSE S(h)
    BY <2>1 DEF Congruents
  <2>5. h + 1 \notin S(h)
    BY <2>1 DEF Congruents
  <2> HIDE DEF S
  <2>6. IsFiniteSet(S(h + 1)) /\ Cardinality(S(h + 1)) = C(h + 1)
    BY <2>2, <2>3, <2>4, <2>5, FS_AddElement
  <2> QED BY <2>1, <2>6 DEF T
<1>3. \A k \in Nat : k \in T
  <2> HIDE DEF T
  <2> QED BY <1>1, <1>2, Induction
<1>4. high - low + 1 \in Nat /\ low - 1 + (high - low + 1) = high
  OBVIOUS
<1>5. high - low + 1 \in T
  BY <1>3, <1>4
<1> QED
  BY <1>4, <1>5

\* _usable_pool_size(): what is left of a span without the octets the Installer
\* ignores.
LEMMA UsableCounts ==
    ASSUME NEW s \in Rule!Span
    PROVE  Rule!UsablePoolSize(s) = Cardinality(Rule!InstallerCounts(s))
<1>1. s.lo \in Int /\ s.hi \in Int
  BY DEF Rule!Span
<1>2. CASE s.hi < s.lo
  <2>1. Rule!InstallerCounts(s) = {}
    BY <1>1, <1>2 DEF Rule!InstallerCounts, Rule!Addresses
  <2> QED BY <1>2, <2>1, FS_EmptySet DEF Rule!UsablePoolSize
<1>3. CASE s.lo <= s.hi
  <2> DEFINE all == s.lo .. s.hi
             used == Rule!InstallerCounts(s)
             zero == Congruents(s.lo, s.hi, 0)
             last == Congruents(s.lo, s.hi, Octet - 1)
  <2>1. /\ IsFiniteSet(all) /\ Cardinality(all) = s.hi - s.lo + 1
    BY <1>1, <1>3, FS_Interval
  <2>2. 0 \in 0 .. Octet - 1 /\ Octet - 1 \in 0 .. Octet - 1 /\ 0 # Octet - 1
    BY OctetFacts
  <2>3. /\ IsFiniteSet(zero) /\ Cardinality(zero) = Rule!CountCongruent(s.lo, s.hi, 0)
        /\ IsFiniteSet(last) /\ Cardinality(last) = Rule!CountCongruent(s.lo, s.hi, Octet - 1)
    BY <1>1, <1>3, <2>2, CountCounts
  <2>4. all = used \cup (zero \cup last) /\ used \cap (zero \cup last) = {} /\ zero \cap last = {}
        /\ used \subseteq all
    BY <2>2 DEF Rule!InstallerCounts, Rule!Addresses, Congruents
  <2>5. Rule!UsablePoolSize(s) = Rule!Size(s) - Cardinality(zero) - Cardinality(last)
        /\ Rule!Size(s) = Cardinality(all)
    <3>1. ~(s.hi < s.lo)
      BY <1>1, <1>3
    <3>2. Rule!UsablePoolSize(s) = Rule!Size(s) - Rule!CountCongruent(s.lo, s.hi, 0)
                                     - Rule!CountCongruent(s.lo, s.hi, Octet - 1)
      BY <3>1 DEF Rule!UsablePoolSize
    <3> QED BY <3>1, <3>2, <2>1, <2>3 DEF Rule!Size
  <2> HIDE DEF all, used, zero, last
  <2>6. IsFiniteSet(zero \cup last) /\ Cardinality(zero \cup last) = Cardinality(zero) + Cardinality(last)
    BY <2>3, <2>4, DisjointSum
  <2>7. IsFiniteSet(used)
    BY <2>1, <2>4, FS_Subset
  <2>8. Cardinality(all) = Cardinality(used) + Cardinality(zero \cup last)
    BY <2>4, <2>6, <2>7, DisjointSum
  <2>9. Cardinality(used) \in Int /\ Cardinality(zero) \in Int /\ Cardinality(last) \in Int
    BY <2>3, <2>7, FS_CardinalityType
  <2>10. Rule!UsablePoolSize(s) = Cardinality(used)
    BY <2>5, <2>6, <2>8, <2>9
  <2> QED BY <2>10 DEF used
<1> QED
  BY <1>1, <1>2, <1>3

\* A sum, number by number, exists and goes on by what it adds.
LEMMA SumsExist ==
    ASSUME NEW f, NEW n \in Nat
    PROVE  \E g : g = [k \in 0 .. n |-> IF k = 0 THEN 0 ELSE g[k - 1] + f[k]]
<1> DEFINE T == {m \in Nat : \E g : g = [k \in 0 .. m |-> IF k = 0 THEN 0 ELSE g[k - 1] + f[k]]}
<1>1. 0 \in T
  <2> DEFINE g == [k \in 0 .. 0 |-> 0]
  <2>1. g = [k \in 0 .. 0 |-> IF k = 0 THEN 0 ELSE g[k - 1] + f[k]]
    OBVIOUS
  <2> HIDE DEF g
  <2> QED BY <2>1
<1>2. ASSUME NEW m \in Nat, m \in T PROVE m + 1 \in T
  <2>1. PICK g : g = [k \in 0 .. m |-> IF k = 0 THEN 0 ELSE g[k - 1] + f[k]]
    BY <1>2
  <2> DEFINE h == [k \in 0 .. m + 1 |-> IF k = m + 1 THEN g[m] + f[m + 1] ELSE g[k]]
  <2>2. ASSUME NEW k \in 0 .. m + 1 PROVE h[k] = IF k = 0 THEN 0 ELSE h[k - 1] + f[k]
    <3>1. CASE k = m + 1
      <4>1. k - 1 = m /\ m \in 0 .. m + 1 /\ m # m + 1 /\ k # 0
        BY <3>1
      <4> QED BY <3>1, <4>1
    <3>2. CASE k = 0
      BY <3>2, <2>1
    <3>3. CASE k # 0 /\ k # m + 1
      <4>1. k \in 0 .. m /\ k - 1 \in 0 .. m + 1 /\ k - 1 # m + 1
        BY <3>3
      <4> QED BY <3>3, <4>1, <2>1
    <3> QED BY <3>1, <3>2, <3>3
  <2>3. h = [k \in 0 .. m + 1 |-> h[k]]
    OBVIOUS
  <2> HIDE DEF h
  <2>4. h = [k \in 0 .. m + 1 |-> IF k = 0 THEN 0 ELSE h[k - 1] + f[k]]
    BY <2>2, <2>3
  <2> QED BY <2>4
<1> HIDE DEF T
<1>3. n \in T
  BY <1>1, <1>2, Induction
<1> QED
  BY <1>3 DEF T

LEMMA SumFacts ==
    ASSUME NEW n \in Nat, NEW f \in [1 .. n -> Nat]
    PROVE  /\ Rule!SumsOf(n, f)[0] = 0
           /\ \A k \in 1 .. n : Rule!SumsOf(n, f)[k] = Rule!SumsOf(n, f)[k - 1] + f[k]
           /\ \A k \in 0 .. n : Rule!SumsOf(n, f)[k] \in Nat
<1> DEFINE s == Rule!SumsOf(n, f)
<1>1. s = [k \in 0 .. n |-> IF k = 0 THEN 0 ELSE s[k - 1] + f[k]]
  BY SumsExist DEF Rule!SumsOf
<1> HIDE DEF s
<1>2. s[0] = 0
  BY <1>1
<1>3. \A k \in 1 .. n : s[k] = s[k - 1] + f[k]
  <2> TAKE k \in 1 .. n
  <2>1. k \in 0 .. n /\ k # 0
    OBVIOUS
  <2> QED BY <1>1, <2>1
<1> DEFINE T == {k \in Nat : k <= n => s[k] \in Nat}
<1>4. 0 \in T
  BY <1>2
<1>5. ASSUME NEW k \in Nat, k \in T PROVE k + 1 \in T
  <2> SUFFICES ASSUME k + 1 <= n PROVE s[k + 1] \in Nat
    OBVIOUS
  <2>1. k + 1 \in 1 .. n /\ (k + 1) - 1 = k /\ s[k] \in Nat
    BY <1>5
  <2> QED BY <2>1, <1>3
<1> HIDE DEF T
<1>6. \A k \in Nat : k \in T
  BY <1>4, <1>5, Induction
<1>7. \A k \in 0 .. n : s[k] \in Nat
  BY <1>6 DEF T
<1> QED
  BY <1>2, <1>3, <1>7 DEF s

\* Leaving out one number of a sum takes that number from it.
LEMMA SumWithout ==
    ASSUME NEW n \in Nat, NEW f \in [1 .. n -> Nat], NEW g \in [1 .. n -> Nat], NEW lost \in 1 .. n,
           g[lost] = 0, \A k \in 1 .. n : k # lost => g[k] = f[k]
    PROVE  Rule!Sum(n, g) = Rule!Sum(n, f) - f[lost]
<1> DEFINE s == Rule!SumsOf(n, f)
           r == Rule!SumsOf(n, g)
           T == {k \in Nat : k <= n => r[k] = IF k < lost THEN s[k] ELSE s[k] - f[lost]}
<1>1. /\ s[0] = 0 /\ \A k \in 1 .. n : s[k] = s[k - 1] + f[k]
      /\ \A k \in 0 .. n : s[k] \in Nat
  BY SumFacts
<1>2. /\ r[0] = 0 /\ \A k \in 1 .. n : r[k] = r[k - 1] + g[k]
      /\ \A k \in 0 .. n : r[k] \in Nat
  BY SumFacts
<1> HIDE DEF s, r
<1>3. 0 \in T
  <2>1. r[0] = 0 /\ s[0] = 0 /\ 0 < lost
    BY <1>1, <1>2
  <2> QED BY <2>1
<1>4. ASSUME NEW k \in Nat, k \in T PROVE k + 1 \in T
  <2> SUFFICES ASSUME k + 1 <= n PROVE r[k + 1] = IF k + 1 < lost THEN s[k + 1] ELSE s[k + 1] - f[lost]
    OBVIOUS
  <2>1. /\ k + 1 \in 1 .. n /\ k \in 0 .. n /\ (k + 1) - 1 = k
        /\ r[k] = IF k < lost THEN s[k] ELSE s[k] - f[lost]
    BY <1>4
  <2>2. s[k + 1] = s[k] + f[k + 1] /\ r[k + 1] = r[k] + g[k + 1] /\ s[k] \in Nat
        /\ f[k + 1] \in Nat /\ f[lost] \in Nat
    BY <2>1, <1>1, <1>2
  <2>3. CASE k + 1 = lost
    <3>1. g[k + 1] = 0 /\ f[k + 1] = f[lost] /\ k < lost
      BY <2>3
    <3>2. r[k] = s[k] /\ r[k] \in Nat
      BY <2>1, <2>2, <3>1
    <3>3. r[k + 1] = s[k] /\ s[k + 1] = s[k] + f[lost]
      BY <2>2, <3>1, <3>2
    <3>4. r[k + 1] = s[k + 1] - f[lost]
      BY <2>2, <3>3
    <3> QED BY <2>3, <3>4
  <2>4. CASE k + 1 # lost
    <3>1. g[k + 1] = f[k + 1]
      BY <2>1, <2>4
    <3> QED BY <2>1, <2>2, <2>4, <3>1
  <2> QED BY <2>3, <2>4
<1> HIDE DEF T
<1>5. n \in T
  BY <1>3, <1>4, Induction
<1>6. r[n] = s[n] - f[lost]
  BY <1>5 DEF T
<1> QED
  BY <1>6 DEF r, s, Rule!Sum

LEMMA DocTypes ==
    ASSUME doc \in Rulings
    PROVE  /\ doc.net \in [Rule!Purposes -> Rule!Subnet] /\ doc.pool \in Rule!Span /\ doc.tep \in Seq(Rule!Span)
           /\ doc.mgmtIp \in Seq(Int) /\ doc.ram \in Seq(Nat) /\ Len(doc.tep) \in Nat /\ Len(doc.ram) \in Nat
           /\ Rule!Hosts \in Nat
<1>1. doc \in Rule!Inventory
  BY LabAssumption
<1>2. /\ doc.net \in [Rule!Purposes -> Rule!Subnet] /\ doc.pool \in Rule!Span /\ doc.tep \in Seq(Rule!Span)
      /\ doc.mgmtIp \in Seq(Int) /\ doc.ram \in Seq(Nat)
  BY <1>1 DEF Rule!Inventory
<1> QED
  BY <1>2 DEF Rule!Hosts

\* Ranges without a common address: their sizes add up to the addresses of all.
LEMMA TepCounts ==
    ASSUME NEW t \in Seq(Rule!Span), Rule!Disjoint(t)
    PROVE  Rule!Sum(Len(t), [i \in 1 .. Len(t) |-> Rule!Size(t[i])])
             = Cardinality(UNION {Rule!Addresses(s) : s \in Rule!ToSet(t)})
<1> DEFINE n == Len(t)
           f == [i \in 1 .. n |-> Rule!Size(t[i])]
           s == Rule!SumsOf(n, f)
           U(k) == UNION {Rule!Addresses(t[i]) : i \in 1 .. k}
           T == {k \in Nat : k <= n => IsFiniteSet(U(k)) /\ Cardinality(U(k)) = s[k]}
<1>1. n \in Nat /\ DOMAIN t = 1 .. n
  OBVIOUS
<1>2. ASSUME NEW i \in 1 .. n
      PROVE  /\ IsFiniteSet(Rule!Addresses(t[i])) /\ Cardinality(Rule!Addresses(t[i])) = Rule!Size(t[i])
             /\ Rule!Size(t[i]) \in Nat
  <2>1. t[i] \in Rule!Span
    BY <1>1
  <2>2. t[i].lo \in Int /\ t[i].hi \in Int
    BY <2>1 DEF Rule!Span
  <2> DEFINE lo == t[i].lo
             hi == t[i].hi
  <2>3. /\ Rule!Addresses(t[i]) = lo .. hi /\ Rule!Size(t[i]) = IF hi < lo THEN 0 ELSE hi - lo + 1
        /\ lo \in Int /\ hi \in Int
    BY <2>2 DEF Rule!Addresses, Rule!Size
  <2> HIDE DEF lo, hi
  <2>4. IsFiniteSet(lo .. hi) /\ Cardinality(lo .. hi) = IF lo > hi THEN 0 ELSE hi - lo + 1
    BY <2>3, FS_Interval
  <2>5. Cardinality(lo .. hi) = Rule!Size(t[i]) /\ Rule!Size(t[i]) \in Nat
    BY <2>3, <2>4
  <2> QED BY <2>3, <2>4, <2>5
<1>3. f \in [1 .. n -> Nat]
  BY <1>2
<1>4. /\ s[0] = 0 /\ \A k \in 1 .. n : s[k] = s[k - 1] + f[k]
  BY <1>1, <1>3, SumFacts
<1>5. 0 \in T
  <2>1. U(0) = {}
    OBVIOUS
  <2> QED BY <2>1, <1>4, FS_EmptySet
<1>6. ASSUME NEW k \in Nat, k \in T PROVE k + 1 \in T
  <2> SUFFICES ASSUME k + 1 <= n PROVE IsFiniteSet(U(k + 1)) /\ Cardinality(U(k + 1)) = s[k + 1]
    OBVIOUS
  <2>1. k + 1 \in 1 .. n /\ (k + 1) - 1 = k /\ k <= n
    BY <1>1
  <2>2. IsFiniteSet(U(k)) /\ Cardinality(U(k)) = s[k]
    BY <1>6, <2>1
  <2>3. U(k + 1) = U(k) \cup Rule!Addresses(t[k + 1])
    <3>1. 1 .. k + 1 = 1 .. k \cup {k + 1}
      OBVIOUS
    <3> QED BY <3>1
  <2>4. U(k) \cap Rule!Addresses(t[k + 1]) = {}
    <3> SUFFICES ASSUME NEW i \in 1 .. k, NEW a \in Rule!Addresses(t[i]), a \in Rule!Addresses(t[k + 1]) PROVE FALSE
      OBVIOUS
    <3>1. i \in 1 .. Len(t) /\ k + 1 \in 1 .. Len(t) /\ i # k + 1
      BY <2>1
    <3> QED BY <3>1 DEF Rule!Disjoint
  <2>5. s[k + 1] = s[k] + Rule!Size(t[k + 1])
    BY <1>4, <2>1
  <2> HIDE DEF U, s
  <2> QED BY <2>1, <2>2, <2>3, <2>4, <2>5, <1>2, DisjointSum
<1>7. \A k \in Nat : k \in T
  <2> HIDE DEF T
  <2> QED BY <1>5, <1>6, Induction
<1>8. U(n) = UNION {Rule!Addresses(x) : x \in Rule!ToSet(t)}
  BY <1>1 DEF Rule!ToSet
<1>9. Cardinality(U(n)) = s[n]
  <2>1. n \in T /\ n <= n
    <3> HIDE DEF T
    <3> QED BY <1>1, <1>7
  <2> HIDE DEF U, s, n
  <2> QED BY <2>1
<1>10. Rule!Sum(n, f) = s[n]
  BY DEF Rule!Sum
<1> QED
  BY <1>8, <1>9, <1>10

LEMMA HostRamNat ==
    ASSUME doc \in Rulings, NEW i \in 1 .. Len(doc.ram)
    PROVE  Rule!HostRam(i) \in Nat
<1>1. doc.ram[i] \in Nat
  <2>1. doc.ram \in Seq(Nat)
    BY DocTypes
  <2> QED BY <2>1
<1>2. Overhead \in Nat
  BY LabAssumption
<1> QED
  BY <1>1, <1>2 DEF Rule!HostRam

\* Some host is the largest.
LEMMA LargestIsThere ==
    ASSUME doc \in Rulings, Rule!Known # {}
    PROVE  \E i \in Rule!Known :
              Rule!LargestRam = Rule!HostRam(i) /\ \A j \in Rule!Known : Rule!HostRam(j) <= Rule!HostRam(i)
<1> DEFINE K == Rule!Known
           T == {k \in Nat : (\E i \in K : i <= k) =>
                   \E i \in K : i <= k /\ \A j \in K : j <= k => Rule!HostRam(j) <= Rule!HostRam(i)}
           n == Len(doc.ram)
<1>1. K \subseteq 1 .. n /\ n \in Nat /\ \A i \in K : Rule!HostRam(i) \in Nat
  BY HostRamNat, DocTypes DEF Rule!Known
<1> HIDE DEF K, n
<1>2. 0 \in T
  BY <1>1
<1>3. ASSUME NEW k \in Nat, k \in T PROVE k + 1 \in T
  <2> SUFFICES ASSUME \E i \in K : i <= k + 1
      PROVE  \E i \in K : i <= k + 1 /\ \A j \in K : j <= k + 1 => Rule!HostRam(j) <= Rule!HostRam(i)
    OBVIOUS
  <2>1. CASE k + 1 \notin K
    <3>1. \A i \in K : i <= k + 1 => i <= k
      <4> SUFFICES ASSUME NEW i \in K, i <= k + 1 PROVE i <= k
        OBVIOUS
      <4>1. i \in Int /\ i # k + 1
        BY <2>1, <1>1
      <4> QED BY <4>1
    <3>2. PICK i \in K : i <= k /\ \A j \in K : j <= k => Rule!HostRam(j) <= Rule!HostRam(i)
      BY <3>1, <1>3
    <3>3. i <= k + 1
      BY <3>2, <1>1
    <3> QED BY <3>1, <3>2, <3>3
  <2>2. CASE k + 1 \in K /\ \E i \in K : i <= k
    <3>1. PICK i \in K : i <= k /\ \A j \in K : j <= k => Rule!HostRam(j) <= Rule!HostRam(i)
      BY <2>2, <1>3
    <3>2. i <= k + 1 /\ \A j \in K : j <= k + 1 => j <= k \/ j = k + 1
      BY <3>1, <1>1
    <3>3. CASE Rule!HostRam(i) >= Rule!HostRam(k + 1)
      BY <3>1, <3>2, <3>3, <1>1
    <3>4. CASE Rule!HostRam(i) < Rule!HostRam(k + 1)
      <4>1. \A j \in K : j <= k + 1 => Rule!HostRam(j) <= Rule!HostRam(k + 1)
        BY <3>1, <3>2, <3>4, <2>2, <1>1
      <4> QED BY <4>1, <2>2
    <3> QED BY <3>3, <3>4, <1>1, <2>2
  <2>3. CASE k + 1 \in K /\ ~\E i \in K : i <= k
    <3>1. \A j \in K : j <= k + 1 => j = k + 1
      BY <2>3, <1>1
    <3> QED BY <3>1, <2>3, <1>1
  <2> QED BY <2>1, <2>2, <2>3
<1>4. n \in T
  <2> HIDE DEF T
  <2> QED BY <1>1, <1>2, <1>3, Induction
<1>5. \E i \in K : \A j \in K : Rule!HostRam(j) <= Rule!HostRam(i)
  <2>1. \A i \in K : i <= n
    BY <1>1
  <2>2. K # {}
    BY DEF K
  <2>3. \E i \in K : i <= n /\ \A j \in K : j <= n => Rule!HostRam(j) <= Rule!HostRam(i)
    BY <2>1, <2>2, <1>4
  <2> QED BY <2>1, <2>3
<1> QED
  BY <1>5 DEF Rule!LargestRam, K

LEMMA LargestRamNat == ASSUME doc \in Rulings, Rule!Known # {} PROVE Rule!LargestRam \in Nat
<1>1. PICK i \in Rule!Known : Rule!LargestRam = Rule!HostRam(i)
  BY LargestIsThere
<1> QED
  BY <1>1, HostRamNat DEF Rule!Known

LEMMA RamOfNat == ASSUME doc \in Rulings, NEW is PROVE Rule!RamOf(is) \in Nat
<1> DEFINE n == Len(doc.ram)
           f == [i \in 1 .. n |-> IF i \in is THEN Rule!HostRam(i) ELSE 0]
<1>1. n \in Nat
  BY DocTypes
<1>2. f \in [1 .. n -> Nat]
  BY HostRamNat
<1>3. Rule!RamOf(is) = Rule!Sum(n, f)
  BY DEF Rule!RamOf
<1> HIDE DEF f, n
<1>4. \A k \in 0 .. n : Rule!SumsOf(n, f)[k] \in Nat
  BY <1>1, <1>2, SumFacts
<1> QED
  BY <1>1, <1>3, <1>4 DEF Rule!Sum

LEMMA WithoutOneInt == ASSUME doc \in Rulings, Rule!Known # {} PROVE Rule!WithoutOne \in Int
BY LargestRamNat, RamOfNat DEF Rule!WithoutOne, Rule!TotalRam

\* Memory enough without the largest host is enough without any one.
LEMMA EnoughWithoutAny ==
    ASSUME doc \in Rulings, NEW lost \in Rule!Known, Rule!WithoutOne >= StackRam
    PROVE  Rule!RamOf(Rule!Known \ {lost}) >= StackRam
<1> DEFINE n == Len(doc.ram)
           f == [i \in 1 .. n |-> IF i \in Rule!Known THEN Rule!HostRam(i) ELSE 0]
           g == [i \in 1 .. n |-> IF i \in Rule!Known \ {lost} THEN Rule!HostRam(i) ELSE 0]
<1>1. n \in Nat /\ lost \in 1 .. n
  BY DocTypes DEF Rule!Known
<1>2. f \in [1 .. n -> Nat] /\ g \in [1 .. n -> Nat]
  BY HostRamNat
<1>3. g[lost] = 0 /\ f[lost] = Rule!HostRam(lost) /\ \A k \in 1 .. n : k # lost => g[k] = f[k]
  BY <1>1
<1>4. Rule!TotalRam = Rule!Sum(n, f) /\ Rule!RamOf(Rule!Known \ {lost}) = Rule!Sum(n, g)
  BY DEF Rule!TotalRam, Rule!RamOf
<1> HIDE DEF f, g, n
<1>5. Rule!Sum(n, g) = Rule!Sum(n, f) - f[lost]
  BY <1>1, <1>2, <1>3, SumWithout
<1>6. Rule!HostRam(lost) <= Rule!LargestRam /\ Rule!HostRam(lost) \in Nat
  BY <1>1, LargestIsThere, HostRamNat DEF n
<1>7. Rule!Sum(n, f) \in Nat /\ Rule!LargestRam \in Nat /\ StackRam \in Nat
  BY <1>4, RamOfNat, LargestRamNat, LabAssumption DEF Rule!TotalRam
<1>8. Rule!WithoutOne = Rule!Sum(n, f) - Rule!LargestRam
  BY <1>4 DEF Rule!WithoutOne
<1> QED
  BY <1>3, <1>4, <1>5, <1>6, <1>7, <1>8

AllFindings ==
    Rule!GatewayRules \cup Rule!OverlapRules \cup Rule!VlanRules \cup Rule!HostRules
    \cup Rule!TepPoolRules \cup Rule!IpPoolRules \cup Rule!VspRules \cup Rule!CapacityRules

RuleInv ==
    /\ doc \in Rulings /\ judging \in {"judge", "judged"}
    /\ judging = "judged" => judged = AllFindings

LEMMA RuleInit == Rule!Init => RuleInv
BY DEF Rule!Init, RuleInv

LEMMA SameFindings == ASSUME UNCHANGED doc PROVE AllFindings' = AllFindings
BY DEF AllFindings, Rule!GatewayRules, Rule!OverlapRules, Rule!VlanRules, Rule!HostRules, Rule!TepPoolRules,
       Rule!IpPoolRules, Rule!VspRules, Rule!CapacityRules, Rule!Usable, Rule!Hosts, Rule!TepSize, Rule!Known,
       Rule!TotalRam, Rule!RamOf, Rule!WithoutOne, Rule!LargestRam, Rule!HostRam

LEMMA RuleNext == RuleInv /\ Rule!Next => RuleInv'
<1> SUFFICES ASSUME RuleInv, Rule!Next PROVE RuleInv'
  OBVIOUS
<1>1. judged' = AllFindings /\ UNCHANGED doc /\ judging' = "judged"
  BY DEF Rule!Next, Rule!Judge, AllFindings
<1> QED
  BY <1>1, SameFindings DEF RuleInv

LEMMA RuleRest == RuleInv /\ UNCHANGED ruleVars => RuleInv'
BY SameFindings DEF RuleInv, ruleVars

\* Which rule finds what.
LEMMA WhoFinds ==
    /\ "POOL-TOO-SMALL" \in AllFindings <=> "POOL-TOO-SMALL" \in Rule!IpPoolRules
    /\ "TEP-TOO-SMALL" \in AllFindings <=> "TEP-TOO-SMALL" \in Rule!TepPoolRules
    /\ "OVERLAP" \in AllFindings <=> "OVERLAP" \in Rule!OverlapRules
    /\ Rule!CapacityRules \subseteq AllFindings
<1>1. /\ Rule!GatewayRules \subseteq {"GATEWAY"} /\ Rule!OverlapRules \subseteq {"OVERLAP"}
      /\ Rule!VlanRules \subseteq {"VLAN"} /\ Rule!HostRules \subseteq {"HOST-OUTSIDE", "DUPLICATE-IP"}
      /\ Rule!TepPoolRules \subseteq {"TEP-TOO-SMALL"} /\ Rule!IpPoolRules \subseteq {"POOL-MISSING", "POOL-TOO-SMALL"}
      /\ Rule!VspRules \subseteq {"VSP-TOO-SMALL", "VSP-CROSSES", "VSP-CIDR"}
      /\ Rule!CapacityRules \subseteq {"UNKNOWN-HARDWARE", "RAM-SHORTFALL", "N1-SHORTFALL"}
  BY DEF Rule!GatewayRules, Rule!OverlapRules, Rule!VlanRules, Rule!HostRules, Rule!TepPoolRules,
         Rule!IpPoolRules, Rule!VspRules, Rule!CapacityRules, Rule!Found
<1> QED
  BY <1>1 DEF AllFindings

\* What the closed forms find is what counting finds.
LEMMA RuleProperties == RuleInv => Rule!TypeOK /\ Rule!RulesCountRight
<1> SUFFICES ASSUME RuleInv PROVE Rule!TypeOK /\ Rule!RulesCountRight
  OBVIOUS
<1>1. doc \in Rulings
  BY DEF RuleInv
<1>2. Rule!TypeOK
  BY <1>1, DocTypes DEF RuleInv, Rule!TypeOK, Rule!Span
<1>3. ASSUME judging = "judged", Rule!Given(doc.net["vsan"]), Rule!Given(doc.pool)
      PROVE  "POOL-TOO-SMALL" \in judged <=> Rule!Cardinality(Rule!InstallerCounts(doc.pool)) < Rule!Hosts
  <2>1. "POOL-TOO-SMALL" \in judged <=> Rule!UsablePoolSize(doc.pool) < Rule!Hosts
    BY <1>3, WhoFinds DEF RuleInv, Rule!IpPoolRules, Rule!Found
  <2> QED BY <2>1, <1>1, DocTypes, UsableCounts, CardinalityIs
<1>4. ASSUME judging = "judged", Rule!Disjoint(doc.tep), Rule!Hosts > 0
      PROVE  "TEP-TOO-SMALL" \in judged
                <=> Rule!Cardinality(UNION {Rule!Addresses(s) : s \in Rule!ToSet(doc.tep)}) < 2 * Rule!Hosts
  <2>1. "TEP-TOO-SMALL" \in judged <=> Rule!TepSize < 2 * Rule!Hosts
    BY <1>4, WhoFinds DEF RuleInv, Rule!TepPoolRules, Rule!Found
  <2>2. Rule!TepSize = Cardinality(UNION {Rule!Addresses(s) : s \in Rule!ToSet(doc.tep)})
    BY <1>1, <1>4, DocTypes, TepCounts DEF Rule!TepSize
  <2> QED BY <2>1, <2>2, CardinalityIs
<1>5. ASSUME judging = "judged"
      PROVE  "OVERLAP" \in judged
                <=> Rule!Addresses(doc.net["management"]) \cap Rule!Addresses(doc.net["vsan"]) # {}
  <2> DEFINE a == doc.net["management"]
             b == doc.net["vsan"]
  <2>1. "OVERLAP" \in judged <=> Rule!Overlaps(a, b)
    BY <1>5, WhoFinds DEF RuleInv, Rule!OverlapRules, Rule!Found
  <2>2. a \in Rule!Subnet /\ b \in Rule!Subnet
    BY <1>1, DocTypes DEF Rule!Purposes
  <2> HIDE DEF a, b
  <2>3. ASSUME NEW s \in Rule!Subnet
        PROVE  /\ s.lo \in Int /\ s.hi \in Int
               /\ Rule!Given(s) => s.lo <= s.hi
               /\ ~Rule!Given(s) => Rule!Addresses(s) = {}
    BY DEF Rule!Subnet, Rule!Span, Rule!Given, Rule!Absent, Rule!Addresses
  <2>4. CASE Rule!Given(a) /\ Rule!Given(b)
    <3>1. a.lo \in Int /\ a.hi \in Int /\ b.lo \in Int /\ b.hi \in Int /\ a.lo <= a.hi /\ b.lo <= b.hi
      BY <2>2, <2>3, <2>4
    <3>2. ASSUME Rule!Overlaps(a, b) PROVE Rule!Addresses(a) \cap Rule!Addresses(b) # {}
      <4>1. \/ a.lo \in Rule!Addresses(a) /\ a.lo \in Rule!Addresses(b)
            \/ b.lo \in Rule!Addresses(a) /\ b.lo \in Rule!Addresses(b)
        BY <3>1, <3>2 DEF Rule!Overlaps, Rule!Addresses
      <4> QED BY <4>1
    <3>3. ASSUME NEW x \in Rule!Addresses(a), x \in Rule!Addresses(b) PROVE Rule!Overlaps(a, b)
      BY <3>1, <3>3, <2>4 DEF Rule!Overlaps, Rule!Addresses
    <3> QED BY <3>2, <3>3, <2>1 DEF a, b
  <2>5. CASE ~(Rule!Given(a) /\ Rule!Given(b))
    BY <2>1, <2>2, <2>3, <2>5 DEF Rule!Overlaps, a, b
  <2> QED BY <2>4, <2>5
<1>6. ASSUME judging = "judged", judged \cap {"UNKNOWN-HARDWARE", "RAM-SHORTFALL", "N1-SHORTFALL"} = {},
             NEW lost \in 1 .. Len(doc.ram)
      PROVE  Rule!RamOf(Rule!Known \ {lost}) >= StackRam
  <2>1. Rule!CapacityRules \cap {"UNKNOWN-HARDWARE", "RAM-SHORTFALL", "N1-SHORTFALL"} = {}
    BY <1>6, WhoFinds DEF RuleInv
  <2>2. Rule!Known = 1 .. Len(doc.ram)
    BY <2>1 DEF Rule!CapacityRules, Rule!Found
  <2>3. lost \in Rule!Known /\ Rule!Known # {}
    BY <2>2
  <2>4. ~(Rule!WithoutOne < StackRam)
    BY <2>1, <2>3 DEF Rule!CapacityRules, Rule!Found
  <2>5. Rule!WithoutOne \in Int /\ StackRam \in Int
    BY <1>1, <2>3, WithoutOneInt, LabAssumption
  <2>6. Rule!WithoutOne >= StackRam
    BY <2>4, <2>5
  <2> QED BY <1>1, <2>3, <2>6, EnoughWithoutAny
<1> QED
  BY <1>2, <1>3, <1>4, <1>5, <1>6 DEF Rule!RulesCountRight

-----------------------------------------------------------------------------
(* The composition.                                                        *)

LabInv ==
    /\ part \in {"host", "spec", "diff", "probe", "rule", "depot"}
    /\ part = "host"  => HostInv
    /\ part = "spec"  => SvcInv
    /\ part = "diff"  => DiffInv
    /\ part = "probe" => ProbeInv
    /\ part = "rule"  => RuleInv
    /\ part = "depot" => DepotInv

LEMMA InitLabInv == LabInit => LabInv
BY HostInit, SvcInit, DiffInit, ProbeInit, RuleInit, DepotInit DEF LabInit, LabInv

LEMMA LabInvNext == LabInv /\ [LabNext]_vars => LabInv'
<1> SUFFICES ASSUME LabInv, [LabNext]_vars PROVE LabInv'
  OBVIOUS
<1>1. CASE InHost(Host!Next)
  BY <1>1, HostNext DEF LabInv, InHost
<1>2. CASE InSpec(Svc!Next)
  BY <1>2, SvcNext DEF LabInv, InSpec
<1>3. CASE InDiff(Diff!Next)
  BY <1>3, DiffNext DEF LabInv, InDiff
<1>4. CASE InProbe(Probe!Next)
  BY <1>4, ProbeNext DEF LabInv, InProbe
<1>5. CASE InRule(Rule!Next)
  BY <1>5, RuleNext DEF LabInv, InRule
<1>6. CASE InDepot(Dep!Next)
  BY <1>6, DepotNext DEF LabInv, InDepot
<1>7. CASE UNCHANGED vars
  <2>1. /\ part' = part /\ UNCHANGED hostVars /\ UNCHANGED specVars /\ UNCHANGED diffVars
        /\ UNCHANGED probeVars /\ UNCHANGED ruleVars /\ UNCHANGED depotVars
    BY <1>7 DEF vars
  <2> QED BY <2>1, HostRest, SvcRest, DiffRest, ProbeRest, RuleRest, DepotRest DEF LabInv
<1> QED
  BY <1>1, <1>2, <1>3, <1>4, <1>5, <1>6, <1>7 DEF LabNext

LEMMA LabInvImplies == LabInv => TypesKept /\ OnlyTheDeclared /\ CleanIsEarned
<1> SUFFICES ASSUME LabInv PROVE TypesKept /\ OnlyTheDeclared /\ CleanIsEarned
  OBVIOUS
<1>1. TypesKept
  BY HostProperties, SvcProperties, DiffProperties, ProbeProperties, RuleProperties
     DEF LabInv, TypesKept, DepotInv
<1>2. OnlyTheDeclared
  BY <1>1, HostProperties, ProbeProperties DEF LabInv, OnlyTheDeclared, DepotInv
<1>3. CleanIsEarned
  BY HostProperties, SvcProperties, DiffProperties, ProbeProperties, RuleProperties
     DEF LabInv, CleanIsEarned, DepotInv
<1> QED
  BY <1>1, <1>2, <1>3

\* Every part of the lab keeps to its invariant.
LEMMA LabInvariant == LabSpec => []LabInv
<1>1. LabInit => LabInv
  BY InitLabInv
<1>2. LabInv /\ [LabNext]_vars => LabInv'
  BY LabInvNext
<1> QED
  BY <1>1, <1>2, PTL DEF LabSpec

\* Whatever the inventory, the documents, the targets and the depot: what is
\* written, probed or served is what was declared (provision.py, firstboot.py,
\* probes.py, vcfdepot.py).
THEOREM LabKeepsToTheDeclared == LabSpec => []OnlyTheDeclared
BY LabInvariant, LabInvImplies, PTL

\* Whatever the inventory, the documents, the targets and the depot: an answer
\* that is clean is earned (api.py, mcp_server.py, probes.py, rules/network.py,
\* rules/platform.py, vcfdepot.py, firstboot.py).
THEOREM LabCleanIsEarned == LabSpec => []CleanIsEarned
BY LabInvariant, LabInvImplies, PTL
=============================================================================
