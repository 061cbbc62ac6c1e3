-------------------------------- MODULE LabHost --------------------------------
(***************************************************************************)
(* One ESX host of the lab, from its inventory entry to commissioning      *)
(* (vcfspec/provision.py, firstboot.py, rules/devices.py).  Rendering      *)
(* writes a kickstart and a per-MAC boot directory, or withholds both; the *)
(* operator publishes them; the firmware boots the network first, so the   *)
(* directory is the install switch; the installed host runs %firstboot     *)
(* once and reboots into its final state.                                  *)
(***************************************************************************)
EXTENDS Integers, Sequences, FiniteSets

CONSTANTS Inventories    \* the host entries looked at, records of HostEntry

VARIABLES
    inv,          \* the host's entry and the inventory fields that decide its files
    secureBoot,   \* a firmware setting the tool cannot see
    disks,        \* what each device really holds
    files,        \* the rendered files: NoFiles, or what they say
    directory,    \* 01-<mac>/ is on the boot server
    phase,        \* where the host is
    todo,         \* the %firstboot commands still to run
    hostd,        \* hostd answers
    conf          \* what the commands have configured

vars == <<inv, secureBoot, disks, files, directory, phase, todo, hostd, conf>>

Devices == {"d1", "d2", "d3"}
Content == {"blank", "vmfs", "vsan", "esx", "esx_vmfs", "tier"}
HostEntry ==
    [mac : BOOLEAN, boot : Devices \cup {"none", "unstable"}, vsan : Devices \cup {"none"},
     tier : Devices \cup {"none", "runtime_name"}, tierGb : Nat, ramGb : Nat,
     claimed : BOOLEAN, vmfs : {"overwrite", "preserve", "other"},
     root : {"none", "reference", "hash", "password"}, key : {"none", "public", "private", "malformed"},
     iso : BOOLEAN]
NoFiles == [ks |-> FALSE, boot |-> FALSE]
Fresh   == [maint |-> FALSE, ssh |-> FALSE, sshPolicy |-> FALSE, ntpPolicy |-> FALSE, key |-> FALSE,
            label |-> "datastore1", tier |-> FALSE, fqdn |-> FALSE,
            certStored |-> "localhost", certServed |-> "localhost"]

Init ==
    /\ inv \in Inventories /\ secureBoot \in BOOLEAN
    /\ disks \in {[d1 |-> c, d2 |-> "blank", d3 |-> "blank"] : c \in {"blank", "vmfs", "vsan"}}
    /\ files = NoFiles /\ directory = FALSE /\ phase = "unrendered"
    /\ todo = <<>> /\ hostd = FALSE /\ conf = Fresh

-----------------------------------------------------------------------------
(* Rendering.  rules/devices.py answers the same questions for validate.   *)

BootDiskUnsafe(e) == e.boot = "unstable"
\* collision_finding: two declared roles on one device.
Roles(e) == <<e.boot, e.vsan, e.tier>>
Collides(e) == \E i, j \in 1..3 : i < j /\ Roles(e)[i] # "none" /\ Roles(e)[i] = Roles(e)[j]

\* tier_ratio_pct and tiering_findings: percent of DRAM, rounded half to even.
TierRatio(e) ==
    IF e.ramGb = 0 THEN 0
    ELSE LET whole == (e.tierGb * 100) \div e.ramGb
             rest  == 2 * ((e.tierGb * 100) % e.ramGb)
         IN  IF rest > e.ramGb \/ (rest = e.ramGb /\ whole % 2 = 1) THEN whole + 1 ELSE whole
TieringFindings(e) ==
    IF e.tierGb = 0 THEN {}
    ELSE IF e.tier = "none" THEN {"no_device"}
    ELSE IF e.tier = "runtime_name" THEN {"not_stable"}
    ELSE IF TierRatio(e) \notin 1..400 THEN {"ratio"} ELSE {}

\* device_findings: what `vcfspec validate` says of this host's devices.
DeviceFindings(e) ==
    (IF e.boot = "none" THEN {"no_boot_disk"} ELSE {})
    \cup (IF BootDiskUnsafe(e) THEN {"unsafe"} ELSE {})
    \cup (IF Collides(e) THEN {"collision"} ELSE {})
    \cup TieringFindings(e)

\* _root_hash, _ssh_public_key: a secret aborts the rendering.
Insecure(e) == e.root = "password" \/ (e.root # "none" /\ e.key = "private")
\* hardware.bootDiskVmfs: an unknown value, or preserving what vSAN claims.
VmfsModeRefused(e) == e.vmfs = "other" \/ (e.vmfs = "preserve" /\ e.claimed)
Withheld(e) ==
    \/ e.root = "none" \/ ~e.mac \/ e.boot = "none" \/ BootDiskUnsafe(e)
    \/ Collides(e) \/ VmfsModeRefused(e)

\* The options of the kickstart's install line, for comparison: preserving
\* without `paranoid`.
PreserveOnly(e) == [preserve |-> e.vmfs = "preserve", paranoid |-> FALSE, overwriteVsan |-> e.claimed]
InstallOptions(e) == [preserve |-> e.vmfs = "preserve", paranoid |-> e.vmfs = "preserve", overwriteVsan |-> e.claimed]

\* render_provisioning() for this host: both files, the kickstart alone when no
\* boot.cfg of the ISO was given, or neither.
Render ==
    /\ phase = "unrendered" /\ phase' = "rendered"
    /\ files' = IF Insecure(inv) \/ Withheld(inv) THEN NoFiles
                ELSE [ks |-> TRUE, boot |-> inv.iso, disk |-> inv.boot, install |-> InstallOptions(inv),
                      key |-> inv.key = "public",
                      tier |-> inv.tierGb > 0 /\ TieringFindings(inv) = {}]
    /\ UNCHANGED <<inv, secureBoot, disks, directory, todo, hostd, conf>>

-----------------------------------------------------------------------------
(* The operator (_manifest's procedure) and the firmware.                  *)

Publish ==
    /\ phase = "rendered" /\ files.boot
    /\ directory' = TRUE /\ phase' = "firmware"
    /\ UNCHANGED <<inv, secureBoot, disks, files, todo, hostd, conf>>

HasEsx == \E d \in Devices : disks[d] \in {"esx", "esx_vmfs"}

\* "Remove 01-<mac>/ once the kickstart has been fetched": the install runs on.
RemoveDirectory ==
    /\ directory /\ (phase = "installing" \/ HasEsx)
    /\ directory' = FALSE
    /\ UNCHANGED <<inv, secureBoot, disks, files, phase, todo, hostd, conf>>

\* The NIC is first: the HTTP stage probes for the directory and either chains
\* the installer or falls through to the local disk.
NetBoot ==
    /\ phase = "firmware" /\ directory
    /\ phase' = "installing"
    /\ UNCHANGED <<inv, secureBoot, disks, files, directory, todo, hostd, conf>>

\* The installer refuses --overwritevsan on a disk vSAN never claimed and a
\* vSAN disk without it; paranoid makes a VMFS it cannot see fatal.
InstallRefused ==
    LET held == disks[files.disk]
        o    == files.install
    IN  \/ o.overwriteVsan # (held = "vsan")
        \/ o.preserve /\ o.paranoid /\ held \notin {"vmfs", "esx_vmfs"}

InstallAborts ==
    /\ phase = "installing" /\ InstallRefused
    /\ phase' = "aborted"
    /\ UNCHANGED <<inv, secureBoot, disks, files, directory, todo, hostd, conf>>

\* Only the disk of the install line is written; the kickstart ends in reboot.
Install ==
    /\ phase = "installing" /\ ~InstallRefused
    /\ disks' = [disks EXCEPT ![files.disk] =
                   IF files.install.preserve /\ @ \in {"vmfs", "esx_vmfs"} THEN "esx_vmfs" ELSE "esx"]
    /\ conf' = [Fresh EXCEPT !.label = IF files.install.preserve /\ disks[files.disk] # "blank" THEN "kept" ELSE @]
    /\ todo' = <<"first">> /\ phase' = "firmware" /\ hostd' = FALSE
    /\ UNCHANGED <<inv, secureBoot, files, directory>>

\* render_firstboot(): the commands in their order.
Commands(f) ==
    <<"wait_hostd", "maint_on", "services">>
    \o (IF f.install.preserve THEN <<>> ELSE <<"rename">>)
    \o (IF f.key THEN <<"key">> ELSE <<>>)
    \o (IF f.tier THEN <<"tier">> ELSE <<>>)
    \o <<"fqdn_cert", "maint_off", "reboot">>

\* First local boot: %firstboot is silently skipped under Secure Boot.
LocalBoot ==
    /\ phase = "firmware" /\ ~directory /\ HasEsx
    /\ IF todo = <<"first">>
       THEN IF secureBoot THEN phase' = "unconfigured" /\ todo' = <<>>
                          ELSE phase' = "firstboot" /\ todo' = Commands(files)
       ELSE phase' = "ready" /\ UNCHANGED todo
    /\ conf' = [conf EXCEPT !.certServed = conf.certStored, !.ssh = conf.sshPolicy]
    /\ hostd' = FALSE
    /\ UNCHANGED <<inv, secureBoot, disks, files, directory>>

HostdStarts ==
    /\ phase = "firstboot" /\ ~hostd /\ hostd' = TRUE
    /\ UNCHANGED <<inv, secureBoot, disks, files, directory, phase, todo, conf>>

-----------------------------------------------------------------------------
(* %firstboot.                                                             *)

Running(c) == phase = "firstboot" /\ todo # <<>> /\ Head(todo) = c
Done       == todo' = Tail(todo) /\ UNCHANGED <<inv, secureBoot, files, directory, hostd>>

\* The loop around runtimeinfo has no limit on its attempts; a vim-cmd before
\* hostd is up fails and is not repeated.
WaitHostd == Running("wait_hostd") /\ hostd /\ Done /\ UNCHANGED <<phase, conf, disks>>
MaintOn   == Running("maint_on") /\ conf' = [conf EXCEPT !.maint = TRUE] /\ Done /\ UNCHANGED <<phase, disks>>
Services  ==
    /\ Running("services")
    /\ conf' = [conf EXCEPT !.ssh = hostd, !.sshPolicy = TRUE, !.ntpPolicy = hostd]
    /\ Done /\ UNCHANGED <<phase, disks>>
Rename    ==
    /\ Running("rename")
    /\ conf' = [conf EXCEPT !.label = IF hostd THEN "host_local" ELSE @]
    /\ Done /\ UNCHANGED <<phase, disks>>
Key       == Running("key") /\ conf' = [conf EXCEPT !.key = TRUE] /\ Done /\ UNCHANGED <<phase, disks>>
\* esxcli memtier enable applies in maintenance mode only.
EnableTier ==
    /\ Running("tier")
    /\ conf' = [conf EXCEPT !.tier = conf.maint]
    /\ disks' = IF conf.maint THEN [disks EXCEPT ![inv.tier] = "tier"] ELSE disks
    /\ Done /\ UNCHANGED phase
FqdnCert  ==
    /\ Running("fqdn_cert")
    /\ conf' = [conf EXCEPT !.fqdn = TRUE, !.certStored = "fqdn"]
    /\ Done /\ UNCHANGED <<phase, disks>>
MaintOff  == Running("maint_off") /\ conf' = [conf EXCEPT !.maint = FALSE] /\ Done /\ UNCHANGED <<phase, disks>>

\* For comparison, the command that needs maintenance mode and fails silently
\* without it: the host just goes on.
EsxcliReboot ==
    /\ Running("reboot") /\ Done
    /\ phase' = IF conf.maint THEN "firmware" ELSE "ready"
    /\ UNCHANGED <<conf, disks>>
Reboot    == Running("reboot") /\ Done /\ phase' = "firmware" /\ UNCHANGED <<conf, disks>>

Firstboot ==
    WaitHostd \/ MaintOn \/ Services \/ Rename \/ Key \/ EnableTier \/ FqdnCert \/ MaintOff \/ Reboot

Boots == NetBoot \/ Install \/ InstallAborts \/ LocalBoot \/ HostdStarts

Next == Render \/ Publish \/ RemoveDirectory \/ Boots \/ Firstboot

-------------------------------------------------------------------------------
TypeOK ==
    /\ inv \in HostEntry /\ secureBoot \in BOOLEAN /\ directory \in BOOLEAN /\ hostd \in BOOLEAN
    /\ disks \in [Devices -> Content]
    /\ phase \in {"unrendered", "rendered", "firmware", "installing", "aborted", "firstboot", "unconfigured", "ready"}

\* A host that finished %firstboot passes the Installer's host checks: it serves
\* the certificate of its name, has left maintenance mode, keeps SSH and NTP on
\* over a restart, and has its memory tier if the plan counts on it.
ReadyIsCommissionable ==
    phase = "ready" =>
        /\ conf.certServed = "fqdn" /\ conf.certStored = "fqdn" /\ conf.fqdn
        /\ ~conf.maint /\ conf.ssh /\ conf.ntpPolicy
        /\ conf.label # "datastore1"
        /\ (inv.tierGb > 0 /\ TieringFindings(inv) = {}) => conf.tier

\* Only declared devices are ever written, each in its role, and a VMFS that was
\* to be preserved is there however often the installer ran.
DisksInTheirRoles ==
    /\ \A d \in Devices :
          /\ disks[d] \in {"esx", "esx_vmfs"} => d = inv.boot
          /\ disks[d] = "tier" => d = inv.tier /\ d # inv.boot /\ d # inv.vsan
    /\ inv.vmfs = "preserve" => \A d \in Devices : disks[d] # "esx"

\* validate and render cannot disagree about a safe device: files exist only
\* where validate has no finding beyond tiering, and are withheld with a reason.
RendererAgrees ==
    /\ files.ks => DeviceFindings(inv) \subseteq {"no_device", "not_stable", "ratio"}
    /\ files.ks => inv.root \in {"reference", "hash"} /\ inv.key # "private"
    /\ phase = "rendered" /\ ~files.ks /\ ~Insecure(inv) =>
          DeviceFindings(inv) # {} \/ inv.root = "none" \/ ~inv.mac \/ VmfsModeRefused(inv)
===============================================================================
