----------------------------------- MODULE Lab ----------------------------------
(***************************************************************************)
(* The VCF lab's tools, each on its own documents and its own world: the   *)
(* host that is installed, the two front doors of vcfspec, the diff, the   *)
(* probes, the rules' arithmetic, and the depot publisher.                 *)
(*                                                                         *)
(* They are separate programs and calls; `part` is the one looked at, and  *)
(* the variables of the others rest.                                       *)
(***************************************************************************)
EXTENDS Integers, Sequences, FiniteSets

CONSTANTS
    HostEntries,                                 \* see LabHost
    DocumentPlaces, MaxCalls,                    \* see SpecService
    LeafPlaces, LeafKind, HostLists, MaxChanges,     \* see SpecDiff
    TargetLists,                                 \* see LabProbes
    Rulings, Octet, StackRam, Overhead, VspMin,  \* see LabRules
    Files, Starts, MaxCommands                   \* see Depot

VARIABLES part,
    inv, secureBoot, disks, files, directory, phase, todo, hostd, conf,
    calls, schemaFile, schemaCache, call, layer, bad, found, ruled, ran, skipped, out,
    left, right, place, changes, truncated, answer,
    targets, target, step, asking, behind, canonical, resolved, tally, notes, touched, told,
    doc, judged, judging,
    served, staged, knows, scratch, count, cmd, at, pc, row, fail, verdict, swapped, before

hostVars  == <<inv, secureBoot, disks, files, directory, phase, todo, hostd, conf>>
specVars  == <<calls, schemaFile, schemaCache, call, layer, bad, found, ruled, ran, skipped, out>>
diffVars  == <<left, right, place, changes, truncated, answer>>
probeVars == <<targets, target, step, asking, behind, canonical, resolved, tally, notes, touched, told>>
ruleVars  == <<doc, judged, judging>>
depotVars == <<served, staged, knows, scratch, count, cmd, at, pc, row, fail, verdict, swapped, before>>
vars == <<part, hostVars, specVars, diffVars, probeVars, ruleVars, depotVars>>

Host  == INSTANCE LabHost WITH Inventories <- HostEntries
Svc   == INSTANCE SpecService WITH Pointers <- DocumentPlaces, pc <- layer
Diff  == INSTANCE SpecDiff WITH Places <- LeafPlaces, Kind <- LeafKind, at <- place
Probe == INSTANCE LabProbes WITH i <- target, pc <- step, left <- behind, findings <- notes
Rule  == INSTANCE LabRules WITH Inventories <- Rulings, findings <- judged, pc <- judging
Dep   == INSTANCE Depot

\* A host of the list is no leaf of the document; every octet has an address
\* that ends neither in its first value nor in its last.
ASSUME LabAssumption ==
    /\ HostEntries \subseteq Host!HostEntry
    /\ {MaxCalls, MaxCommands} \subseteq Nat
    /\ LeafPlaces \in Seq(DOMAIN LeafKind) /\ DOMAIN LeafKind \cap Diff!HostNames = {}
    /\ LeafKind \in [DOMAIN LeafKind -> {"credentials", "named", "plain"}]
    /\ HostLists \subseteq Seq(Diff!Items) /\ MaxChanges \in Nat
    /\ TargetLists \subseteq Seq(Probe!Target)
    /\ Rulings \subseteq Rule!Inventory /\ Octet \in Nat \ {0, 1} /\ {StackRam, Overhead} \subseteq Nat
    /\ Files \in Seq(Dep!Names) /\ Starts \subseteq Dep!Start

-----------------------------------------------------------------------------
\* A part that is not looked at.
HostRests ==
    /\ inv = 0 /\ secureBoot = 0 /\ disks = 0 /\ files = 0 /\ directory = 0 /\ phase = 0
    /\ todo = 0 /\ hostd = 0 /\ conf = 0
SpecRests ==
    /\ calls = 0 /\ schemaFile = 0 /\ schemaCache = 0 /\ call = 0 /\ layer = 0 /\ bad = 0
    /\ found = 0 /\ ruled = 0 /\ ran = 0 /\ skipped = 0 /\ out = 0
DiffRests ==
    /\ left = 0 /\ right = 0 /\ place = 0 /\ changes = 0 /\ truncated = 0 /\ answer = 0
ProbeRests ==
    /\ targets = 0 /\ target = 0 /\ step = 0 /\ asking = 0 /\ behind = 0 /\ canonical = 0
    /\ resolved = 0 /\ tally = 0 /\ notes = 0 /\ touched = 0 /\ told = 0
RuleRests ==
    /\ doc = 0 /\ judged = 0 /\ judging = 0
DepotRests ==
    /\ served = 0 /\ staged = 0 /\ knows = 0 /\ scratch = 0 /\ count = 0 /\ cmd = 0
    /\ at = 0 /\ pc = 0 /\ row = 0 /\ fail = 0 /\ verdict = 0 /\ swapped = 0
    /\ before = 0

LabInit ==
    \/ part = "host"  /\ Host!Init /\ SpecRests /\ DiffRests /\ ProbeRests /\ RuleRests /\ DepotRests
    \/ part = "spec"  /\ Svc!Init /\ HostRests /\ DiffRests /\ ProbeRests /\ RuleRests /\ DepotRests
    \/ part = "diff"  /\ Diff!Init /\ HostRests /\ SpecRests /\ ProbeRests /\ RuleRests /\ DepotRests
    \/ part = "probe" /\ Probe!Init /\ HostRests /\ SpecRests /\ DiffRests /\ RuleRests /\ DepotRests
    \/ part = "rule"  /\ Rule!Init /\ HostRests /\ SpecRests /\ DiffRests /\ ProbeRests /\ DepotRests
    \/ part = "depot" /\ Dep!Init /\ HostRests /\ SpecRests /\ DiffRests /\ ProbeRests /\ RuleRests

InHost(A)  == part = "host"  /\ A /\ UNCHANGED <<part, specVars, diffVars, probeVars, ruleVars, depotVars>>
InSpec(A)  == part = "spec"  /\ A /\ UNCHANGED <<part, hostVars, diffVars, probeVars, ruleVars, depotVars>>
InDiff(A)  == part = "diff"  /\ A /\ UNCHANGED <<part, hostVars, specVars, probeVars, ruleVars, depotVars>>
InProbe(A) == part = "probe" /\ A /\ UNCHANGED <<part, hostVars, specVars, diffVars, ruleVars, depotVars>>
InRule(A)  == part = "rule"  /\ A /\ UNCHANGED <<part, hostVars, specVars, diffVars, probeVars, depotVars>>
InDepot(A) == part = "depot" /\ A /\ UNCHANGED <<part, hostVars, specVars, diffVars, probeVars, ruleVars>>

LabNext ==
    \/ InHost(Host!Next) \/ InSpec(Svc!Next) \/ InDiff(Diff!Next)
    \/ InProbe(Probe!Next) \/ InRule(Rule!Next) \/ InDepot(Dep!Next)

\* A host boots and runs its scripts, the operator takes the boot directory
\* away; the probing thread runs.
LabSpec ==
    /\ LabInit /\ [][LabNext]_vars
    /\ WF_vars(InHost(Host!Boots)) /\ WF_vars(InHost(Host!Firstboot)) /\ WF_vars(InHost(Host!RemoveDirectory))
    /\ WF_vars(InProbe(Probe!Own))

\* Every part keeps its types.
TypesKept ==
    /\ part = "host"  => Host!TypeOK
    /\ part = "spec"  => Svc!TypeOK
    /\ part = "diff"  => Diff!TypeOK
    /\ part = "probe" => Probe!TypeOK
    /\ part = "rule"  => Rule!TypeOK
    /\ part = "depot" => Dep!TypeOK

\* What is written, to a disk, to the network or to the share the fleet reads,
\* is what was declared or vouched for (provision.py, firstboot.py, probes.py,
\* vcfdepot.py).
OnlyTheDeclared ==
    /\ TypesKept
    /\ part = "host"  => Host!DisksInTheirRoles /\ Host!RendererAgrees
    /\ part = "probe" => Probe!StaysInside
    /\ part = "depot" => Dep!FleetReadsWhole

\* A clean answer is earned: nothing was skipped, dropped, unverified or merely
\* unreachable (api.py, mcp_server.py, probes.py, rules/, vcfdepot.py), and a
\* host that calls itself ready can be commissioned (firstboot.py).
CleanIsEarned ==
    /\ part = "host"  => Host!ReadyIsCommissionable
    /\ part = "spec"  => Svc!ValidIsEarned /\ Svc!SpecIsVerified /\ Svc!NothingSilentlyDropped
                          /\ Svc!OnlyVendoredSchema
    /\ part = "diff"  => Diff!DiffIsComplete
    /\ part = "probe" => Probe!NoFalsePass
    /\ part = "rule"  => Rule!RulesCountRight
    /\ part = "depot" => Dep!VerdictIsFounded

\* An install settles and a probe run ends, however the resolver hangs.
LabSettles ==
    (part = "probe" \/ (part = "host" /\ phase = "installing")) ~>
        (part = "probe" /\ step = "done") \/ (part = "host" /\ phase \in {"aborted", "unconfigured", "ready"})
===============================================================================
