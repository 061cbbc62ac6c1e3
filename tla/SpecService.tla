------------------------------ MODULE SpecService ------------------------------
(***************************************************************************)
(* The vcfspec orchestrator behind its two front doors, the CLI and the    *)
(* long-lived MCP server (api.py, mcp_server.py, cli.py and the layers     *)
(* they call).  A call runs layers over one document; every layer may find *)
(* things, refuse or raise, and the answer is an envelope that says what   *)
(* ran, what was skipped and whether the document is valid.                *)
(*                                                                         *)
(* A pointer is the sequence of its segments.  What a layer would find in  *)
(* the document is chosen when the layer looks.                            *)
(***************************************************************************)
EXTENDS Integers, Sequences, FiniteSets, SequencesExt

CONSTANTS
    Pointers,     \* the places of a document, with the root <<>>
    MaxCalls      \* bound: calls to one server process

VARIABLES
    calls,        \* calls made
    schemaFile,   \* the vendored schema on disk: "vendored" or "tampered"
    schemaCache,  \* what this process has parsed: "none" or the text's state
    call,         \* the call under way
    pc,           \* its next layer
    bad,          \* pointers at which the schema layer failed
    found,        \* findings so far: [code, sev, at]
    ruled,        \* findings the rules made, before any were withheld
    ran, skipped, \* layers_run, layers_skipped
    out           \* the envelope

vars == <<calls, schemaFile, schemaCache, call, pc, bad, found, ruled, ran, skipped, out>>

Tools  == {"validate", "render", "provision"}
Loads  == {"ok", "too_large", "not_a_mapping"}
Idle   == [tool |-> "none"]
NoOut  == [given |-> FALSE, valid |-> FALSE, files |-> FALSE, exit |-> 0]
Root   == <<>>

Finding(c, s, p) == [code |-> c, sev |-> s, at |-> p]
Blocking(fs) == \E f \in fs : f.sev \in {"critical", "error"}
Critical(fs) == \E f \in fs : f.sev = "critical"

Init ==
    /\ calls = 0 /\ schemaFile = "vendored" /\ schemaCache = "none"
    /\ call = Idle /\ pc = "idle" /\ bad = {} /\ found = {} /\ ruled = {}
    /\ ran = {} /\ skipped = {} /\ out = NoOut

-----------------------------------------------------------------------------
(* The call and its document.                                              *)

\* load: documents.load_document's refusals; says: what the document calls
\* itself; literal: a credential position holds a literal; secretElsewhere is
\* not looked for.
Calls ==
    [tool : Tools, door : {"mcp", "cli"}, args : BOOLEAN, load : Loads,
     says : {"inventory", "sddc_spec", "neither"}, override : {"none", "inventory", "sddc_spec", "junk"},
     version : {"default", "unknown"}, literal : BOOLEAN, probe : BOOLEAN]

Arrive(c) ==
    /\ pc = "idle" /\ calls < MaxCalls
    /\ c.tool = "provision" => c.door = "cli"          \* no MCP tool provisions
    /\ c.door = "mcp" => ~c.probe /\ (c.args => c.override # "junk")
    /\ ~c.args => c.load = "ok" /\ c.says = "inventory" /\ c.version = "default" /\ ~c.literal /\ ~c.probe
    /\ c.load # "ok" => c.override = "none" /\ c.says = "inventory" /\ ~c.literal
    /\ calls' = calls + 1 /\ call' = c /\ pc' = "args" /\ ran' = {"detect"}
    /\ UNCHANGED <<schemaFile, schemaCache, bad, found, ruled, skipped, out>>

\* The answer is written out; the process keeps only its parsed schema.
Return ==
    /\ pc = "answered" /\ pc' = "idle"
    /\ call' = Idle /\ bad' = {} /\ found' = {} /\ ruled' = {} /\ ran' = {} /\ skipped' = {} /\ out' = NoOut
    /\ UNCHANGED <<calls, schemaFile, schemaCache>>

\* The vendored schema changes on disk under the running server.
Tamper ==
    /\ pc = "idle" /\ schemaFile' = "tampered"
    /\ UNCHANGED <<calls, schemaCache, call, pc, bad, found, ruled, ran, skipped, out>>

Unlooked == UNCHANGED <<calls, schemaFile, schemaCache, call, bad, ruled>>

\* _refuse_unvalidated_success.
Refused(fs, layers) ==
    IF ~Blocking(fs) /\ layers = {"detect"}
    THEN fs \cup {Finding("VCF-NO-VALIDATION-RAN", "error", Root)} ELSE fs

\* _envelope, then the process's exit code or the tool's answer.  The MCP door
\* recodes an unknown version as a bad argument, which is as blocking.
Answer(fs, layers, skips, files) ==
    LET final == Refused(fs, layers)
        ok    == ~Blocking(final)
    IN  /\ out' = [given |-> TRUE, valid |-> ok, files |-> files, exit |-> IF ok THEN 0 ELSE 1]
        /\ found' = final /\ ran' = layers /\ skipped' = skips
        /\ pc' = "answered" /\ Unlooked

\* call_handler's and argparse's refusals, before any layer: no layer is run
\* and the answer is invalid, or the exit code is 2.
BadArgs ==
    /\ pc = "args" /\ ~call.args
    /\ out' = [given |-> TRUE, valid |-> FALSE, files |-> FALSE, exit |-> 2]
    /\ found' = {Finding("VCF-MCP-BAD-ARGS", "error", Root)}
    /\ ran' = {} /\ skipped' = {} /\ pc' = "answered" /\ Unlooked

-----------------------------------------------------------------------------
(* Loading and detection.                                                  *)

LayersOf(t) == CASE t = "validate" -> {"schema", "rules", "probes"}
                 [] t = "render" -> {"render"}
                 [] t = "provision" -> {"provision"}

Unreadable ==
    /\ pc = "args" /\ call.args /\ call.load # "ok"
    /\ Answer({Finding("VCF-INPUT-UNREADABLE", "critical", Root)}, ran, LayersOf(call.tool), FALSE)

\* detect_kind(): an override is taken at its word, or is a finding.
Kind(c) == CASE c.override = "none" -> c.says
             [] c.override = "junk" -> "neither"
             [] OTHER -> c.override

Detected == pc = "args" /\ call.args /\ call.load = "ok"

\* VCF-INPUT-BAD-KIND or VCF-INPUT-UNRECOGNISED.
UnknownKind ==
    /\ Detected /\ Kind(call) = "neither"
    /\ Answer({Finding("VCF-INPUT-UNRECOGNISED", "critical", Root)}, ran, LayersOf(call.tool), FALSE)

\* Only an inventory can be rendered or provisioned.
WrongKind ==
    /\ Detected /\ Kind(call) = "sddc_spec" /\ call.tool # "validate"
    /\ Answer({Finding("VCF-RENDER-WRONG-KIND", "error", Root)}, ran, LayersOf(call.tool), FALSE)

ToSchema ==
    /\ Detected
    /\ Kind(call) = "inventory" \/ (Kind(call) = "sddc_spec" /\ call.tool = "validate")
    /\ pc' = "schema" /\ Unlooked /\ UNCHANGED <<found, ran, skipped, out>>

-----------------------------------------------------------------------------
(* The schema layer.                                                       *)

\* credential_findings(): one structural walk for both kinds.
CredentialFindings == IF call.literal THEN {Finding("VCF-CRED-NOT-A-REFERENCE", "critical", <<"credentials">>)} ELSE {}

SchemaFindings(ps, c) == {Finding(c, "error", p) : p \in ps}

\* validate_inventory(); the version is not consulted and the answer says so.
InventorySchema(ps) ==
    /\ pc = "schema" /\ Kind(call) = "inventory"
    /\ bad' = ps
    /\ found' = SchemaFindings(ps, "VCF-INV-SCHEMA") \cup CredentialFindings
                \cup (IF call.tool = "validate" /\ call.version # "default"
                      THEN {Finding("VCF-VERSION-NOT-CONSULTED", "info", Root)} ELSE {})
    /\ ran' = ran \cup {"schema"} /\ pc' = "rules"
    /\ UNCHANGED <<calls, schemaFile, schemaCache, call, ruled, skipped, out>>

\* load_schema(): only a vendored version becomes a path; the text is hashed
\* when it is first parsed and the parsed copy is kept.  For comparison, the
\* hash not looked at.
LoadUnverified(now) == schemaCache' = (IF schemaCache = "none" THEN schemaFile ELSE schemaCache)
LoadVerified(now) ==
    schemaCache' = IF schemaCache = "none" /\ schemaFile = "vendored" THEN "vendored" ELSE schemaCache
SchemaRefused ==
    IF call.version = "unknown" THEN {Finding("VCF-SCHEMA-VERSION-UNKNOWN", "error", Root)}
    ELSE IF schemaCache' = "none" THEN {Finding("VCF-SCHEMA-INTEGRITY", "critical", Root)} ELSE {}

\* validate_against_schema() on an SddcSpec; rules and probes do not apply.
SpecSchema(ps) ==
    /\ pc = "schema" /\ Kind(call) = "sddc_spec"
    /\ IF call.version = "unknown" THEN UNCHANGED schemaCache ELSE LoadVerified(call)
    /\ LET refused == SchemaRefused
           all == (IF refused # {} THEN refused ELSE SchemaFindings(ps, "VCF-SCHEMA")) \cup CredentialFindings
       IN  /\ bad' = IF refused # {} THEN {} ELSE ps
           /\ found' = all
           /\ out' = [given |-> TRUE, valid |-> ~Blocking(all), files |-> FALSE, exit |-> IF Blocking(all) THEN 1 ELSE 0]
    /\ ran' = ran \cup {"schema"} /\ skipped' = {"rules", "probes"} /\ pc' = "answered"
    /\ UNCHANGED <<calls, schemaFile, call, ruled>>

-----------------------------------------------------------------------------
(* Rules, and what is withheld because its subtree is broken.              *)

\* _is_blocked(), comparing segments; a root pointer never gates.
RootGates(p, ps) == \E b \in ps : IsPrefix(b, p)
IsBlocked(p, ps) == \E b \in ps : b # Root /\ IsPrefix(b, p)

\* check_networks and check_platform, one finding (at least) being the
\* licence's; rendering is never gated.
Rules(ps) ==
    /\ pc = "rules"
    /\ LET made == {Finding("VCF-RULE", "error", p) : p \in ps} \cup {Finding("VCF-LIC-EVALUATION", "info", <<"instance">>)}
           kept == IF call.tool = "validate" THEN {f \in made : ~IsBlocked(f.at, bad)} ELSE made
           gated == call.tool = "validate" /\ bad \ {Root} # {}
       IN  /\ ruled' = made
           /\ found' = found \cup kept
           /\ skipped' = IF gated THEN {"rules"} ELSE {}
    /\ ran' = ran \cup {"rules"}
    /\ pc' = call.tool
    /\ UNCHANGED <<calls, schemaFile, schemaCache, call, bad, out>>

\* Probes need a configuration, a readable inventory and no critical finding.
Probes(failed) ==
    /\ pc = "validate"
    /\ IF ~call.probe \/ Critical(found)
       THEN Answer(found, ran, skipped \cup {"probes"}, FALSE)
       ELSE Answer(found \cup (IF failed THEN {Finding("VCF-PROBE", "warning", <<"hosts">>)} ELSE {}),
                   ran \cup {"probes"}, skipped, FALSE)

-----------------------------------------------------------------------------
(* Rendering and provisioning.                                             *)

\* render() re-checks every credential it copies and raises on a literal; an
\* unknown version has no defaults; anything else it raises becomes a finding.
RenderRefuses(raises) ==
    /\ pc = "render" /\ (call.literal \/ raises \/ call.version = "unknown")
    /\ Answer(found \cup {Finding("VCF-RENDER-FAILED", "critical", Root)}, ran, {"render"}, FALSE)

Render ==
    /\ pc = "render" /\ ~call.literal /\ call.version # "unknown"
    /\ ran' = ran \cup {"render"} /\ pc' = "verify"
    /\ Unlooked /\ UNCHANGED <<found, skipped, out>>

\* _verify_rendered(): the vendored schema and the walk over declared keys both
\* pass, or no spec is handed out.  For comparison, the findings attached to a
\* spec that is handed out all the same.
AlwaysHandOut(problems) == TRUE
HandOut(problems) == ~Blocking(problems)

Verify(fails, undeclared) ==
    /\ pc = "verify"
    /\ LoadVerified(call)
    /\ LET refused == SchemaRefused
           problems == IF refused # {} THEN refused
                       ELSE SchemaFindings(IF fails THEN {Root} ELSE {}, "VCF-SCHEMA")
                            \cup (IF undeclared THEN {Finding("VCF-RENDER-UNDECLARED-FIELD", "error", Root)} ELSE {})
           all == found \cup problems
       IN  /\ found' = all
           /\ out' = [given |-> TRUE, valid |-> ~Blocking(all), files |-> HandOut(problems), exit |-> IF Blocking(all) THEN 1 ELSE 0]
           /\ skipped' = IF HandOut(problems) THEN skipped ELSE skipped \cup {"spec"}
    /\ ran' = ran \cup {"verify"} /\ pc' = "answered"
    /\ UNCHANGED <<calls, schemaFile, call, bad, ruled>>

\* provision_document(): a literal root credential raises; artifacts come with
\* their findings, and no layer verifies them.
ProvisionRefuses(raises) ==
    /\ pc = "provision" /\ (call.literal \/ raises)
    /\ Answer(found \cup {Finding("VCF-PROV-FAILED", "critical", Root)}, ran, {"provision"}, FALSE)
Provision(withheld) ==
    /\ pc = "provision" /\ ~call.literal
    /\ Answer(found \cup (IF withheld THEN {Finding("VCF-PROV-HOST", "error", <<"hosts">>)} ELSE {}),
              ran \cup {"provision"}, {"verify"}, TRUE)

Next ==
    \/ \E c \in Calls : Arrive(c)
    \/ Return \/ Tamper \/ BadArgs \/ Unreadable \/ UnknownKind \/ WrongKind \/ ToSchema \/ Render
    \/ \E ps \in SUBSET Pointers : InventorySchema(ps) \/ SpecSchema(ps) \/ Rules(ps)
    \/ \E b \in BOOLEAN : Probes(b) \/ RenderRefuses(b) \/ ProvisionRefuses(b) \/ Provision(b)
    \/ \E f, u \in BOOLEAN : Verify(f, u)

Spec == Init /\ [][Next]_vars

-------------------------------------------------------------------------------
TypeOK ==
    /\ calls \in 0..MaxCalls /\ call \in Calls \cup {Idle}
    /\ bad \subseteq Pointers /\ ran \cap skipped \subseteq {"rules"}
    /\ out.valid \in BOOLEAN /\ out.files \in BOOLEAN /\ out.exit \in 0..2

Answered == out.given

\* "A result must never report valid=True when no substantive layer ran"
\* (_refuse_unvalidated_success); a valid answer accounts for every layer, and
\* nothing holding a literal credential is ever valid or handed out.
ValidIsEarned ==
    Answered => /\ out.valid => /\ ran \ {"detect"} # {}
                                /\ ~call.literal /\ ~Blocking(found) /\ Kind(call) # "neither"
                                /\ LayersOf(call.tool) \subseteq ran \cup skipped
                /\ call.literal => ~out.files
                /\ out.valid <=> out.exit = 0

\* A rendered spec is handed out only if the verified vendored schema was there
\* to judge it and had nothing against it.
SpecIsVerified ==
    Answered /\ call.tool = "render" /\ out.files =>
        /\ {"render", "verify"} \subseteq ran /\ schemaCache = "vendored"
        /\ ~\E f \in found : f.code \in {"VCF-SCHEMA", "VCF-RENDER-UNDECLARED-FIELD", "VCF-SCHEMA-INTEGRITY"}

\* A rule finding is withheld only inside a subtree the schema layer reported,
\* and then the answer says that rules were suppressed.
NothingSilentlyDropped ==
    Answered => \A f \in ruled \ found :
        /\ call.tool = "validate" /\ "rules" \in skipped
        /\ \E g \in found : g.code = "VCF-INV-SCHEMA" /\ g.at # Root /\ IsPrefix(g.at, f.at)

\* The schema that judged anything is the vendored one.
OnlyVendoredSchema == schemaCache \in {"none", "vendored"}
===============================================================================
