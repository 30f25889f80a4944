----------------------------- MODULE PolicyFile -----------------------------
(* Policy files and policies: what utils/policyFile.ts makes of the one and of the other. A policy is the API's        *)
(* (SandboxPolicy as protojson); a document is what a policy file holds once its YAML or JSON has been parsed.         *)
(*                                                                                                                     *)
(* A field that is only renamed is told by its name, in the set of those that hold something: an empty field and one   *)
(* that is not set are the same, on both sides. The fields that are converted have values of their own. The key of a   *)
(* parameter is the sequence of its dotted parts, and a matcher is one of "glob", "any" (a list) and "glob and any".   *)
(* What a document holds beside its schema is kept apart: the places of its keys that no field has (extra), and        *)
(* whether something has a shape that its field does not take (misshapen). A policy that was typed may have either     *)
(* (unknown).                                                                                                          *)
EXTENDS Documents

-----------------------------------------------------------------------------
(* Names. *)

(* Fields with the same meaning on both sides, by the name in a file. *)
Renamed == [allowed_ips |-> "allowedIps", allow_encoded_slash |-> "allowEncodedSlash",
            websocket_credential_rewrite |-> "websocketCredentialRewrite",
            request_body_credential_rewrite |-> "requestBodyCredentialRewrite",
            allow_uninspected_credentials |-> "allowUninspectedCredentials",
            persisted_queries |-> "persistedQueries", graphql_persisted_queries |-> "graphqlPersistedQueries",
            graphql_max_body_bytes |-> "graphqlMaxBodyBytes", credential_signing |-> "credentialSigning",
            signing_service |-> "signingService", signing_region |-> "signingRegion",
            credential_binding |-> "credentialBinding"]
RenamedInMatch == [command |-> "command", query |-> "query", operation_type |-> "operationType",
                   operation_name |-> "operationName", fields |-> "fields"]
RenamedInMiddleware == [middleware |-> "middleware", order |-> "order", config |-> "config", on_error |-> "onError",
                        endpoints |-> "endpoints"]

(* The names a file gives the values of an enum, in the order of their numbers; the API's value is the number. *)
TlsMode == <<"", "skip", "terminate", "passthrough">>
EnforcementMode == <<"", "enforce", "audit">>
AccessPreset == <<"", "read-only", "read-write", "full">>

NumberOf(mode, name) == CHOOSE n \in 0 .. (Len(mode) - 1) : mode[n + 1] = name
Names(mode) == {mode[i] : i \in DOMAIN mode}
IsSupportedTls(name) == name \in {"", "skip"}

(* Marks the gateway puts on an endpoint, which a file has no field for. *)
GatewayMarks == {"providerCredentialed", "advisorProposed"}

McpVersions == <<"2025-03-26", "2025-06-18", "2025-11-25">>
DefaultMcpVersion == "2025-11-25"

(* The known revisions in upstream's order. *)
CanonicalMcpVersions(versions) ==
    Only(McpVersions, {i \in DOMAIN McpVersions : \E j \in DOMAIN versions : versions[j] = McpVersions[i]})

McpVersionsFine(versions) ==
    /\ \A i \in DOMAIN versions : versions[i] \in Names(McpVersions)
    /\ \A i, j \in DOMAIN versions : versions[i] = versions[j] => i = j

-----------------------------------------------------------------------------
(* The API's policy. Every field has a value, which for most is that of an empty one. *)

IsMatcher(m) ==
    /\ IsMap(m) /\ DOMAIN m = {"method", "path", "fields", "params"}
    /\ m.fields \subseteq ToApi(RenamedInMatch, DOMAIN RenamedInMatch)
    /\ IsMap(m.params) /\ \A k \in DOMAIN m.params : IsList(k) /\ k # <<>>
AreMatchers(s) == IsList(s) /\ \A i \in DOMAIN s : IsMatcher(s[i])
IsEndpoint(e) ==
    /\ DOMAIN e = {"host", "path", "protocol", "fields", "port", "ports", "tls", "enforcement", "access", "rules",
                   "denyRules", "maxBodyBytes", "mcp", "marks"}
    /\ e.port \in Nat /\ e.ports \in Seq(Nat) /\ e.tls \in Nat /\ e.enforcement \in Nat /\ e.access \in Nat
    /\ e.fields \subseteq ToApi(Renamed, DOMAIN Renamed)
    /\ IsOptional(e.mcp) /\ (e.mcp.set => IsList(e.mcp.value.versions))
    /\ AreMatchers(e.rules) /\ AreMatchers(e.denyRules)
IsRule(r) ==
    /\ DOMAIN r = {"name", "endpoints", "binaries"}
    /\ IsList(r.endpoints) /\ \A i \in DOMAIN r.endpoints : IsEndpoint(r.endpoints[i])
IsMiddleware(m) ==
    /\ DOMAIN m = {"name", "fields"}
    /\ m.fields \subseteq ToApi(RenamedInMiddleware, DOMAIN RenamedInMiddleware)
IsPolicy(p) ==
    /\ DOMAIN p = {"version", "filesystem", "landlock", "process", "unknown", "networkPolicies", "networkMiddlewares"}
    /\ IsOptional(p.filesystem) /\ IsOptional(p.landlock) /\ IsOptional(p.process)
    /\ IsMap(p.networkPolicies) /\ \A key \in DOMAIN p.networkPolicies : IsRule(p.networkPolicies[key])
    /\ IsMap(p.networkMiddlewares) /\ \A key \in DOMAIN p.networkMiddlewares : IsMiddleware(p.networkMiddlewares[key])

-----------------------------------------------------------------------------
(* From a document to a policy. *)

(* Two mappings of a document may hold any key. *)
Open == {"config", "params"}
UnknownFields(doc) == doc.extra \ Open

FlattenKey(path) == LET f[i \in 0 .. Len(path)] == IF i = 0 THEN <<>> ELSE f[i - 1] \o path[i] IN f[Len(path)]

(* Of two ways to write one key, the one whose first differing step is longer sorts later. *)
SortsLater(p, q) ==
    \E i \in DOMAIN p \intersect DOMAIN q : Len(p[i]) > Len(q[i]) /\ \A j \in 1 .. (i - 1) : p[j] = q[j]

(* The parameters under their dotted keys; of a key written twice the last is kept. *)
FlattenParams(params) ==
    LET keys == {FlattenKey(p) : p \in DOMAIN params} IN
    [k \in keys |-> params[CHOOSE p \in DOMAIN params :
                               /\ FlattenKey(p) = k
                               /\ \A q \in DOMAIN params \ {p} : FlattenKey(q) = k => SortsLater(p, q)]]

(* `tool` is short for the parameter `name`, and does not replace one that is written. *)
WithTool(rule) ==
    IF rule.tool.set /\ \A p \in DOMAIN rule.params : p[1] # <<"name">>
    THEN [p \in DOMAIN rule.params \union {<<<<"name">>>>} |->
             IF p = <<<<"name">>>> THEN rule.tool.value ELSE rule.params[p]]
    ELSE rule.params

ReadMatch(rule) ==
    [fields |-> ToApi(RenamedInMatch, rule.fields), method |-> rule.method, path |-> rule.path,
     params |-> FlattenParams(WithTool(rule))]

(* What is found wrong with an endpoint while it is read. *)
EndpointReads(e) ==
    /\ IsSupportedTls(e.tls)
    /\ e.enforcement \in Names(EnforcementMode)
    /\ e.access \in Names(AccessPreset)
    /\ e.mcp.set => /\ e.protocol = "mcp"
                    /\ e.mcp.value.versions.set => /\ e.mcp.value.versions.value # <<>>
                                                   /\ McpVersionsFine(e.mcp.value.versions.value)

(* The list of ports when it has any, and else the one port. *)
ReadPorts(e) == IF e.ports # <<>> THEN e.ports ELSE IF e.port > 0 THEN <<e.port>> ELSE <<>>

ReadMcp(e) ==
    IF e.protocol # "mcp" THEN Absent
    ELSE LET given == IF e.mcp.set THEN e.mcp.value ELSE [versions |-> Absent, options |-> {}] IN
         Present([options |-> given.options,
                  versions |-> CanonicalMcpVersions(IF given.versions.set THEN given.versions.value
                                                    ELSE <<DefaultMcpVersion>>)])

ReadEndpoint(e) ==
    [host |-> e.host, path |-> e.path, protocol |-> e.protocol, fields |-> ToApi(Renamed, e.fields),
     port |-> FirstOf(ReadPorts(e), 0), ports |-> ReadPorts(e),
     tls |-> NumberOf(TlsMode, e.tls), enforcement |-> NumberOf(EnforcementMode, e.enforcement),
     access |-> NumberOf(AccessPreset, e.access),
     rules |-> SeqMap(ReadMatch, e.rules), denyRules |-> SeqMap(ReadMatch, e.deny_rules),
     maxBodyBytes |-> IF e.mcp.set THEN e.mcp.value.max_body_bytes ELSE e.json_rpc,
     mcp |-> ReadMcp(e), marks |-> {}]

ReadRule(key, rule) ==
    [name |-> IF rule.name # "" THEN rule.name ELSE key,
     endpoints |-> SeqMap(ReadEndpoint, rule.endpoints), binaries |-> rule.binaries]

ReadMiddleware(key, m) ==
    [name |-> IF m.name # "" THEN m.name ELSE key, fields |-> ToApi(RenamedInMiddleware, m.fields)]

LandlockModes == {"best_effort", "hard_requirement"}
ReadLandlock(l) == IF ~l.set THEN Absent ELSE Present(IF l.value = "" THEN "best_effort" ELSE l.value)

(* Something in it has not the shape its field takes, or it is nested too deep. *)
IsMisshapen(doc) == doc.misshapen

DocumentReads(doc) ==
    /\ UnknownFields(doc) = {}
    /\ ~IsMisshapen(doc)
    /\ doc.version = 1
    /\ doc.landlock.set => doc.landlock.value \in LandlockModes \union {""}
    /\ \A key \in DOMAIN doc.network_policies : AllOf(EndpointReads, doc.network_policies[key].endpoints)

PolicyFromDocument(doc) ==
    [version |-> doc.version, filesystem |-> doc.filesystem_policy, landlock |-> ReadLandlock(doc.landlock),
     process |-> doc.process, unknown |-> FALSE,
     networkPolicies |-> [key \in DOMAIN doc.network_policies |-> ReadRule(key, doc.network_policies[key])],
     networkMiddlewares |-> [key \in DOMAIN doc.network_middlewares |-> ReadMiddleware(key, doc.network_middlewares[key])]]

-----------------------------------------------------------------------------
(* From a policy to a document. *)

IsProperPrefix(p, q) == Len(p) < Len(q) /\ SubSeq(q, 1, Len(p)) = p

(* Parameters are nested unless one key is the start of another. *)
NestParams(params) ==
    IF \E p, q \in DOMAIN params : IsProperPrefix(p, q)
    THEN [p \in {<<k>> : k \in DOMAIN params} |-> params[p[1]]]
    ELSE LET Steps(k) == [i \in DOMAIN k |-> <<k[i]>>] IN
         [p \in {Steps(k) : k \in DOMAIN params} |-> params[FlattenKey(p)]]

FlatParams(params) == [p \in {<<k>> : k \in DOMAIN params} |-> params[p[1]]]

(* Only MCP has a tool, and only there are parameters nested and a method left out that its absence stands for. *)
WriteMatch(m, protocol, allowsAllKnownMethods) ==
    LET isMcp == protocol = "mcp"
        hasTool == isMcp /\ <<"name">> \in DOMAIN m.params
        others == [k \in (IF hasTool THEN DOMAIN m.params \ {<<"name">>} ELSE DOMAIN m.params) |-> m.params[k]]
        implied == isMcp /\ (IF hasTool THEN m.method = "tools/call" /\ allowsAllKnownMethods ELSE m.method = "*")
    IN [method |-> IF implied THEN "" ELSE m.method, path |-> m.path, fields |-> ToFile(RenamedInMatch, m.fields),
        tool |-> IF hasTool THEN Present(m.params[<<"name">>]) ELSE Absent,
        params |-> IF isMcp THEN NestParams(others) ELSE FlatParams(others)]

(* A file has one or the other of a glob and a list. *)
MatchWrites(m) == \A k \in DOMAIN m.params : m.params[k] # "glob and any"

McpViolates(e) ==
    IF e.protocol # "mcp" THEN e.mcp.set ELSE e.mcp.set /\ ~McpVersionsFine(e.mcp.value.versions)

(* The mode has a name, and one that a policy may use. *)
WriteMode(mode, number) == IF number + 1 \in DOMAIN mode THEN mode[number + 1] ELSE "unknown"

MaxPort == 2  \* stands for U16_MAX: a file's ports are narrower than the API's

EndpointWrites(e) ==
    /\ IsSupportedTls(WriteMode(TlsMode, e.tls))
    /\ WriteMode(EnforcementMode, e.enforcement) # "unknown"
    /\ WriteMode(AccessPreset, e.access) # "unknown"
    /\ ~McpViolates(e)
    /\ IF Len(e.ports) > 1 THEN \A i \in DOMAIN e.ports : e.ports[i] <= MaxPort ELSE FirstOf(e.ports, e.port) <= MaxPort
    /\ AllOf(MatchWrites, e.rules) /\ AllOf(MatchWrites, e.denyRules)

WriteMcp(e) ==
    IF e.protocol # "mcp" THEN Absent
    ELSE LET given == IF e.mcp.set THEN e.mcp.value ELSE [versions |-> <<>>, options |-> {}] IN
         Present([versions |-> Present(IF given.versions = <<>> THEN <<DefaultMcpVersion>>
                                       ELSE CanonicalMcpVersions(given.versions)),
                  options |-> given.options, max_body_bytes |-> e.maxBodyBytes])

WriteEndpoint(e) ==
    LET all == e.protocol # "mcp" \/ (e.mcp.set /\ "allowAllKnownMcpMethods=true" \in e.mcp.value.options)
        Write(m) == WriteMatch(m, e.protocol, all)
    IN [host |-> e.host, path |-> e.path, protocol |-> e.protocol, fields |-> ToFile(Renamed, e.fields),
        port |-> IF Len(e.ports) > 1 THEN 0 ELSE FirstOf(e.ports, e.port),
        ports |-> IF Len(e.ports) > 1 THEN e.ports ELSE <<>>,
        tls |-> WriteMode(TlsMode, e.tls), enforcement |-> WriteMode(EnforcementMode, e.enforcement),
        access |-> WriteMode(AccessPreset, e.access),
        rules |-> SeqMap(Write, e.rules), deny_rules |-> SeqMap(Write, e.denyRules),
        json_rpc |-> IF e.protocol = "mcp" THEN 0 ELSE e.maxBodyBytes, mcp |-> WriteMcp(e)]

WriteRule(rule) ==
    [name |-> rule.name, endpoints |-> SeqMap(WriteEndpoint, rule.endpoints), binaries |-> rule.binaries]

WriteMiddleware(m) == [name |-> m.name, fields |-> ToFile(RenamedInMiddleware, m.fields)]

(* Whether a policy can be said in a file at all. *)
PolicyWrites(p) ==
    /\ ~p.unknown
    /\ p.version <= 1
    /\ p.landlock.set => p.landlock.value \in LandlockModes \union {""}
    /\ \A key \in DOMAIN p.networkPolicies : AllOf(EndpointWrites, p.networkPolicies[key].endpoints)

(* A process section that names nobody is left out. *)
PolicyToDocument(p) ==
    [version |-> 1, filesystem_policy |-> p.filesystem, landlock |-> ReadLandlock(p.landlock),
     process |-> IF p.process.set /\ p.process.value = {} THEN Absent ELSE p.process,
     network_policies |-> [key \in DOMAIN p.networkPolicies |-> WriteRule(p.networkPolicies[key])],
     network_middlewares |-> [key \in DOMAIN p.networkMiddlewares |-> WriteMiddleware(p.networkMiddlewares[key])], extra |-> {}, misshapen |-> FALSE]

-----------------------------------------------------------------------------
(* Policy text: a policy file in YAML or JSON, or the API's policy in JSON. A text is what it starts like (braces),    *)
(* whether JSON.parse takes it (json), whether the parser of policy files does (yaml: "ok", "syntax" or "refused"),    *)
(* and what it says, in the words of a file (doc), of the API (policy), or of both.                                    *)

FileText(doc) == [braces |-> FALSE, json |-> FALSE, yaml |-> "ok", kind |-> "file", doc |-> doc, policy |-> None]
ApiText(policy) == [braces |-> TRUE, json |-> TRUE, yaml |-> "ok", kind |-> "api", doc |-> None, policy |-> policy]

FromDocument(text) ==
    IF text.kind = "file" /\ DocumentReads(text.doc) THEN PolicyFromDocument(text.doc) ELSE None

(* The policy a text comes to, or None. A JSON text that the stricter parser refuses is refused with it, unless it is *)
(* its syntax that the parser cannot make out.                                                                        *)
ReadPolicyText(text) ==
    IF ~text.braces \/ ~text.json
    THEN IF text.yaml = "ok" THEN FromDocument(text) ELSE None
    ELSE CASE text.kind = "api" -> text.policy
           [] text.kind = "file" -> IF text.yaml = "refused" THEN None ELSE FromDocument(text)
           [] OTHER -> None

PolicyTextFormat(text) == IF text.braces THEN "json" ELSE "yaml"

(* The text of a policy in a format, or None when it cannot be written in it. *)
PolicyToText(policy, format) ==
    IF format = "json" THEN ApiText(policy)
    ELSE IF PolicyWrites(policy) THEN FileText(PolicyToDocument(policy)) ELSE None

HasGatewayMarks(policy) ==
    \E key \in DOMAIN policy.networkPolicies :
        \E i \in DOMAIN policy.networkPolicies[key].endpoints : policy.networkPolicies[key].endpoints[i].marks # {}

=============================================================================
