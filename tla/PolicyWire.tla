----------------------------- MODULE PolicyWire -----------------------------
(* The policy between the browser and the gateway: models/policyproto.go and the policy functions of                   *)
(* models/sdk_converters.go. The gateway's message becomes the SDK's types and those become the message again, type by *)
(* type, and what a conversion does not name is lost. Policies are as in PolicyFile; a message may have fields that    *)
(* the SDK's types have no place for.                                                                                  *)
EXTENDS PolicyFile

CarriedFields == ToApi(Renamed, DOMAIN Renamed)
CarriedInMatch == ToApi(RenamedInMatch, DOMAIN RenamedInMatch)

L7QueryMap(params) == [k \in DOMAIN params |-> params[k]]

L7Rule(m) == [method |-> m.method, path |-> m.path, fields |-> m.fields \intersect CarriedInMatch,
              params |-> L7QueryMap(m.params)]
L7DenyRule(m) == [method |-> m.method, path |-> m.path, fields |-> m.fields \intersect CarriedInMatch,
                  params |-> L7QueryMap(m.params)]

(* A seeded fault: the revisions are forgotten. *)
Fault_McpOptions(mcp) ==
    IF mcp.set THEN Present([options |-> mcp.value.options, versions |-> <<>>]) ELSE Absent

(* The revisions are an allow list of their own: without them the gateway would put its default in their place. *)
McpOptions(mcp) ==
    IF mcp.set THEN Present([options |-> mcp.value.options, versions |-> mcp.value.versions]) ELSE Absent

PolicyNetworkEndpoint(e) ==
    [host |-> e.host, path |-> e.path, protocol |-> e.protocol, fields |-> e.fields \intersect CarriedFields,
     port |-> e.port, ports |-> e.ports, tls |-> e.tls, enforcement |-> e.enforcement, access |-> e.access,
     rules |-> SeqMap(L7Rule, e.rules), denyRules |-> SeqMap(L7DenyRule, e.denyRules),
     maxBodyBytes |-> e.maxBodyBytes, mcp |-> McpOptions(e.mcp), marks |-> e.marks \intersect GatewayMarks]

NetworkPolicyRule(r) ==
    [name |-> r.name, endpoints |-> SeqMap(PolicyNetworkEndpoint, r.endpoints), binaries |-> r.binaries]

MiddlewareConfig(m) == [name |-> m.name, fields |-> m.fields \intersect ToApi(RenamedInMiddleware, DOMAIN RenamedInMiddleware)]

(* Whether a section is there says something, also when it is empty. *)
Section(s) == IF s.set THEN Present(s.value) ELSE Absent

SandboxPolicy(p) ==
    [version |-> p.version, filesystem |-> Section(p.filesystem), landlock |-> Section(p.landlock),
     process |-> Section(p.process), unknown |-> FALSE,
     networkPolicies |-> [key \in DOMAIN p.networkPolicies |-> NetworkPolicyRule(p.networkPolicies[key])],
     networkMiddlewares |-> [key \in DOMAIN p.networkMiddlewares |-> MiddlewareConfig(p.networkMiddlewares[key])]]

(* JSON from the browser, into the SDK's types. The schema refuses a field it does not know. *)
ParseSDKPolicy(json) == IF json.unknown THEN None ELSE SandboxPolicy(json)

(* The SDK's types, into JSON for the browser. *)
MarshalSDKPolicy(policy) == SandboxPolicy(policy)

(* Where a request rule is to be appended; an absent path is not an empty one. *)
L7RuleTarget(t) ==
    [ruleName |-> t.ruleName, host |-> t.host, ports |-> t.ports, path |-> Section(t.path),
     binaries |-> t.binaries, anyBinary |-> t.anyBinary]

(* One of the operations of a merge. *)
PolicyMergeOperation(op) ==
    CASE op.kind = "addRule" -> [kind |-> op.kind, ruleName |-> op.ruleName, rule |-> NetworkPolicyRule(op.rule)]
      [] op.kind = "removeEndpoint" -> [kind |-> op.kind, ruleName |-> op.ruleName, host |-> op.host, port |-> op.port]
      [] op.kind = "removeRule" -> [kind |-> op.kind, ruleName |-> op.ruleName]
      [] op.kind = "addAllowRules" -> [kind |-> op.kind, target |-> L7RuleTarget(op.target), rules |-> SeqMap(L7Rule, op.rules)]
      [] op.kind = "addDenyRules" -> [kind |-> op.kind, target |-> L7RuleTarget(op.target),
                                      denyRules |-> SeqMap(L7DenyRule, op.denyRules)]

=============================================================================
