---------------------------- MODULE PolicyEditor ----------------------------
(* The policy of one sandbox, edited as a document and as rules (components/PolicyRuleEditor with api/policy.ts and    *)
(* handlers/policies_handler.go), while other people, agents and administrators change the same policy. A document     *)
(* replaces the policy whole; a change of the rules is an operation that the gateway merges. The gateway is external:  *)
(* it holds the policy (gw.policy) under a revision, and the sandbox under a resource version that every change of the *)
(* sandbox moves, a new policy included. Revision 0 is the policy the sandbox was created with, which is no revision.  *)
EXTENDS PolicyWire

CONSTANTS Typed,          \* the texts a person may type, paste or load
          Created,        \* the policy the sandbox is created with
          OtherPolicies,  \* the policies other writers may set
          Forms,          \* what the form of a new endpoint may hold
          ProviderRules,  \* the keys that begin with _provider_
          LowerCase,      \* the hosts, each with what ASCII lower case makes of it
          MaxRevision,    \* bounds: revisions,
          MaxOthers,      \*         what others do,
          MaxActs         \*         and documents begun, texts typed and operations sent here

(* The policies in play, and those that a text comes to, are the API's. *)
InPlay == OtherPolicies \union {Created} \union ({ReadPolicyText(text) : text \in Typed} \ {None})

ASSUME PoliciesAssumption == \A p \in InPlay : IsPolicy(p)
ASSUME FormsAssumption ==
    \A form \in Forms : /\ form.port \in Nat /\ form.access \in Nat /\ form.enforcement \in Nat
                         /\ form.fields \subseteq CarriedFields

VARIABLES gw,      \* the gateway: revision, resource version, policy, and whether a global policy is in force
          shown,   \* what the page last read of it: its revision, its policy, and whether a global one is in force
          poll,    \* the gateway's answer to a read of the policy that has not arrived: a revision and a policy; None without one
          draft,   \* the document being edited: its text and the revision it was started from; None without one
          meant,   \* history: the policy that the draft means, as the gateway would read it; None when it means none
          save,    \* the replacement under way: where it is, the policy, its base, the resource version and what it means, and
                   \* (history) whether it waits for a read of the policy that was under way before
          dialog,  \* the question that is open: an endpoint to remove (by place), or one to add a request rule to
          merge,   \* the operations on their way, and the rule as it was shown when they were made; None without any
          counts   \* how much of that was done
editorVars == <<gw, shown, poll, draft, meant, save, dialog, merge, counts>>

Idle == [at |-> "idle"]

-----------------------------------------------------------------------------
(* What the gateway takes a policy to mean: the reference that what is stored is compared with. *)

McpMethod(m, options) ==
    IF m.method # "" THEN m.method
    ELSE IF <<"name">> \notin DOMAIN m.params THEN "*"
    ELSE IF "allowAllKnownMcpMethods=true" \in options THEN "tools/call" ELSE ""

MeaningOfEndpoint(e) ==
    LET options == IF e.mcp.set THEN e.mcp.value.options ELSE {}
        versions == IF e.mcp.set THEN {e.mcp.value.versions[i] : i \in DOMAIN e.mcp.value.versions} ELSE {}
        Match(m) == IF e.protocol = "mcp" THEN [m EXCEPT !.method = McpMethod(m, options)] ELSE m
    IN [e EXCEPT !.port = 0, !.ports = IF e.ports # <<>> THEN e.ports ELSE <<e.port>>, !.marks = {},
                 !.rules = SeqMap(Match, e.rules), !.denyRules = SeqMap(Match, e.denyRules),
                 !.mcp = IF e.protocol = "mcp"
                         THEN [options |-> options, versions |-> IF versions = {} THEN {DefaultMcpVersion} ELSE versions]
                         ELSE Absent]

Meaning(p) ==
    [filesystem |-> p.filesystem, landlock |-> ReadLandlock(p.landlock),
     process |-> IF p.process.set THEN p.process.value ELSE {},
     rules |-> [key \in DOMAIN p.networkPolicies |->
                  [p.networkPolicies[key] EXCEPT !.name = IF @ = "" THEN key ELSE @,
                                                 !.endpoints = SeqMap(MeaningOfEndpoint, @)]],
     middlewares |-> [key \in DOMAIN p.networkMiddlewares |-> [p.networkMiddlewares[key] EXCEPT !.name = IF @ = "" THEN key ELSE @]]]

MeaningOrNone(p) == IF p = None THEN None ELSE Meaning(p)

-----------------------------------------------------------------------------
(* What the page makes of it: PolicyRuleEditor/utils.ts. *)

EndpointPorts(e) == IF e.ports # <<>> THEN e.ports ELSE IF e.port > 0 THEN <<e.port>> ELSE <<>>
PortSet(e) == {EndpointPorts(e)[i] : i \in DOMAIN EndpointPorts(e)}

SupportedFields(protocol, fields) ==
    fields \ ((IF protocol \in {"rest", "websocket"} THEN {} ELSE {"websocketCredentialRewrite"})
              \union (IF protocol = "rest" THEN {} ELSE {"requestBodyCredentialRewrite"}))

IsL7Protocol(protocol) == protocol \notin {"", "tcp"}

EndpointFromForm(form) ==
    [host |-> form.host, path |-> "", protocol |-> form.protocol, fields |-> SupportedFields(form.protocol, form.fields),
     port |-> form.port, ports |-> <<form.port>>, tls |-> 0, rules |-> <<>>, denyRules |-> <<>>,
     access |-> IF IsL7Protocol(form.protocol) THEN form.access ELSE 0,
     enforcement |-> IF IsL7Protocol(form.protocol) THEN form.enforcement ELSE 0,
     maxBodyBytes |-> 0, mcp |-> Absent, marks |-> {}]

AddEndpointOperation(form) ==
    LET name == IF form.ruleName # "" THEN form.ruleName ELSE "allow_" \o form.host IN
    <<[kind |-> "addRule", ruleName |-> name,
       rule |-> [name |-> name, endpoints |-> <<EndpointFromForm(form)>>, binaries |-> form.binaries]]>>

RemoveRuleOperation(key) == <<[kind |-> "removeRule", ruleName |-> key]>>

RemoveEndpointOperations(key, e) ==
    [i \in DOMAIN EndpointPorts(e) |->
        [kind |-> "removeEndpoint", ruleName |-> key, host |-> e.host, port |-> EndpointPorts(e)[i]]]

(* The effect of ports that endpoints of a rule lose: what each keeps, which stay, and whether the rule goes. One that  *)
(* loses none stays, also when it has none.                                                                            *)
Effect(endpoints, removedPorts) ==
    LET remainingPorts == [i \in DOMAIN endpoints |-> PortSet(endpoints[i]) \ removedPorts[i]]
        kept == {i \in DOMAIN endpoints : removedPorts[i] = {} \/ remainingPorts[i] # {}}
    IN [remainingPorts |-> remainingPorts, kept |-> kept,
        removesRule |-> kept = {} /\ \E i \in DOMAIN endpoints : removedPorts[i] # {}]

(* A seeded fault: only the endpoint that was chosen is thought to be touched. *)
Fault_RemovalOfOne(rule, e) ==
    LET Same(c) == LowerCase[c.host] = LowerCase[e.host] /\ c.path = e.path IN
    Effect(rule.endpoints, [i \in DOMAIN rule.endpoints |->
                               IF Same(rule.endpoints[i]) THEN PortSet(rule.endpoints[i]) \intersect PortSet(e) ELSE {}])

(* What is shown before a removal. *)
EndpointRemovalEffect(rule, e) ==
    LET SameHost(c) == LowerCase[c.host] = LowerCase[e.host] IN
    Effect(rule.endpoints, [i \in DOMAIN rule.endpoints |->
                               IF SameHost(rule.endpoints[i]) THEN PortSet(rule.endpoints[i]) \intersect PortSet(e) ELSE {}])

CanAppendL7Rules(e) == e.protocol \in {"rest", "websocket"}

(* The path is always there: an empty one selects the endpoint without a path scope. *)
L7RuleTargetOf(key, rule, e) ==
    [ruleName |-> key, host |-> e.host, ports |-> EndpointPorts(e), path |-> Present(e.path),
     binaries |-> rule.binaries, anyBinary |-> rule.binaries = {}]

AddL7RuleOperation(kind, key, rule, e) ==
    LET matcher == [method |-> "GET", path |-> "/**", fields |-> {}, params |-> <<>>] IN
    IF kind = "allow" THEN <<[kind |-> "addAllowRules", target |-> L7RuleTargetOf(key, rule, e), rules |-> <<matcher>>]>>
    ELSE <<[kind |-> "addDenyRules", target |-> L7RuleTargetOf(key, rule, e), denyRules |-> <<matcher>>]>>

OwnRules(policy) == DOMAIN policy.networkPolicies \ ProviderRules

-----------------------------------------------------------------------------
(* The gateway's merge (external). It removes by host and port, and refuses to append where the declared scope is not  *)
(* that of the one endpoint it selects.                                                                                *)

WithoutPort(e, port) ==
    LET ports == EndpointPorts(e)
        kept == Only(ports, {i \in DOMAIN ports : ports[i] # port})
    IN [e EXCEPT !.port = FirstOf(kept, 0), !.ports = kept]

WithRule(policy, key, rule) ==
    [policy EXCEPT !.networkPolicies = [k \in DOMAIN @ \union {key} |-> IF k = key THEN rule ELSE @[k]]]
WithoutRule(policy, key) == [policy EXCEPT !.networkPolicies = [k \in DOMAIN @ \ {key} |-> @[k]]]

RemoveEndpoint(policy, op) ==
    IF op.ruleName \notin DOMAIN policy.networkPolicies THEN policy
    ELSE LET rule == policy.networkPolicies[op.ruleName]
             Hit(e) == LowerCase[e.host] = LowerCase[op.host] /\ op.port \in PortSet(e)
             after == [i \in DOMAIN rule.endpoints |->
                          IF Hit(rule.endpoints[i]) THEN WithoutPort(rule.endpoints[i], op.port) ELSE rule.endpoints[i]]
             left == Only(after, {i \in DOMAIN after : Hit(rule.endpoints[i]) => PortSet(after[i]) # {}})
         IN IF left = <<>> /\ rule.endpoints # <<>> THEN WithoutRule(policy, op.ruleName)
            ELSE WithRule(policy, op.ruleName, [rule EXCEPT !.endpoints = left])

AddRule(policy, op) ==
    IF op.ruleName \notin DOMAIN policy.networkPolicies THEN WithRule(policy, op.ruleName, op.rule)
    ELSE WithRule(policy, op.ruleName, [policy.networkPolicies[op.ruleName] EXCEPT !.endpoints = @ \o op.rule.endpoints])

Selected(rule, target) ==
    {i \in DOMAIN rule.endpoints : /\ LowerCase[rule.endpoints[i].host] = LowerCase[target.host]
                                   /\ target.path.set => rule.endpoints[i].path = target.path.value}
MayAppend(policy, target) ==
    /\ target.ruleName \in DOMAIN policy.networkPolicies
    /\ LET rule == policy.networkPolicies[target.ruleName] IN
       /\ Cardinality(Selected(rule, target)) = 1
       /\ \A i \in Selected(rule, target) : PortSet(rule.endpoints[i]) = {target.ports[j] : j \in DOMAIN target.ports}
       /\ IF target.anyBinary THEN rule.binaries = {} ELSE rule.binaries = target.binaries
Appended(policy, target, allow, deny) ==
    LET rule == policy.networkPolicies[target.ruleName]
        i == CHOOSE n \in Selected(rule, target) : TRUE
        appended == [rule.endpoints[i] EXCEPT !.rules = @ \o allow, !.denyRules = @ \o deny]
    IN WithRule(policy, target.ruleName, [rule EXCEPT !.endpoints[i] = appended])

(* One operation; None when the gateway refuses it. *)
Merged(policy, op) ==
    IF policy = None THEN None ELSE
    CASE op.kind = "addRule" -> AddRule(policy, op)
      [] op.kind = "removeRule" -> IF op.ruleName \in DOMAIN policy.networkPolicies THEN WithoutRule(policy, op.ruleName) ELSE None
      [] op.kind = "removeEndpoint" -> RemoveEndpoint(policy, op)
      [] op.kind = "addAllowRules" -> IF MayAppend(policy, op.target) THEN Appended(policy, op.target, op.rules, <<>>) ELSE None
      [] op.kind = "addDenyRules" -> IF MayAppend(policy, op.target) THEN Appended(policy, op.target, <<>>, op.denyRules) ELSE None

MergedAll(policy, ops) ==
    LET f[i \in 0 .. Len(ops)] == IF i = 0 THEN policy ELSE Merged(f[i - 1], PolicyMergeOperation(ops[i])) IN f[Len(ops)]

StoredAs(policy) == [gw EXCEPT !.revision = @ + 1, !.version = @ + 1, !.policy = policy]
CanStore == gw.revision < MaxRevision

-----------------------------------------------------------------------------
EditorInit ==
    /\ gw = [revision |-> 0, version |-> 0, policy |-> Created, global |-> FALSE]
    /\ shown = [revision |-> 0, policy |-> MarshalSDKPolicy(Created), global |-> FALSE]
    /\ poll = None /\ draft = None /\ meant = None /\ save = Idle /\ dialog = None /\ merge = None
    /\ counts = [others |-> 0, acts |-> 0]

Act == counts.acts < MaxActs /\ counts' = [counts EXCEPT !.acts = @ + 1]

(* Everybody else. *)
OthersReplace ==
    /\ counts.others < MaxOthers /\ counts' = [counts EXCEPT !.others = @ + 1]
    /\ CanStore /\ ~gw.global
    /\ \E p \in OtherPolicies : gw' = StoredAs(p)
    /\ UNCHANGED <<shown, poll, draft, meant, save, dialog, merge>>
OthersTouch ==
    /\ counts.others < MaxOthers /\ counts' = [counts EXCEPT !.others = @ + 1]
    /\ gw' = [gw EXCEPT !.version = @ + 1]
    /\ UNCHANGED <<shown, poll, draft, meant, save, dialog, merge>>
(* An administrator sets or deletes the global policy; which one it is does not matter to a sandbox's own. *)
SetOrDeleteGlobalPolicy ==
    /\ counts.others < MaxOthers /\ counts' = [counts EXCEPT !.others = @ + 1]
    /\ gw' = [gw EXCEPT !.global = ~@]
    /\ UNCHANGED <<shown, poll, draft, meant, save, dialog, merge>>

(* The policy and the effective policy are polled, each at its own pace. External: the gateway answers a read of the   *)
(* policy, and the answer is on its way.                                                                               *)
AnswerPolicy ==
    /\ poll = None
    /\ poll' = [revision |-> gw.revision, policy |-> MarshalSDKPolicy(gw.policy)]
    /\ UNCHANGED <<gw, shown, draft, meant, save, dialog, merge, counts>>

(* The read is made again. Where the page holds a revision, the read under way is dropped, and whoever waits for it    *)
(* waits for the new one (react-query, cancelRefetch); where it holds none, the new one is the one under way.          *)
HasRevision == shown.revision # 0
Refetched == IF HasRevision THEN None ELSE poll

PollEffective ==
    /\ shown' = [shown EXCEPT !.global = gw.global]
    /\ UNCHANGED <<gw, poll, draft, meant, save, dialog, merge, counts>>

-----------------------------------------------------------------------------
(* The document. *)

Busy == save.at # "idle"
NoModal == dialog = None

DocumentOf(policy, format) ==
    IF PolicyToText(policy, format) # None THEN PolicyToText(policy, format) ELSE PolicyToText(policy, "json")

(* A draft of the policy as the page shows it. *)
DraftOfShown(format) ==
    /\ draft' = [text |-> DocumentOf(shown.policy, format), base |-> shown.revision]
    /\ meant' = Meaning(shown.policy)

StartEditing ==
    /\ NoModal /\ draft = None /\ ~shown.global
    /\ Act
    /\ \E format \in {"yaml", "json"} : DraftOfShown(format)
    /\ UNCHANGED <<gw, shown, poll, save, dialog, merge>>

Type ==
    /\ NoModal /\ draft # None /\ Act
    /\ \E text \in Typed : /\ draft' = [draft EXCEPT !.text = text]
                           /\ meant' = MeaningOrNone(ReadPolicyText(text))
    /\ UNCHANGED <<gw, shown, poll, save, dialog, merge>>

(* Choosing the other format rewrites the document in it, when it reads as a policy that can be written so. *)
Choose ==
    /\ NoModal /\ draft # None
    /\ LET parsed == ReadPolicyText(draft.text)
           other == IF PolicyTextFormat(draft.text) = "yaml" THEN "json" ELSE "yaml"
       IN /\ parsed # None /\ PolicyToText(parsed, other) # None
          /\ draft' = [draft EXCEPT !.text = PolicyToText(parsed, other)]
    /\ UNCHANGED <<gw, shown, poll, meant, save, dialog, merge, counts>>

PolicyChanged == draft.base # shown.revision

KeepDocument ==
    /\ NoModal /\ draft # None /\ PolicyChanged
    /\ draft' = [draft EXCEPT !.base = shown.revision]
    /\ UNCHANGED <<gw, shown, poll, meant, save, dialog, merge, counts>>
DiscardDocument ==
    /\ NoModal /\ draft # None /\ PolicyChanged
    /\ DraftOfShown(PolicyTextFormat(draft.text))
    /\ UNCHANGED <<gw, shown, poll, save, dialog, merge, counts>>
Cancel ==
    /\ NoModal /\ draft # None /\ ~Busy
    /\ draft' = None /\ meant' = None
    /\ UNCHANGED <<gw, shown, poll, save, dialog, merge, counts>>

(* Sends the document, after the sandbox and then its policy have been read again. *)
CannotReplace(parsed) ==
    \/ parsed = None
    \/ DOMAIN parsed.networkPolicies \intersect ProviderRules # {}
    \/ PolicyChanged
    \/ shown.global
Replace ==
    /\ NoModal /\ draft # None /\ ~Busy
    /\ LET parsed == ReadPolicyText(draft.text) IN
       /\ ~CannotReplace(parsed)
       /\ save' = [at |-> "sandbox", policy |-> parsed, base |-> draft.base, version |-> 0, meant |-> meant, joined |-> FALSE]
    /\ UNCHANGED <<gw, shown, poll, draft, meant, dialog, merge, counts>>

ReadSandbox ==
    /\ save.at = "sandbox"
    /\ save' = [save EXCEPT !.at = "refetch", !.version = gw.version]
    /\ UNCHANGED <<gw, shown, poll, draft, meant, dialog, merge, counts>>
RefetchPolicy ==
    /\ save.at = "refetch"
    /\ save' = [save EXCEPT !.at = "policy", !.joined = ~HasRevision /\ poll # None]
    /\ poll' = Refetched
    /\ UNCHANGED <<gw, shown, draft, meant, dialog, merge, counts>>

(* A seeded fault: the revision that the page has. *)
Fault_RevisionShown == shown.revision

(* The revision that was just read; none at all is answered 404 and is no failure for a draft that has none. *)
RevisionNow == poll.revision

(* An answer arrives, and the page holds it from here on. The replacement that waits for it goes on where the revision *)
(* is still its base, and else ends: the document editor says so and asks.                                             *)
PolicyArrives ==
    /\ poll # None
    /\ shown' = [shown EXCEPT !.revision = poll.revision, !.policy = poll.policy]
    /\ poll' = None
    /\ save' = IF save.at # "policy" THEN save ELSE IF RevisionNow = save.base THEN [save EXCEPT !.at = "sent"] ELSE Idle
    /\ UNCHANGED <<gw, draft, meant, dialog, merge, counts>>
PolicyReadFails ==
    /\ poll # None \/ save.at = "policy"
    /\ poll' = None
    /\ save' = IF save.at = "policy" THEN Idle ELSE save
    /\ UNCHANGED <<gw, shown, draft, meant, dialog, merge, counts>>
SandboxReadFails ==
    /\ save.at = "sandbox"
    /\ save' = Idle
    /\ UNCHANGED <<gw, shown, poll, draft, meant, dialog, merge, counts>>

(* UpdateSandboxPolicy: the schema, and then the gateway, which takes only the resource version it is at. *)
UpdateSandboxPolicy ==
    /\ save.at = "sent"
    /\ LET policy == ParseSDKPolicy(save.policy) IN
       IF policy # None /\ ~gw.global /\ save.version = gw.version
       THEN CanStore /\ gw' = StoredAs(policy) /\ save' = [save EXCEPT !.at = "stored"]
       ELSE save' = [save EXCEPT !.at = "refused"] /\ UNCHANGED gw
    /\ UNCHANGED <<shown, poll, draft, meant, dialog, merge, counts>>
RequestFails ==
    /\ save.at \in {"sent", "stored"}  \* the answer may be lost as well as the request
    /\ save' = [save EXCEPT !.at = "refused"]
    /\ UNCHANGED <<gw, shown, poll, draft, meant, dialog, merge, counts>>

(* The answer of a success drops the draft as it is by then, and the policy is read again. *)
Replaced ==
    /\ save.at = "stored"
    /\ save' = Idle /\ draft' = None /\ meant' = None
    /\ poll' = Refetched
    /\ UNCHANGED <<gw, shown, dialog, merge, counts>>
NotReplaced ==
    /\ save.at = "refused"
    /\ save' = Idle
    /\ UNCHANGED <<gw, shown, poll, draft, meant, dialog, merge, counts>>

-----------------------------------------------------------------------------
(* The rules. *)

Editable == ~shown.global /\ merge = None /\ dialog = None /\ Act

SendOperations(ops, key) ==
    /\ ops # <<>>
    /\ merge' = [ops |-> ops, key |-> key, rule |-> IF key \in OwnRules(shown.policy) THEN shown.policy.networkPolicies[key] ELSE None]

RemoveRule ==
    /\ Editable
    /\ \E key \in OwnRules(shown.policy) : SendOperations(RemoveRuleOperation(key), key)
    /\ UNCHANGED <<gw, shown, poll, draft, meant, save, dialog>>
AddEndpoint ==
    /\ Editable
    /\ \E form \in Forms : LET ops == AddEndpointOperation(form) IN SendOperations(ops, ops[1].ruleName)
    /\ UNCHANGED <<gw, shown, poll, draft, meant, save, dialog>>

(* The endpoint to remove is kept by where it is, the one to add a rule to as it was. *)
AskRemoval ==
    /\ Editable
    /\ \E key \in OwnRules(shown.policy) : \E i \in DOMAIN shown.policy.networkPolicies[key].endpoints :
           dialog' = [kind |-> "remove", key |-> key, index |-> i]
    /\ UNCHANGED <<gw, shown, poll, draft, meant, save, merge>>
AskL7Rule ==
    /\ Editable
    /\ \E key \in OwnRules(shown.policy) : \E i \in DOMAIN shown.policy.networkPolicies[key].endpoints :
           LET e == shown.policy.networkPolicies[key].endpoints[i] IN
           CanAppendL7Rules(e) /\ dialog' = [kind |-> "l7", key |-> key, endpoint |-> e]
    /\ UNCHANGED <<gw, shown, poll, draft, meant, save, merge>>
CloseDialog ==
    /\ dialog # None /\ dialog' = None
    /\ UNCHANGED <<gw, shown, poll, draft, meant, save, merge, counts>>

AskedRule == shown.policy.networkPolicies[dialog.key]
ConfirmRemoval ==
    /\ dialog # None /\ dialog.kind = "remove" /\ merge = None
    /\ dialog.key \in OwnRules(shown.policy) /\ dialog.index \in DOMAIN AskedRule.endpoints
    /\ LET e == AskedRule.endpoints[dialog.index] IN
       /\ EndpointPorts(e) # <<>>
       /\ merge' = [ops |-> RemoveEndpointOperations(dialog.key, e), key |-> dialog.key, rule |-> AskedRule,
                    effect |-> EndpointRemovalEffect(AskedRule, e)]
    /\ dialog' = None
    /\ UNCHANGED <<gw, shown, poll, draft, meant, save, counts>>
SubmitL7Rule ==
    /\ dialog # None /\ dialog.kind = "l7" /\ merge = None
    /\ dialog.key \in OwnRules(shown.policy)
    /\ \E kind \in {"allow", "deny"} : SendOperations(AddL7RuleOperation(kind, dialog.key, AskedRule, dialog.endpoint), dialog.key)
    /\ UNCHANGED <<gw, shown, poll, draft, meant, save, dialog, counts>>

(* MergeSandboxPolicy: the gateway merges into its latest policy, all of the operations or none. *)
MergeSandboxPolicy ==
    /\ merge # None
    /\ LET policy == MergedAll(gw.policy, merge.ops) IN
       IF policy = None \/ gw.global THEN UNCHANGED gw ELSE CanStore /\ gw' = StoredAs(policy)
    /\ merge' = None
    /\ dialog' = IF gw' # gw THEN None ELSE dialog
    /\ poll' = IF gw' # gw THEN Refetched ELSE poll
    /\ UNCHANGED <<shown, draft, meant, save, counts>>

EditorNext ==
    \/ OthersReplace \/ OthersTouch \/ SetOrDeleteGlobalPolicy
    \/ AnswerPolicy \/ PolicyArrives \/ PolicyReadFails \/ PollEffective
    \/ StartEditing \/ Type \/ Choose \/ KeepDocument \/ DiscardDocument \/ Cancel
    \/ Replace \/ ReadSandbox \/ SandboxReadFails \/ RefetchPolicy \/ UpdateSandboxPolicy \/ RequestFails \/ Replaced \/ NotReplaced
    \/ RemoveRule \/ AddEndpoint \/ AskRemoval \/ AskL7Rule \/ CloseDialog \/ ConfirmRemoval \/ SubmitL7Rule
    \/ MergeSandboxPolicy

EditorSpec == EditorInit /\ [][EditorNext]_editorVars

-----------------------------------------------------------------------------
(* Properties. *)

Stores == save.at = "sent" /\ save'.at = "stored"

(* A document that is stored replaces the revision it was started from, or the one that its editor chose to replace    *)
(* after having been told of it, whatever was written by others between any two of the reads (PolicyRuleEditor/        *)
(* index.tsx, replaceDocument). The exception is a draft of a policy without a revision whose check of the policy      *)
(* joined a read that was under way.                                                                                   *)
NoLostUpdate == [][Stores /\ ~save.joined => gw.revision = save.base]_editorVars

(* The same without the exception, which is what the comment on replaceDocument says (index.tsx:155-163). It does not  *)
(* hold: that there is no revision may have been read before the sandbox was.                                          *)
NothingIsReplacedUnseen == [][Stores => gw.revision = save.base]_editorVars

(* An MCP matcher with a parameter nested below `name`, the one that says its tool. Written to a file and read back,   *)
(* it may have lost the tool, and with it the method that the tool stood for.                                          *)
NestsBelowName(m) == \E k \in DOMAIN m.params : k[1] = "name" /\ k # <<"name">>
OtherParams(params) == [k \in DOMAIN params \ {<<"name">>} |-> params[k]]
LooseMatch(m) ==
    IF ~NestsBelowName(m) THEN m
    ELSE [m EXCEPT !.method = IF @ \in {"", "tools/call"} THEN "*" ELSE @, !.params = OtherParams(@)]
LooseEndpoint(e) ==
    IF e.protocol # "mcp" THEN e ELSE [e EXCEPT !.rules = SeqMap(LooseMatch, @), !.denyRules = SeqMap(LooseMatch, @)]
LooseRule(rule) == [rule EXCEPT !.endpoints = SeqMap(LooseEndpoint, @)]
Loosely(meaning) == [meaning EXCEPT !.rules = [key \in DOMAIN @ |-> LooseRule(@[key])]]

(* What the gateway stores means what was typed, or what editing was started from, through every change of format and *)
(* every conversion on the way (utils/policyFile.ts, handlers/policies_handler.go), but for the tool of a matcher that *)
(* also has a parameter nested below `name`.                                                                           *)
WhatWasWrittenIsStored == [][Stores => Loosely(Meaning(gw'.policy)) = Loosely(save.meant)]_editorVars

(* The same without the exception, which is what policyFile.ts:60-61 would have: nothing changes what a document says  *)
(* without saying so. It does not hold.                                                                                *)
NothingIsChangedUnsaid == [][Stores => Meaning(gw'.policy) = save.meant]_editorVars

(* Where the rule is still the one that was shown, a removal leaves every endpoint the ports that the question said it *)
(* keeps, drops only those that it said are removed altogether, and removes the rule just when it said so: nothing is  *)
(* removed that was not named (PolicyRuleEditor/utils.ts, endpointRemovalEffect).                                      *)
EndpointsLeft(key) == IF key \in DOMAIN gw'.policy.networkPolicies THEN gw'.policy.networkPolicies[key].endpoints ELSE <<>>
RemovalIsAsShown ==
    [][(/\ merge # None /\ merge' = None /\ gw'.revision # gw.revision
        /\ merge.ops[1].kind = "removeEndpoint"
        /\ merge.key \in DOMAIN gw.policy.networkPolicies
        /\ merge.rule = MarshalSDKPolicy(gw.policy).networkPolicies[merge.key])
       => /\ SeqMap(PortSet, EndpointsLeft(merge.key)) = Only(merge.effect.remainingPorts, merge.effect.kept)
          /\ merge.effect.removesRule <=> merge.key \notin DOMAIN gw'.policy.networkPolicies]_editorVars

=============================================================================
