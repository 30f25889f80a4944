---------------------------- MODULE ProfileFile -----------------------------
(* Provider profile files and profiles: what utils/profileFile.ts makes of the one and of the other. A profile is the  *)
(* API's; a document is what a profile file holds once its YAML or JSON has been parsed.                               *)
(*                                                                                                                     *)
(* A duration is a number of seconds, and a matcher one of "bare" (text alone, in a file), "glob", "any" and "glob and *)
(* any". The API's value of an enum is its name, or the digits of a number that has none. What a document holds beside *)
(* its schema is kept apart: the places of its keys that no field has (extra), and whether something has a shape that  *)
(* its field does not take (misshapen).                                                                                *)
EXTENDS Documents

-----------------------------------------------------------------------------
(* Names. *)

RenamedInProfile == [annotations |-> "annotations", description |-> "description", source |-> "source",
                     inference_capable |-> "inferenceCapable", files |-> "files", binaries |-> "binaries",
                     discovery |-> "discovery"]
RenamedInCredential == [description |-> "description", env_vars |-> "envVars", required |-> "required",
                        stable_placeholder |-> "stablePlaceholder", auth_style |-> "authStyle",
                        header_name |-> "headerName", query_param |-> "queryParam", path_template |-> "pathTemplate"]
RenamedInRefresh == [token_url |-> "tokenUrl", scopes |-> "scopes", material |-> "material",
                     additional_outputs |-> "additionalOutputs"]
RenamedInGrant == [token_endpoint |-> "tokenEndpoint", audience |-> "audience", scopes |-> "scopes",
                   jwt_svid_audience |-> "jwtSvidAudience", client_assertion_type |-> "clientAssertionType",
                   requested_token_type |-> "requestedTokenType", audience_overrides |-> "audienceOverrides",
                   subject_token |-> "subjectToken"]
RenamedInEndpoint == [host |-> "host", port |-> "port", ports |-> "ports", path |-> "path", allowed_ips |-> "allowedIps",
                      allow_encoded_slash |-> "allowEncodedSlash",
                      websocket_credential_rewrite |-> "websocketCredentialRewrite",
                      request_body_credential_rewrite |-> "requestBodyCredentialRewrite",
                      allow_uninspected_credentials |-> "allowUninspectedCredentials",
                      persisted_queries |-> "persistedQueries", graphql_persisted_queries |-> "graphqlPersistedQueries",
                      graphql_max_body_bytes |-> "graphqlMaxBodyBytes", json_rpc_max_body_bytes |-> "jsonRpcMaxBodyBytes",
                      credential_signing |-> "credentialSigning", signing_service |-> "signingService",
                      signing_region |-> "signingRegion"]
RenamedInRule == [method |-> "method", path |-> "path", command |-> "command", query |-> "query",
                  operation_type |-> "operationType", operation_name |-> "operationName", fields |-> "fields"]

(* The values of an enum, by the name a file has for them. *)
Category == [other |-> "OTHER", inference |-> "INFERENCE", agent |-> "AGENT", source_control |-> "SOURCE_CONTROL",
             messaging |-> "MESSAGING", data |-> "DATA", knowledge |-> "KNOWLEDGE"]
RefreshStrategy == [static |-> "STATIC", external |-> "EXTERNAL", oauth2_refresh_token |-> "OAUTH2_REFRESH_TOKEN",
                    oauth2_client_credentials |-> "OAUTH2_CLIENT_CREDENTIALS",
                    google_service_account_jwt |-> "GOOGLE_SERVICE_ACCOUNT_JWT",
                    aws_sts_assume_role |-> "AWS_STS_ASSUME_ROLE"]
GrantType == [client_credentials |-> "CLIENT_CREDENTIALS", token_exchange |-> "TOKEN_EXCHANGE"]
TlsModes == [skip |-> "SKIP", terminate |-> "TERMINATE", passthrough |-> "PASSTHROUGH"]
AccessPresets == [readonly |-> "READ_ONLY", readwrite |-> "READ_WRITE", full |-> "FULL"]
EnforcementModes == [enforce |-> "ENFORCE", audit |-> "AUDIT"]

NameIn(names, value, default) ==
    IF \E n \in DOMAIN names : names[n] = value THEN CHOOSE n \in DOMAIN names : names[n] = value ELSE default

(* A name that upstream does not know is sent as the number -1, for the gateway to refuse. *)
ModeFromFile(names, name) == IF name = "" THEN "" ELSE IF name \in DOMAIN names THEN names[name] ELSE "-1"
ModeToFile(names, value) == IF value = "" THEN "" ELSE NameIn(names, value, "unknown")

-----------------------------------------------------------------------------
(* From a document to a profile. *)

(* The text of a duration, which wins, or the older whole number of seconds, of which zero is none. *)
ReadDuration(d) == IF d.text.set THEN d.text ELSE IF d.seconds # 0 THEN Present(d.seconds) ELSE Absent

ReadMatcher(matcher) == IF matcher = "bare" THEN "glob" ELSE matcher

(* `tool` is short for the parameter `name`, and does not replace one that is written. *)
ReadParams(rule) ==
    LET all == IF rule.tool.set /\ "name" \notin DOMAIN rule.params
               THEN [k \in DOMAIN rule.params \union {"name"} |->
                        IF k = "name" THEN rule.tool.value ELSE rule.params[k]]
               ELSE rule.params
    IN [k \in DOMAIN all |-> ReadMatcher(all[k])]

ReadMatch(rule) == [fields |-> ToApi(RenamedInRule, rule.fields), params |-> ReadParams(rule)]
ReadAllow(rule) == OptionalMap(ReadMatch, rule)

MatchReads(rule, isMcp) == ~(isMcp /\ rule.tool.set /\ "name" \in DOMAIN rule.params)

(* A list that is there and empty says what the API cannot say. *)
RulesRead(list, isMcp, AllowOf(_)) ==
    list.set => list.value # <<>> /\ \A i \in DOMAIN list.value :
                                         AllowOf(list.value[i]).set => MatchReads(AllowOf(list.value[i]).value, isMcp)
RulesOf(list) == IF list.set THEN list.value ELSE <<>>

McpReads(mcp) ==
    mcp.versions.set => /\ mcp.versions.value # <<>>
                        /\ \A i, j \in DOMAIN mcp.versions.value : mcp.versions.value[i] = mcp.versions.value[j] => i = j
(* Kept also when it sets nothing. *)
ReadMcp(mcp) == [options |-> mcp.options, versions |-> IF mcp.versions.set THEN mcp.versions.value ELSE <<>>]

EndpointReads(e) ==
    /\ RulesRead(e.rules, e.protocol = "mcp", LAMBDA rule : rule)
    /\ RulesRead(e.deny_rules, e.protocol = "mcp", LAMBDA rule : Present(rule))
    /\ e.mcp.set => McpReads(e.mcp.value)

ReadEndpoint(e) ==
    [fields |-> ToApi(RenamedInEndpoint, e.fields), protocol |-> e.protocol, tls |-> ModeFromFile(TlsModes, e.tls),
     access |-> ModeFromFile(AccessPresets, e.access), enforcement |-> ModeFromFile(EnforcementModes, e.enforcement),
     rules |-> SeqMap(ReadAllow, RulesOf(e.rules)), denyRules |-> SeqMap(ReadMatch, RulesOf(e.deny_rules)),
     mcp |-> OptionalMap(ReadMcp, e.mcp), owner |-> FALSE]

ReadRefresh(r) ==
    [strategy |-> IF r.strategy = "" THEN "UNSPECIFIED" ELSE RefreshStrategy[r.strategy],
     fields |-> ToApi(RenamedInRefresh, r.fields), refreshBefore |-> ReadDuration(r.refresh_before),
     maxLifetime |-> ReadDuration(r.max_lifetime)]

ReadTokenGrant(g) ==
    [grantType |-> IF g.grant_type = "" THEN "CLIENT_CREDENTIALS" ELSE GrantType[g.grant_type],
     fields |-> ToApi(RenamedInGrant, g.fields), cacheTtl |-> ReadDuration(g.cache_ttl)]

ReadCredential(c) ==
    [name |-> c.name, fields |-> ToApi(RenamedInCredential, c.fields), refresh |-> OptionalMap(ReadRefresh, c.refresh),
     tokenGrant |-> OptionalMap(ReadTokenGrant, c.token_grant), owners |-> FALSE]

CredentialReads(c) ==
    /\ c.refresh.set => c.refresh.value.strategy \in DOMAIN RefreshStrategy \union {""}
    /\ c.token_grant.set => c.token_grant.value.grant_type \in DOMAIN GrantType \union {""}

(* Where a field that the schema does not have is refused, and not only warned of. *)
Closed == {"mcp", "binaries"}

DocumentReads(doc) ==
    /\ ~doc.misshapen
    /\ doc.extra \intersect Closed = {}
    /\ doc.category \in DOMAIN Category \union {""}
    /\ AllOf(CredentialReads, doc.credentials)
    /\ AllOf(EndpointReads, doc.endpoints)

ProfileFromDocument(doc) ==
    [id |-> doc.id, displayName |-> doc.display_name, resourceVersion |-> doc.resource_version, scope |-> doc.scope,
     category |-> IF doc.category = "" THEN "OTHER" ELSE Category[doc.category],
     fields |-> ToApi(RenamedInProfile, doc.fields), credentials |-> SeqMap(ReadCredential, doc.credentials),
     endpoints |-> <<>>, networkEndpoints |-> IF doc.endpoints = <<>> THEN Absent ELSE Present(SeqMap(ReadEndpoint, doc.endpoints))]

(* A profile file by its extension. *)
ProfileFileFormat(extension) ==
    IF extension \in {"yaml", "yml"} THEN "yaml" ELSE IF extension = "json" THEN "json" ELSE ""

(* A text parses in its format or does not; a merge key of YAML would be left unapplied, and is refused instead. *)
TextReads(text, format) == text.parses /\ (format = "yaml" => ~text.mergeKeys)

(* What reading a file yields: a profile or none, and what was found on the way. *)
ParseProfileFile(text, format) ==
    IF TextReads(text, format) /\ DocumentReads(text.doc)
    THEN [profile |-> ProfileFromDocument(text.doc), diagnostics |-> IF text.doc.extra = {} THEN {} ELSE {"warning"}]
    ELSE [profile |-> None, diagnostics |-> {"error"}]

-----------------------------------------------------------------------------
(* From a profile to a document. *)

(* One whose endpoints are only known in part has their summaries and nothing else. *)
IsProfileExportable(profile) == profile.endpoints = <<>> \/ profile.networkEndpoints.set

(* Unset is no duration, and "0s" is one. *)
WriteDuration(d) == [text |-> d, seconds |-> 0]

WriteMatch(m) == [fields |-> ToFile(RenamedInRule, m.fields), tool |-> Absent, params |-> m.params]
WriteAllow(rule) == OptionalMap(WriteMatch, rule)
WriteRules(Write(_), rules) == IF rules = <<>> THEN Absent ELSE Present(SeqMap(Write, rules))

WriteMcp(mcp) ==
    [options |-> mcp.options, versions |-> IF mcp.versions = <<>> THEN Absent ELSE Present(mcp.versions)]

WriteEndpoint(e) ==
    [fields |-> ToFile(RenamedInEndpoint, e.fields), protocol |-> e.protocol, tls |-> ModeToFile(TlsModes, e.tls),
     access |-> ModeToFile(AccessPresets, e.access), enforcement |-> ModeToFile(EnforcementModes, e.enforcement),
     rules |-> WriteRules(WriteAllow, e.rules), deny_rules |-> WriteRules(WriteMatch, e.denyRules),
     mcp |-> OptionalMap(WriteMcp, e.mcp)]

WriteRefresh(r) ==
    [strategy |-> NameIn(RefreshStrategy, r.strategy, "unspecified"), fields |-> ToFile(RenamedInRefresh, r.fields),
     refresh_before |-> WriteDuration(r.refreshBefore), max_lifetime |-> WriteDuration(r.maxLifetime)]

(* client_credentials is what no grant type means, and is not written. *)
WriteTokenGrant(g) ==
    [grant_type |-> IF g.grantType = "TOKEN_EXCHANGE" THEN "token_exchange" ELSE "",
     fields |-> ToFile(RenamedInGrant, g.fields), cache_ttl |-> WriteDuration(g.cacheTtl)]

WriteCredential(c) ==
    [name |-> c.name, fields |-> ToFile(RenamedInCredential, c.fields), refresh |-> OptionalMap(WriteRefresh, c.refresh),
     token_grant |-> OptionalMap(WriteTokenGrant, c.tokenGrant)]

(* A category without a name of its own is "other". *)
ProfileToDocument(p) ==
    [id |-> p.id, display_name |-> p.displayName, resource_version |-> p.resourceVersion, scope |-> p.scope,
     category |-> NameIn(Category, p.category, "other"), fields |-> ToFile(RenamedInProfile, p.fields),
     credentials |-> SeqMap(WriteCredential, p.credentials), extra |-> {}, misshapen |-> FALSE,
     endpoints |-> SeqMap(WriteEndpoint, IF p.networkEndpoints.set THEN p.networkEndpoints.value ELSE <<>>)]

SerializeProfileFile(profile) == [parses |-> TRUE, mergeKeys |-> FALSE, doc |-> ProfileToDocument(profile)]

=============================================================================
