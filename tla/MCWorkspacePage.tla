-------------------------- MODULE MCWorkspacePage ---------------------------
EXTENDS WorkspacePage, TLC

Match(fields, params) == [fields |-> fields, params |-> params]

(* An endpoint whose tool is chosen by a rule, and one of a mode that the backend has no name for. *)
McpEndpoint ==
    [PlainEndpoint({"host", "ports"}, "mcp") EXCEPT
        !.mcp = Present([options |-> {}, versions |-> <<>>]), !.owner = TRUE,
        !.rules = <<Present(Match({"method"}, "name" :> "glob" @@ "x" :> "any")), Absent>>,
        !.denyRules = <<Match({"command"}, <<>>)>>]
NewerEndpoint == [PlainEndpoint({"host", "port", "path"}, "rest") EXCEPT !.tls = 1, !.access = 9, !.enforcement = 2]

Refresh == [strategy |-> 3, fields |-> {"tokenUrl"}, refreshBefore |-> Present(0), maxLifetime |-> Absent]
Grant(type) == [grantType |-> type, fields |-> {"audience"}, cacheTtl |-> Present(0)]
Credential(fields, grantType) ==
    [name |-> "key", fields |-> fields, refresh |-> Present(Refresh), tokenGrant |-> Present(Grant(grantType)), owners |-> TRUE]

Profile(id, owner, category, credentials, endpoints) ==
    [id |-> id, displayName |-> "", resourceVersion |-> 1, scope |-> owner, category |-> category,
     fields |-> {"description", "source"}, credentials |-> credentials, endpoints |-> endpoints]

(* One id in both scopes, at the same version: in the workspace with a category and a grant type that the backend has no *)
(* name for, and one that is unset; on the platform with an endpoint that the gateway does not take back.              *)
MCHeld ==
    [k \in Scopes \X Ids |->
        IF k = <<"workspace", "p">>
        THEN [version |-> 1,
              profile |-> Profile("p", "workspace", 9,
                                  <<Credential({"envVars", "stablePlaceholder"}, 5), Credential({"envVars"}, 0)>>,
                                  <<McpEndpoint>>)]
        ELSE IF k = <<"platform", "p">>
        THEN [version |-> 1, profile |-> Profile("p", "platform", 3, <<>>, <<NewerEndpoint>>)]
        ELSE [version |-> 0, profile |-> None]]
MCOtherProfiles == {Profile("p", "", 0, <<>>, <<PlainEndpoint({"host", "port"}, "tcp")>>)}

-----------------------------------------------------------------------------
(* A file with the older forms: seconds, a tool, a text that is a matcher, an empty mode. *)
DocRule == [fields |-> {"path"}, tool |-> Present("bare"), params |-> "x" :> "glob and any"]
DocEndpoint ==
    [fields |-> {"host", "port"}, protocol |-> "mcp", tls |-> "skip", access |-> "readonly", enforcement |-> "",
     rules |-> Present(<<Present(DocRule)>>), deny_rules |-> Absent,
     mcp |-> Present([options |-> {"strictToolNames"}, versions |-> Present(<<"2025-06-18">>)])]
DocCredential ==
    [name |-> "key", fields |-> {"env_vars"}, token_grant |-> Absent,
     refresh |-> Present([strategy |-> "external", fields |-> {"scopes"},
                          refresh_before |-> [text |-> Absent, seconds |-> 60],
                          max_lifetime |-> [text |-> Absent, seconds |-> 0]])]
Document(id, extra, endpoints) ==
    [id |-> id, display_name |-> "", resource_version |-> 0, scope |-> "", category |-> "", fields |-> {"annotations"},
     credentials |-> <<DocCredential>>, endpoints |-> endpoints, extra |-> extra, misshapen |-> FALSE]
MeantByDocument(id) ==
    [id |-> id, displayName |-> "", fields |-> {"annotations"}, category |-> 1,
     credentials |-> <<[name |-> "key", fields |-> {"envVars"}, tokenGrant |-> Absent, owners |-> FALSE,
                        refresh |-> Present([strategy |-> 2, fields |-> {"scopes"}, refreshBefore |-> Present(60),
                                             maxLifetime |-> Absent])]>>,
     endpoints |->
         <<[PlainEndpoint({"host", "port"}, "mcp") EXCEPT
              !.tls = 1, !.access = 1, !.mcp = Present([options |-> {"strictToolNames"}, versions |-> <<"2025-06-18">>]),
              !.rules = <<Present(Match({"path"}, "name" :> "glob" @@ "x" :> "glob and any"))>>]>>]

File(extension, parses, mergeKeys, doc, meant) ==
    [extension |-> extension, text |-> [parses |-> parses, mergeKeys |-> mergeKeys, doc |-> doc], of |-> None, meant |-> meant]

(* One with more in it than the schema knows, and one that cannot be read. *)
MCHandWritten ==
    {File("yml", TRUE, FALSE, Document("q", {"inference"}, <<DocEndpoint>>), MeantByDocument("q")),
     File("yaml", TRUE, TRUE, Document("p", {}, <<>>), None)}

MCForms == {[id |-> "q", displayName |-> "", category |-> "DATA", fields |-> {},
             credentials |-> <<[name |-> "key", fields |-> {"stablePlaceholder", "authStyle"}]>>,
             endpoints |-> <<[summary |-> FALSE, fields |-> {"host", "port"}, protocol |-> "rest"]>>]}

-----------------------------------------------------------------------------
(* Two sandboxes, one of which the selector leaves out. *)
MCOrder == <<"a", "b">>
MCMatching == [s \in Selectors |-> IF s = "" THEN Names ELSE {"b"}]

=============================================================================
