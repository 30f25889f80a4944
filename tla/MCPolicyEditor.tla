--------------------------- MODULE MCPolicyEditor ---------------------------
EXTENDS PolicyEditor, TLC

Match(method, params) == [method |-> method, path |-> "", fields |-> {}, params |-> params]
ApiEndpoint(host, path, protocol, ports) ==
    [host |-> host, path |-> path, protocol |-> protocol, fields |-> {}, port |-> FirstOf(ports, 0), ports |-> ports,
     tls |-> 0, enforcement |-> 1, access |-> 1, rules |-> <<>>, denyRules |-> <<>>, maxBodyBytes |-> 0,
     mcp |-> Absent, marks |-> {}]
ApiRule(endpoints) == [name |-> "", endpoints |-> endpoints, binaries |-> {"sh"}]
ApiPolicy(rules) ==
    [version |-> 1, filesystem |-> Absent, landlock |-> Absent, process |-> Present({}), unknown |-> FALSE,
     networkPolicies |-> rules, networkMiddlewares |-> [m |-> [name |-> "", fields |-> {"config", "onError"}]]]

(* An MCP endpoint whose revisions are not the default, with a tool and with nested parameters, marked by the gateway. *)
McpEndpoint ==
    [ApiEndpoint("a", "", "mcp", <<1>>) EXCEPT
        !.mcp = Present([options |-> {"allowAllKnownMcpMethods=true"}, versions |-> <<"2025-06-18", "2025-03-26">>]),
        !.rules = <<Match("tools/call", <<"name">> :> "glob" @@ <<"arguments", "path">> :> "any"), Match("*", <<>>)>>,
        !.denyRules = <<Match("tools/call", <<"x">> :> "any" @@ <<"x", "y">> :> "glob")>>,
        !.marks = {"advisorProposed"}]

(* One with parameters nested below the one that says the tool. *)
NestedBelowTool ==
    [ApiEndpoint("a", "", "mcp", <<2>>) EXCEPT
        !.mcp = Present([options |-> {"allowAllKnownMcpMethods=true"}, versions |-> <<"2025-11-25">>]),
        !.rules = <<Match("tools/call", <<"name">> :> "glob" @@ <<"name", "x">> :> "any")>>]

(* Endpoints of one host in either case and with shared ports, only one of them with a path, and one without a port. *)
OneHost == <<ApiEndpoint("a", "", "rest", <<1, 2>>), [ApiEndpoint("A", "/p", "websocket", <<>>) EXCEPT !.port = 2],
             ApiEndpoint("a", "", "rest", <<>>)>>

MCCreated == ApiPolicy("r" :> ApiRule(OneHost))
MCOtherPolicies == {ApiPolicy("r" :> ApiRule(<<McpEndpoint>>))}

DocEndpoint(ports, mcp) ==
    [host |-> "a", path |-> "", protocol |-> "mcp", fields |-> {"allowed_ips"}, port |-> 1, ports |-> ports,
     tls |-> "skip", enforcement |-> "audit", access |-> "", json_rpc |-> 0, mcp |-> mcp, deny_rules |-> <<>>,
     rules |-> <<[method |-> "", path |-> "", fields |-> {}, tool |-> Present("any"),
                  params |-> <<<<"q", "r">>>> :> "any" @@ <<<<"q">>, <<"r">>>> :> "glob"]>>]
Document(endpoint) ==
    [version |-> 1, filesystem_policy |-> Absent, landlock |-> Present(""), process |-> Absent, extra |-> {},
     misshapen |-> FALSE, network_middlewares |-> "m" :> [name |-> "", fields |-> {"on_error"}],
     network_policies |-> "n" :> [name |-> "", endpoints |-> <<endpoint>>, binaries |-> {}]]
Stanza(versions) == Present([versions |-> versions, options |-> {"allowAllKnownMcpMethods=false"}, max_body_bytes |-> 1])

MCTyped ==
    {FileText(Document(DocEndpoint(<<>>, Stanza(Absent)))),
     FileText(Document(DocEndpoint(<<2>>, Stanza(Present(<<"2025-11-25", "2025-03-26">>))))),
     ApiText(ApiPolicy("r" :> ApiRule(<<[McpEndpoint EXCEPT !.mcp = Absent], NestedBelowTool>>))),
     ApiText([ApiPolicy(<<>>) EXCEPT !.unknown = TRUE]),
     ApiText(ApiPolicy("_provider_p" :> ApiRule(<<>>)))}

MCForms ==
    {[ruleName |-> name, host |-> "a", port |-> 2, access |-> 1, protocol |-> "tcp", enforcement |-> 1, binaries |-> {},
      fields |-> {"requestBodyCredentialRewrite"}] : name \in {"r"}}
MCLowerCase == [a |-> "a", A |-> "a"]

=============================================================================
