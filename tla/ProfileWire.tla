---------------------------- MODULE ProfileWire -----------------------------
(* A provider profile between the browser and the gateway: models/provider_profile.go, and for a backend that reaches  *)
(* profiles through the SDK models/provider_profile_sdk.go. Profiles are as in ProfileFile; in the gateway's message   *)
(* an enum is a number, and the endpoints are whole. The SDK's type has three fields of an endpoint.                   *)
EXTENDS Integers, ProfileFile

CategoryNames == <<"UNSPECIFIED", "OTHER", "INFERENCE", "AGENT", "SOURCE_CONTROL", "MESSAGING", "DATA", "KNOWLEDGE">>
StrategyNames == <<"UNSPECIFIED", "STATIC", "EXTERNAL", "OAUTH2_REFRESH_TOKEN", "OAUTH2_CLIENT_CREDENTIALS",
                   "GOOGLE_SERVICE_ACCOUNT_JWT", "AWS_STS_ASSUME_ROLE">>
GrantNames == <<"UNSPECIFIED", "CLIENT_CREDENTIALS", "TOKEN_EXCHANGE">>
TlsNames == <<"", "SKIP", "TERMINATE", "PASSTHROUGH">>
AccessNames == <<"", "READ_ONLY", "READ_WRITE", "FULL">>
EnforcementNames == <<"", "ENFORCE", "AUDIT">>

(* A number without a name is written in digits, so that it survives being read and written back. *)
Digits(n) == IF n = -1 THEN "-1" ELSE <<"0", "1", "2", "3", "4", "5", "6", "7", "8", "9">>[n + 1]
EnumName(names, n) == IF n + 1 \in DOMAIN names THEN names[n + 1] ELSE Digits(n)
EnumValue(names, name) ==
    IF \E i \in DOMAIN names : names[i] = name THEN (CHOOSE i \in DOMAIN names : names[i] = name) - 1
    ELSE CHOOSE n \in -1 .. 9 : Digits(n) = name

(* A category that is none is OTHER. *)
ParseProfileCategory(name) ==
    IF name # "" /\ \E n \in -1 .. 9 : EnumName(CategoryNames, n) = name \/ Digits(n) = name
    THEN EnumValue(CategoryNames, name) ELSE 1

(* A duration that is not set is the empty text, which "0s" is not. *)
FormatProfileDuration(d) == IF d.set THEN Present(d.value) ELSE Absent
ParseProfileDuration(d) == IF d.set THEN Present(d.value) ELSE Absent

-----------------------------------------------------------------------------
(* From the gateway. *)

CarriedInRefresh == ToApi(RenamedInRefresh, DOMAIN RenamedInRefresh)
CarriedInGrant == ToApi(RenamedInGrant, DOMAIN RenamedInGrant)
CarriedInCredential == ToApi(RenamedInCredential, DOMAIN RenamedInCredential)

ProfileRefreshFromProto(r) ==
    [strategy |-> EnumName(StrategyNames, r.strategy), fields |-> r.fields \intersect CarriedInRefresh,
     refreshBefore |-> FormatProfileDuration(r.refreshBefore), maxLifetime |-> FormatProfileDuration(r.maxLifetime)]
ProfileTokenGrantFromProto(g) ==
    [grantType |-> EnumName(GrantNames, g.grantType), fields |-> g.fields \intersect CarriedInGrant,
     cacheTtl |-> FormatProfileDuration(g.cacheTtl)]
ProfileCredentialFromProto(c) ==
    [name |-> c.name, fields |-> c.fields \intersect CarriedInCredential,
     refresh |-> OptionalMap(ProfileRefreshFromProto, c.refresh),
     tokenGrant |-> OptionalMap(ProfileTokenGrantFromProto, c.tokenGrant), owners |-> c.owners]

(* An endpoint as JSON: an enum by its name, and by its number when it has none. *)
EndpointJson(e) ==
    [e EXCEPT !.tls = EnumName(TlsNames, @), !.access = EnumName(AccessNames, @),
              !.enforcement = EnumName(EnforcementNames, @)]

(* The host and the ports, in one line, of an endpoint that has any. *)
EndpointSummaries(endpoints) ==
    SeqMap(LAMBDA e : [summary |-> TRUE], SelectSeq(endpoints, LAMBDA e : e.fields \intersect {"host", "port", "ports"} # {}))

FromNarrowProviderProfile(m) ==
    [id |-> m.id, displayName |-> m.displayName, resourceVersion |-> m.resourceVersion, scope |-> m.scope,
     category |-> EnumName(CategoryNames, m.category), fields |-> m.fields,
     credentials |-> SeqMap(ProfileCredentialFromProto, m.credentials),
     endpoints |-> EndpointSummaries(m.endpoints), networkEndpoints |-> Absent]
FromProtoProviderProfile(m) ==
    [FromNarrowProviderProfile(m) EXCEPT
        !.networkEndpoints = IF m.endpoints = <<>> THEN Absent ELSE Present(SeqMap(EndpointJson, m.endpoints))]
ProviderProfileFromProto(m, narrow) ==
    IF narrow THEN FromNarrowProviderProfile(m) ELSE FromProtoProviderProfile(m)

-----------------------------------------------------------------------------
(* To the gateway. *)

ProfileRefreshToProto(r) ==
    [strategy |-> EnumValue(StrategyNames, r.strategy), fields |-> r.fields \intersect CarriedInRefresh,
     refreshBefore |-> ParseProfileDuration(r.refreshBefore), maxLifetime |-> ParseProfileDuration(r.maxLifetime)]
ProfileTokenGrantToProto(g) ==
    [grantType |-> EnumValue(GrantNames, g.grantType), fields |-> g.fields \intersect CarriedInGrant,
     cacheTtl |-> ParseProfileDuration(g.cacheTtl)]
ProfileCredentialToProto(c) ==
    [name |-> c.name, fields |-> c.fields \intersect CarriedInCredential,
     refresh |-> OptionalMap(ProfileRefreshToProto, c.refresh),
     tokenGrant |-> OptionalMap(ProfileTokenGrantToProto, c.tokenGrant), owners |-> c.owners]

EndpointFromJson(e) ==
    [e EXCEPT !.tls = EnumValue(TlsNames, @), !.access = EnumValue(AccessNames, @),
              !.enforcement = EnumValue(EnforcementNames, @)]

PlainEndpoint(fields, protocol) ==
    [fields |-> fields, protocol |-> protocol, tls |-> 0, access |-> 0, enforcement |-> 0, rules |-> <<>>,
     denyRules |-> <<>>, mcp |-> Absent, owner |-> FALSE]

(* The short form of an endpoint, and not the summary of one that was read. *)
Written(endpoints) == SelectSeq(endpoints, LAMBDA e : ~e.summary)

(* Summaries beside whole endpoints say nothing new, and alone they are too little to write. *)
EndpointsAreWritable(in) ==
    LET summaries == Len(Written(in.endpoints)) < Len(in.endpoints) IN
    /\ ~(summaries /\ Written(in.endpoints) # <<>>)
    /\ ~(summaries /\ ~in.networkEndpoints.set)
    /\ ~(Written(in.endpoints) # <<>> /\ in.networkEndpoints.set)
EndpointsToProto(in) ==
    SeqMap(LAMBDA e : PlainEndpoint(e.fields, e.protocol), Written(in.endpoints))
    \o (IF in.networkEndpoints.set THEN SeqMap(EndpointFromJson, in.networkEndpoints.value) ELSE <<>>)

ToProto(in) ==
    [id |-> in.id, displayName |-> in.displayName, resourceVersion |-> in.resourceVersion, scope |-> in.scope,
     category |-> ParseProfileCategory(in.category), fields |-> in.fields,
     credentials |-> SeqMap(ProfileCredentialToProto, in.credentials), endpoints |-> EndpointsToProto(in)]

-----------------------------------------------------------------------------
(* Through the SDK. *)

(* A number that the SDK has no name for becomes its zero value. *)
SDKEnumOf(names, n) == IF n + 1 \in DOMAIN names THEN n ELSE 0
Narrow(e) == PlainEndpoint(e.fields \intersect {"host", "port"}, e.protocol)
SDKDuration(d) == IF d.set THEN Present(d.value) ELSE Absent

SDKRefresh(r) ==
    [r EXCEPT !.strategy = SDKEnumOf(StrategyNames, @), !.refreshBefore = SDKDuration(@), !.maxLifetime = SDKDuration(@)]
SDKTokenGrant(g) == [g EXCEPT !.grantType = SDKEnumOf(GrantNames, @), !.cacheTtl = SDKDuration(@)]
SDKCredential(c) ==
    [c EXCEPT !.refresh = OptionalMap(SDKRefresh, @), !.tokenGrant = OptionalMap(SDKTokenGrant, @), !.owners = FALSE]

(* Seeded fault: an endpoint is sent with what of it the SDK has. *)
Fault_IsExpressible(m) == TRUE

(* An endpoint is sent whole or not at all. *)
IsExpressible(m) == AllOf(LAMBDA e : e = Narrow(e), m.endpoints)
ProviderProfileToSDK(m) ==
    [m EXCEPT !.category = SDKEnumOf(CategoryNames, @), !.credentials = SeqMap(SDKCredential, @),
              !.endpoints = SeqMap(Narrow, @)]
ProviderProfileFromSDK(m) == ProviderProfileToSDK(m)

=============================================================================
