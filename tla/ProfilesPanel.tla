--------------------------- MODULE ProfilesPanel ----------------------------
(* The provider profiles of a scope, listed, exported to files and written from files or a form                        *)
(* (components/provider/ProfilesPanel.tsx and ProfileFileModal.tsx, components/CreateProfileModal.tsx and              *)
(* handlers/provider_profiles_handler.go), while others change them. A workspace and the platform may each have a      *)
(* profile of one id. The gateway is external: it holds a profile under a resource version that every write moves.     *)
EXTENDS ProfileWire

CONSTANTS Scopes,         \* "workspace" and "platform"
          Ids,
          Held,           \* what the gateway holds at first, by scope and id: messages, and None
          OtherProfiles,  \* the profiles others may write
          HandWritten,    \* files nobody exported, each with what it means
          Formats,        \* those that profiles are exported in
          Forms,          \* what the form of a new profile may hold
          MaxOthers, MaxExports, MaxDrops, MaxOpened, MaxWrites  \* bounds on what is done

ASSUME ScopesAssumption == "workspace" \in Scopes /\ "" \notin Scopes

(* A message has these fields among others, and one that is held is of the scope it is held in, at a version. *)
IsMessage(m) == {"id", "scope", "resourceVersion"} \subseteq DOMAIN m
IsHeldAt(k, h) ==
    /\ DOMAIN h = {"version", "profile"} /\ h.version \in Nat
    /\ h.profile # None => IsMessage(h.profile) /\ h.profile.scope = k[1] /\ h.profile.resourceVersion # 0
ASSUME HeldAssumption == DOMAIN Held = Scopes \X Ids /\ \A k \in Scopes \X Ids : IsHeldAt(k, Held[k])
ASSUME OtherProfilesAssumption == \A p \in OtherProfiles : IsMessage(p)

(* What was written by hand comes from no profile. *)
ASSUME HandWrittenAssumption == \A f \in HandWritten : f.of = None

VARIABLES gw,       \* the gateway and how it is reached: held, supports (stable_placeholder), store ("raw" or "sdk")
          disk,     \* the files that were exported, some of them edited since
          panel,    \* the scope whose profiles are shown
          listed,   \* the profiles the page has, each with the message it was made of (history)
          open,     \* the dialog that is open; None without one
          importer, \* what the dialog that imports files keeps, open or not: its files, their check and its write
          updater,  \* what the one that updates from a file keeps: its files and its write
          other,    \* the write of the form and of the question whether to delete
          reading,  \* the files that were dropped and are being read; None without any
          writes,   \* the requests on their way
          counts    \* how much of that was done
vars == <<gw, disk, panel, listed, open, importer, updater, other, reading, writes, counts>>

Idle == [n |-> 0, at |-> "idle"]

-----------------------------------------------------------------------------
(* The gateway (external). *)

Keeps(m, scope, version) ==
    LET Supported(c) == [c EXCEPT !.owners = c.tokenGrant.set,
                                  !.fields = IF gw.supports THEN @ ELSE @ \ {"stablePlaceholder"}]
    IN [m EXCEPT !.scope = scope, !.resourceVersion = version, !.credentials = SeqMap(Supported, @)]

(* It knows numbers the backend has no name for, and -1 is none. *)
IsValid(m) == \A i \in DOMAIN m.endpoints : LET e == m.endpoints[i] IN e.tls >= 0 /\ e.access >= 0 /\ e.enforcement >= 0

(* What a profile means: the reference that what is stored is compared with. *)
Meaning(m) ==
    LET MeaningOfGrant(g) == [g EXCEPT !.grantType = IF @ = 0 THEN 1 ELSE @]
        MeaningOfCredential(c) == [c EXCEPT !.owners = FALSE, !.tokenGrant = OptionalMap(MeaningOfGrant, @)]
    IN [id |-> m.id, displayName |-> m.displayName, fields |-> m.fields \ {"source"},
        category |-> IF m.category = 0 THEN 1 ELSE m.category, credentials |-> SeqMap(MeaningOfCredential, m.credentials),
        endpoints |-> SeqMap(LAMBDA e : [e EXCEPT !.owner = FALSE], m.endpoints)]

(* What a file says of it. It has no name for a category or a grant type that is only a number here, and says "other"  *)
(* and nothing, which is client_credentials, in its place.                                                             *)
MeaningInFile(meaning) ==
    LET Named(names, n) == IF n + 1 \in DOMAIN names THEN n ELSE 1
        GrantInFile(g) == [g EXCEPT !.grantType = Named(GrantNames, @)]
        CredentialInFile(c) == [c EXCEPT !.tokenGrant = OptionalMap(GrantInFile, @)]
    IN [meaning EXCEPT !.category = Named(CategoryNames, @), !.credentials = SeqMap(CredentialInFile, @)]

Accepts(scope, items) ==
    /\ \A i, j \in DOMAIN items : items[i].id = items[j].id => i = j
    /\ \A i \in DOMAIN items : IsValid(items[i]) /\ gw.held[scope, items[i].id].profile = None

StoredAs(scope, items) ==
    [gw EXCEPT !.held = [k \in DOMAIN @ |->
        IF k[1] = scope /\ \E i \in DOMAIN items : items[i].id = k[2]
        THEN LET i == CHOOSE j \in DOMAIN items : items[j].id = k[2] IN
             [version |-> @[k].version + 1, profile |-> Keeps(items[i], scope, @[k].version + 1)]
        ELSE @[k]]]

-----------------------------------------------------------------------------
(* The backend: the store that profiles are reached through, and the handlers. *)

EndpointsAreNarrow == gw.store = "sdk"
FromStore(m) == IF EndpointsAreNarrow THEN ProviderProfileFromSDK(m) ELSE m
ToStore(m) == IF EndpointsAreNarrow THEN ProviderProfileToSDK(m) ELSE m

(* A workspace lists the platform's profiles beside its own. *)
ListProviderProfiles(scope) ==
    {[dto |-> ProviderProfileFromProto(FromStore(gw.held[k].profile), EndpointsAreNarrow), message |-> gw.held[k].profile] :
        k \in {k \in DOMAIN gw.held : k[1] \in {scope, "platform"} /\ gw.held[k].profile # None}}

SetsStablePlaceholder(items) ==
    \E i \in DOMAIN items : \E j \in DOMAIN items[i].credentials : "stablePlaceholder" \in items[i].credentials[j].fields

(* An older gateway would store a profile without the field, and say nothing. *)
CheckStablePlaceholder(items) == SetsStablePlaceholder(items) => gw.supports

(* The bodies become messages, which the store can send. *)
ConvertItems(profiles) == SeqMap(ToProto, profiles)
Sendable(profiles) ==
    /\ AllOf(EndpointsAreWritable, profiles)
    /\ EndpointsAreNarrow => AllOf(IsExpressible, ConvertItems(profiles))

(* Each of the three is answered "done", "refused" (with diagnostics) or "error". *)
LintProviderProfiles(scope, profiles) ==
    IF ~Sendable(profiles) THEN "error" ELSE IF Accepts(scope, ConvertItems(profiles)) THEN "done" ELSE "refused"

ImportProviderProfiles(w) ==
    IF ~(Sendable(w.profiles) /\ CheckStablePlaceholder(ConvertItems(w.profiles))) THEN "error"
    ELSE IF Accepts(w.scope, ConvertItems(w.profiles)) THEN "done" ELSE "refused"

UpdateProviderProfile(w) ==
    LET held == gw.held[w.scope, w.id] IN
    IF \/ ~(Sendable(w.profiles) /\ CheckStablePlaceholder(ConvertItems(w.profiles)))
       \/ w.profiles[1].id # w.id
       \/ held.profile = None
       \/ w.expected # 0 /\ w.expected # held.version
    THEN "error" ELSE IF IsValid(ConvertItems(w.profiles)[1]) THEN "done" ELSE "refused"

DeleteProviderProfile(w) == IF gw.held[w.scope, w.id].profile = None THEN "error" ELSE "done"

Answer(w) ==
    CASE w.kind \in {"import", "create"} -> ImportProviderProfiles(w)
      [] w.kind = "update" -> UpdateProviderProfile(w)
      [] w.kind = "delete" -> DeleteProviderProfile(w)

Handle ==
    /\ \E w \in writes :
          /\ w.at = "sent"
          /\ writes' = (writes \ {w}) \union {[w EXCEPT !.at = Answer(w)]}
          /\ gw' = IF Answer(w) # "done" THEN gw
                   ELSE IF w.kind = "delete" THEN [gw EXCEPT !.held[<<w.scope, w.id>>].profile = None]
                   ELSE StoredAs(w.scope, SeqMap(ToStore, ConvertItems(w.profiles)))
    /\ UNCHANGED <<disk, panel, listed, open, importer, updater, other, reading, counts>>

(* The request or its answer is lost. *)
RequestFails ==
    /\ \E w \in writes : /\ w.at \in {"sent", "done"}
                         /\ writes' = (writes \ {w}) \union {[w EXCEPT !.at = "error"]}
    /\ UNCHANGED <<gw, disk, panel, listed, open, importer, updater, other, reading, counts>>

-----------------------------------------------------------------------------
Init ==
    /\ \E supports \in BOOLEAN, store \in {"raw", "sdk"} : gw = [supports |-> supports, store |-> store, held |-> Held]
    /\ disk = {} /\ panel = "workspace" /\ listed = {} /\ open = None
    /\ importer = [files |-> <<>>, check |-> Idle, write |-> Idle]
    /\ updater = [files |-> <<>>, write |-> Idle]
    /\ other = Idle /\ reading = None /\ writes = {}
    /\ counts = [others |-> 0, exports |-> 0, drops |-> 0, opened |-> 0, writes |-> 0]

Count(what, max) == counts[what] < max /\ counts' = [counts EXCEPT ![what] = @ + 1]

(* Somebody else imports, updates or deletes a profile. *)
OthersWrite ==
    /\ Count("others", MaxOthers)
    /\ \E k \in DOMAIN gw.held, p \in OtherProfiles \union {None} :
          /\ p # gw.held[k].profile
          /\ p # None => p.id = k[2]
          /\ gw' = IF p = None THEN [gw EXCEPT !.held[k].profile = None] ELSE StoredAs(k[1], <<p>>)
    /\ UNCHANGED <<disk, panel, listed, open, importer, updater, other, reading, writes>>

Poll ==
    /\ listed' = ListProviderProfiles(panel)
    /\ UNCHANGED <<gw, disk, panel, open, importer, updater, other, reading, writes, counts>>

(* Another page shows the profiles of the other scope: nothing of the one that is left stays, but what it has sent. *)
Visit ==
    /\ \E scope \in Scopes \ {panel} : panel' = scope
    /\ listed' = {} /\ open' = None /\ other' = Idle /\ reading' = None
    /\ importer' = [files |-> <<>>, check |-> Idle, write |-> Idle]
    /\ updater' = [files |-> <<>>, write |-> Idle]
    /\ Count("opened", MaxOpened)
    /\ UNCHANGED <<gw, disk, writes>>

-----------------------------------------------------------------------------
(* Files. *)

(* The profile as it is listed, in a file that knows its version; and the file as somebody edits it later, who gives   *)
(* the profile another name.                                                                                           *)
ExportProfile ==
    /\ open = None /\ Count("exports", MaxExports)
    /\ \E l \in listed, format \in Formats :
          /\ IsProfileExportable(l.dto)
          /\ LET file == [extension |-> format, text |-> SerializeProfileFile(l.dto), meant |-> Meaning(l.message),
                          of |-> [scope |-> l.message.scope, id |-> l.message.id, version |-> l.message.resourceVersion]]
             IN disk' = disk \union {file, [file EXCEPT !.text.doc.display_name = "edited", !.meant.displayName = "edited"]}
    /\ UNCHANGED <<gw, panel, listed, open, importer, updater, other, reading, writes>>

(* A file that was chosen, and what reading it gave. *)
ReadFile(f) ==
    LET format == ProfileFileFormat(f.extension)
        parsed == IF format = "" THEN [profile |-> None, diagnostics |-> {"error"}] ELSE ParseProfileFile(f.text, format)
    IN [file |-> f, profile |-> parsed.profile, diagnostics |-> parsed.diagnostics]

Readable(files) == SelectSeq(files, LAMBDA f : f.profile # None)
ProfilesOf(files) == SeqMap(LAMBDA f : f.profile, Readable(files))

(* The files are replaced and the gateway is asked about the profiles in them, all that was asked before forgotten. *)
Choose(files) ==
    [files |-> files, write |-> Idle,
     check |-> IF Readable(files) = <<>> THEN Idle ELSE [n |-> 1, at |-> "pending"]]

(* Files are dropped on a dialog and read, while it may be closed, changed, or opened for something else. *)
Drop ==
    /\ open # None /\ open.kind \in {"import", "update"} /\ reading = None /\ Count("drops", MaxDrops)
    /\ \E f \in disk \union HandWritten :
          reading' = [kind |-> open.kind, dropped |-> f, files |-> IF open.kind = "import" THEN importer.files ELSE <<>>]
    /\ UNCHANGED <<gw, disk, panel, listed, open, importer, updater, other, writes>>

(* A file that was there when they were dropped, and is chosen again, gives way to its new reading. *)
Add ==
    /\ reading # None /\ reading' = None
    /\ LET read == ReadFile(reading.dropped) IN
       IF reading.kind = "update"
       THEN updater' = [files |-> <<read>>, write |-> Idle] /\ UNCHANGED importer
       ELSE /\ importer' = Choose(Append(SelectSeq(reading.files, LAMBDA f : f.file # read.file), read))
            /\ UNCHANGED updater
    /\ UNCHANGED <<gw, disk, panel, listed, open, other, writes, counts>>

RemoveFile ==
    /\ open # None /\ open.kind = "import"
    /\ \E i \in DOMAIN importer.files : importer' = Choose(SelectSeq(importer.files, LAMBDA f : f # importer.files[i]))
    /\ UNCHANGED <<gw, disk, panel, listed, open, updater, other, reading, writes, counts>>

(* The gateway's word on the profiles that were chosen last. *)
Checked ==
    /\ importer.check.at = "pending"
    /\ \E answer \in {LintProviderProfiles(panel, ProfilesOf(importer.files)), "error"} :
          importer' = [importer EXCEPT !.check.at = answer]
    /\ UNCHANGED <<gw, disk, panel, listed, open, updater, other, reading, writes, counts>>

-----------------------------------------------------------------------------
(* Dialogs. *)

OpenDialog(dialog) == open = None /\ Count("opened", MaxOpened) /\ open' = [dialog EXCEPT !.nr = counts.opened + 1]

ImportFromFiles ==
    /\ OpenDialog([kind |-> "import", nr |-> 0])
    /\ UNCHANGED <<gw, disk, panel, listed, importer, updater, other, reading, writes>>
(* Only the profiles of the panel's own scope can be changed. *)
IsOwnProfile(dto) == dto.scope = panel
UpdateFromFile ==
    /\ \E l \in listed : IsOwnProfile(l.dto) /\ OpenDialog([kind |-> "update", nr |-> 0, target |-> l.dto])
    /\ UNCHANGED <<gw, disk, panel, listed, importer, updater, other, reading, writes>>
CreateProfile ==
    /\ \E form \in Forms : OpenDialog([kind |-> "create", nr |-> 0, form |-> form])
    /\ UNCHANGED <<gw, disk, panel, listed, importer, updater, other, reading, writes>>
AskToDelete ==
    /\ \E l \in listed : IsOwnProfile(l.dto) /\ OpenDialog([kind |-> "delete", nr |-> 0, target |-> l.dto])
    /\ UNCHANGED <<gw, disk, panel, listed, importer, updater, other, reading, writes>>

(* Seeded fault: what a dialog has asked for outlives its closing. *)
Fault_Shut == open' = None /\ UNCHANGED <<importer, updater, other>>

(* Closing a dialog empties it and lets go of its requests, whatever becomes of them. *)
Shut ==
    /\ open' = None
    /\ importer' = IF open.kind = "import" THEN [files |-> <<>>, check |-> Idle, write |-> Idle] ELSE importer
    /\ updater' = IF open.kind = "update" THEN [files |-> <<>>, write |-> Idle] ELSE updater
    /\ other' = IF open.kind \in {"create", "delete"} THEN Idle ELSE other
Close ==
    /\ open # None /\ Shut
    /\ UNCHANGED <<gw, disk, panel, listed, reading, writes, counts>>

HasErrors(files) == \E i \in DOMAIN files : "error" \in files[i].diagnostics

(* Seeded fault: a file of the other scope's profile of the same id will do. *)
Fault_TargetMismatch(candidate, target) == candidate.id # target.id

(* The file has to be that of the profile: of its id, and of its scope when it names one. *)
TargetMismatch(candidate, target) ==
    candidate.id # target.id \/ (candidate.scope # "" /\ target.scope # "" /\ candidate.scope # target.scope)

Send(w) == Count("writes", MaxWrites) /\ writes' = writes \union {w}
Pending == [n |-> counts.writes + 1, at |-> "pending"]
Request(kind, profiles, id, expected) ==
    [n |-> counts.writes + 1, at |-> "sent", kind |-> kind, scope |-> panel, profiles |-> profiles, id |-> id,
     expected |-> expected, opening |-> open.nr, of |-> None, meant |-> <<>>]

(* What was found in the files or by the gateway, that stops a write; after a write, only what it found counts. *)
CanImport ==
    /\ ProfilesOf(importer.files) # <<>> /\ ~HasErrors(importer.files)
    /\ importer.check.at = "done" /\ importer.write.at \in {"idle", "error"}
SubmitImport ==
    /\ open # None /\ open.kind = "import" /\ CanImport
    /\ Send([Request("import", ProfilesOf(importer.files), "", 0) EXCEPT
                !.meant = SeqMap(LAMBDA f : f.file.meant, Readable(importer.files))])
    /\ importer' = [importer EXCEPT !.write = Pending]
    /\ UNCHANGED <<gw, disk, panel, listed, open, updater, other, reading>>

CanUpdate ==
    /\ \E i \in DOMAIN updater.files : updater.files[i].profile # None
    /\ ~HasErrors(updater.files)
    /\ ~TargetMismatch(updater.files[1].profile, open.target)
    /\ updater.write.at \in {"idle", "error"}
(* The version that the file was exported at goes with it; without one the update is unconditional. *)
SubmitUpdate ==
    /\ open # None /\ open.kind = "update" /\ CanUpdate
    /\ LET f == updater.files[1] IN
       Send([Request("update", <<f.profile>>, open.target.id, f.profile.resourceVersion) EXCEPT
                !.of = f.file.of, !.meant = <<f.file.meant>>])
    /\ updater' = [updater EXCEPT !.write = Pending]
    /\ UNCHANGED <<gw, disk, panel, listed, open, importer, other, reading>>

(* The form's profile, with the short form of its endpoints. *)
ProfileOfForm(form) ==
    [id |-> form.id, displayName |-> form.displayName, resourceVersion |-> 0, scope |-> "", category |-> form.category,
     fields |-> form.fields, networkEndpoints |-> Absent, endpoints |-> form.endpoints,
     credentials |-> SeqMap(LAMBDA c : [name |-> c.name, fields |-> c.fields, refresh |-> Absent, tokenGrant |-> Absent,
                                        owners |-> FALSE], form.credentials)]
MeaningOfForm(form) ==
    [id |-> form.id, displayName |-> form.displayName, fields |-> form.fields,
     category |-> CHOOSE n \in 1 .. 7 : CategoryNames[n + 1] = form.category,
     endpoints |-> SeqMap(LAMBDA e : PlainEndpoint(e.fields, e.protocol), form.endpoints),
     credentials |-> ProfileOfForm(form).credentials]

(* The button waits for an answer, and the Enter key does not. *)
SubmitForm ==
    /\ open # None /\ open.kind = "create"
    /\ Send([Request("create", <<ProfileOfForm(open.form)>>, open.form.id, 0) EXCEPT !.meant = <<MeaningOfForm(open.form)>>])
    /\ other' = Pending
    /\ UNCHANGED <<gw, disk, panel, listed, open, importer, updater, reading>>
ConfirmDelete ==
    /\ open # None /\ open.kind = "delete" /\ other.at # "pending"
    /\ Send(Request("delete", <<>>, open.target.id, 0))
    /\ other' = Pending
    /\ UNCHANGED <<gw, disk, panel, listed, open, importer, updater, reading>>

(* An answer arrives: a success closes the dialog, and one that nobody waits for any more changes nothing. *)
WriteOf(kind) == IF kind = "import" THEN importer.write ELSE IF kind = "update" THEN updater.write ELSE other
Answered ==
    /\ \E w \in writes :
          /\ w.at # "sent" /\ writes' = writes \ {w}
          /\ IF WriteOf(w.kind).n # w.n THEN UNCHANGED <<open, importer, updater, other>>
             ELSE IF w.at = "done" THEN Shut
             ELSE /\ importer' = IF w.kind = "import" THEN [importer EXCEPT !.write.at = w.at] ELSE importer
                  /\ updater' = IF w.kind = "update" THEN [updater EXCEPT !.write.at = w.at] ELSE updater
                  /\ other' = IF w.kind \in {"create", "delete"} THEN [other EXCEPT !.at = w.at] ELSE other
                  /\ UNCHANGED open
    /\ UNCHANGED <<gw, disk, panel, listed, reading, counts>>

Next ==
    \/ Handle \/ RequestFails \/ OthersWrite \/ Poll \/ Visit
    \/ ExportProfile \/ Drop \/ Add \/ RemoveFile \/ Checked
    \/ ImportFromFiles \/ UpdateFromFile \/ CreateProfile \/ AskToDelete \/ Close
    \/ SubmitImport \/ SubmitUpdate \/ SubmitForm \/ ConfirmDelete \/ Answered

Spec == Init /\ [][Next]_vars

-----------------------------------------------------------------------------
(* Properties. *)

IsStored(w) == w.at = "sent" /\ \E v \in writes' : v.n = w.n /\ v.at = "done"

(* A file that was exported replaces the profile it was exported from and no other, at the version it was exported at: *)
(* not the platform's of the same id, and not what another has made of it meanwhile (ProfileFileModal.tsx,             *)
(* targetMismatch and expectedResourceVersion).                                                                        *)
FileReplacesItsOwn ==
    [][\A w \in writes : IsStored(w) /\ w.of # None =>
          w.of = [scope |-> w.scope, id |-> w.id, version |-> gw.held[w.scope, w.id].version]]_vars

(* What the gateway stores means what the file or the form says, and an exported file says what was exported: nothing  *)
(* is cut down on the way, whichever store profiles are reached through and however old the gateway is                 *)
(* (utils/profileFile.ts, models/provider_profile.go). The exception are categories and grant types of a newer gateway *)
(* that have no name here, for which a file has the default ones.                                                      *)
Stored(w, i) == gw'.held[w.scope, w.profiles[i].id].profile
WhatTheFileSaysIsStored ==
    [][\A w \in writes : IsStored(w) /\ w.kind # "delete" =>
          \A i \in DOMAIN w.profiles : Meaning(Stored(w, i)) = MeaningInFile(w.meant[i])]_vars

(* The same without the exception, which is what profileFile.ts:66-68 and provider_profile.go:207-210 say: a profile   *)
(* that is exported and imported again loses nothing, a number without a name included. It does not hold.              *)
AnExportLosesNothing ==
    [][\A w \in writes : IsStored(w) /\ w.kind # "delete" =>
          \A i \in DOMAIN w.profiles : Meaning(Stored(w, i)) = w.meant[i]]_vars

(* The answer to a write closes the opening of the dialog that sent it, and never another one.                         *)
OwnAnswerCloses ==
    [][\A w \in writes : w \notin writes' /\ open # None /\ open' = None => w.opening = open.nr]_vars

=============================================================================
