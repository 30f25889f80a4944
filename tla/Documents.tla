----------------------------- MODULE Documents ------------------------------
(* What the readers and writers of policy files and of profile files have in common: utils/policyFile.ts and           *)
(* utils/profileFile.ts. A field that is only renamed is told by its name, in the set of those that hold something: an *)
(* empty field and one that is not set are the same, on both sides.                                                    *)
EXTENDS Naturals, Sequences, FiniteSets

None == [none |-> TRUE]

(* "nothing" where presence alone says something. *)
Absent == [set |-> FALSE]
Present(value) == [set |-> TRUE, value |-> value]
IsOptional(o) == o = Absent \/ o = Present(o.value)
OptionalMap(f(_), o) == IF o.set THEN Present(f(o.value)) ELSE Absent

FirstOf(s, default) == IF s = <<>> THEN default ELSE s[1]
SeqMap(f(_), s) == [i \in DOMAIN s |-> f(s[i])]
IsMap(f) == f = [x \in DOMAIN f |-> f[x]]
IsList(s) == s \in Seq({s[i] : i \in DOMAIN s})
AllOf(P(_), s) == \A i \in DOMAIN s : P(s[i])

(* Some of the places of a list from the first on, and the members of the list there: Array.filter. *)
Enumerates(h, places) ==
    /\ \A i, j \in DOMAIN h : i < j => h[i] < h[j]
    /\ \A p \in places : \E i \in DOMAIN h : h[i] = p
InOrder(places) == CHOOSE h \in [1 .. Cardinality(places) -> places] : Enumerates(h, places)
Only(s, places) == [k \in 1 .. Cardinality(places) |-> s[InOrder(places)[k]]]

(* names: the fields by their name in a file, each with its name in the API. *)
ToApi(names, set) == {names[f] : f \in set}
ToFile(names, set) == {f \in DOMAIN names : names[f] \in set}

=============================================================================
