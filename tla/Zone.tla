-------------------------------- MODULE Zone --------------------------------
(***************************************************************************)
(* The vocabulary the resolver and its specification share: names, the     *)
(* etcd keys they are stored under, the keys one query consults, and what  *)
(* the content of a key means (resolver.go).                               *)
(*                                                                         *)
(* A name is what strings.Split(name, ".") makes of its text: "www.net."   *)
(* is <<"www", "net", "">>, the root "." is <<"", "">> and the empty text, *)
(* which Msg.Unpack yields for a question cut off, is <<"">>. A key is the *)
(* lower-case name without its empty labels and a record type: /net/www/.A *)
(* is <<<<"www", "net">>, A>>.                                             *)
(***************************************************************************)
EXTENDS Integers, Sequences, FiniteSets

CONSTANTS
    Labels,         \* the labels of names
    EMPTY,          \* the empty one
    STAR,           \* the label of wildcards
    Lower,          \* strings.ToLower on one label
    Types,          \* the record types with a converter
    CNAME, SOA,     \* two of them
    ANY, UNKNOWN,   \* the ANY query type, and a type without a converter
    Values,         \* the values under a key
    Invalid,        \* those the converter of the key's type refuses
    ETCDERROR       \* what a failed read shows in the place of values

ASSUME LabelsAssumption ==
    /\ {STAR, EMPTY} \subseteq Labels
    /\ STAR # EMPTY
    /\ Lower \in [Labels -> Labels]
    /\ \A l \in Labels : Lower[Lower[l]] = Lower[l] /\ (Lower[l] = EMPTY <=> l = EMPTY)

ASSUME ZoneTypesAssumption ==
    /\ IsFiniteSet(Types)
    /\ {CNAME, SOA} \subseteq Types
    /\ CNAME # SOA
    /\ ANY \notin Types
    /\ UNKNOWN \notin Types
    /\ ANY # UNKNOWN

ASSUME ValuesAssumption ==
    /\ IsFiniteSet(Values)
    /\ Invalid \subseteq Values
    /\ ETCDERROR \notin Values

(* The names of questions end with a dot, or are empty. A dot within a     *)
(* label is split at as well: "a\..net." is <<"a\", "", "net", "">>.       *)
Names == {name \in Seq(Labels) : Len(name) > 0 /\ name[Len(name)] = EMPTY}

QTypes   == Types \union {ANY, UNKNOWN}
QueryOK(q) == /\ q \in [name : Names, type : QTypes, inet : BOOLEAN]

-----------------------------------------------------------------------------
(* nameToKey(strings.ToLower(name), "/." + type): empty segments count not. *)
Lowered(name) == [i \in DOMAIN name |-> Lower[name[i]]]
Key(name, t)  == <<SelectSeq(Lowered(name), LAMBDA l : l # EMPTY), t>>

(* The types one question looks up.                                        *)
Asked(t) == IF t = ANY THEN Types ELSE {t} \intersect Types

Suffix(name, i) == SubSeq(name, i, Len(name))

(* The questions of a query, in their order: level 0 is the name itself,   *)
(* asked for class INET only, level i the wildcard in the place of the     *)
(* first i labels. There is no wildcard right below the root, "." or "".   *)
LastLevel(q) ==
    LET n == Len(q.name)
    IN  CASE n = 1                          -> 0
          [] n > 2 /\ q.name[n - 1] = EMPTY -> n - 3
          [] OTHER                          -> n - 2

FirstLevel(q)    == IF q.inet THEN 0 ELSE 1
Levels(q)        == FirstLevel(q)..LastLevel(q)
Domain(q, level) == IF level = 0 THEN q.name ELSE <<STAR>> \o Suffix(q.name, level + 1)

(* The subdomains Authority tries: the name, its parents and, in the place *)
(* of the root, the empty text.                                            *)
LastStep(q) == Len(q.name)

(* A lookup fails if etcd does or if one of the values does not convert.   *)
Bad(content) == content \intersect (Invalid \union {ETCDERROR}) # {}
=============================================================================
