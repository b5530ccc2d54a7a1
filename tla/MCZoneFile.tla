------------------------------ MODULE MCZoneFile ------------------------------
EXTENDS ZoneFile

-----------------------------------------------------------------------------
(* Words and what they spell.                                              *)
Numerals == "0" :> 0 @@ "1" :> 1 @@ "2" :> 2 @@ "3" :> 3 @@ "5" :> 5 @@ "6" :> 6 @@ "7" :> 7
            @@ "300" :> 300 @@ "70000" :> 70000
Durations == "1h" :> <<<<1, "h">>>> @@ "1h30" :> <<<<1, "h">>, <<30, "">>>> @@ "2m" :> <<<<2, "m">>>>
MoreTypes == {"NSAP-PTR"}
TypeNames == (DOMAIN typeToparserFunc \ {"RFC3597"})

MCLexicon ==
    [w \in DOMAIN Numerals |->
        [num |-> Numerals[w], parts |-> <<<<Numerals[w], "">>>>, when |-> Numerals[w], float |-> Numerals[w],
         port |-> Numerals[w] % 65536, certtype |-> Numerals[w], keyalg |-> Numerals[w]]]
    @@ "70000" :> [num |-> 70000, parts |-> <<<<70000, "">>>>]
    @@ [w \in DOMAIN Durations |-> [parts |-> Durations[w]]]
    @@ [w \in TypeNames |-> [type |-> w, length |-> 4]]
    @@ "ANY" :> [type |-> "ANY", class |-> "ANY", length |-> 3]
    @@ "IN" :> [class |-> "IN"] @@ "CH" :> [class |-> "CH"] @@ "CLASS1" :> [class |-> "IN"]
    @@ "TYPE65280" :> [typexx |-> "TYPE65280", length |-> 9] @@ "TYPE1" :> [typexx |-> "A", length |-> 5]
    @@ "TYPE2" :> [typexx |-> "NS", length |-> 5] @@ "TYPE55" :> [typexx |-> "HIP", length |-> 6]
    @@ "TYPEx" :> [unknown |-> "unknown RR type", length |-> 5]
    @@ "TYPEofnosuchrecord" :> [unknown |-> "unknown RR type", length |-> 18]
    @@ "CLASSx" :> [unknown |-> "unknown class", length |-> 6]
    @@ "CLASSofnozone" :> [unknown |-> "unknown class", length |-> 13]
    @@ "unknown RR type" :> [length |-> 15] @@ "unknown class" :> [length |-> 13]
    @@ "." :> [dot |-> TRUE] @@ "net." :> [dot |-> TRUE] @@ "host." :> [dot |-> TRUE]
    @@ "a..b" :> [bad |-> TRUE]
    @@ "10.1.2.3" :> [ip |-> "10.1.2.3"] @@ "::1" :> [ip |-> "::1"]
    @@ "2.5" :> [float |-> 2500] @@ "10m" :> [metres |-> 1000] @@ "1m" :> [metres |-> 100]
    @@ "N" :> [north |-> 1] @@ "E" :> [east |-> 1]
    @@ "1:2:3:4" :> [node |-> "1:2:3:4"] @@ "1-2-3" :> [eui |-> "1-2-3"]
    @@ "PGP" :> [certtype |-> 3] @@ "RSASHA1" :> [keyalg |-> 5, alg |-> 5]
    @@ "20150101000000" :> [when |-> 20150101]
    @@ "abcd" :> [length |-> 4] @@ "foo" :> [length |-> 3]

-----------------------------------------------------------------------------
(* The fields of a record of every type, as String() takes them.           *)
Texts2 == <<<<"a", " ", "b">>, <<>>, <<"\\", "\"">>>>
KeyWords == <<"1", "2", "3", "abcd">>
Fields ==
    [rt \in {"A", "AAAA"} |-> {<<"10.1.2.3">>}]
    @@ [rt \in {"NS", "PTR", "NSAP-PTR", "MR", "MB", "MG", "MF", "MD", "CNAME", "DNAME"} |-> {<<"host.">>}]
    @@ "RP" :> {<<"net.", <<"host.">>>>}
    @@ "HINFO" :> {<<"abcd", "foo">>} @@ "MINFO" :> {<<"net.", "host.">>}
    @@ [rt \in {"MX", "RT", "AFSDB", "KX", "LP"} |-> {<<"1", "host.">>}]
    @@ "X25" :> {<<"abcd">>}
    @@ "SOA" :> {<<"net.", "host.", "1", "2", "3", "5", "6">>}
    @@ "SRV" :> {<<"1", "2", "3", "host.">>}
    @@ "NAPTR" :> {<<"1", "2", <<"a">>, <<>>, <<"a", " ", "b">>, "host.">>}
    @@ "TALINK" :> {<<"net.", "host.">>}
    @@ "LOC" :> {<< <<"1", "2", "2.5", "N", "3", "5", "2.5", "E", "10m", "1m", "10m", "1m">> >>}
    @@ "HIP" :> {<<"1", "abcd", "foo", <<>>>>, <<"1", "abcd", "foo", <<"host.", "net.">>>>}
    @@ "CERT" :> {<<"PGP", "1", "RSASHA1", "abcd">>, <<"1", "2", "3", "abcd">>}
    @@ [rt \in {"OPENPGPKEY", "EID", "NIMLOC", "DHCID"} |-> {<<"abcd">>}]
    @@ [rt \in {"SIG", "RRSIG"} |-> {<<"MX", "1", "2", "3", "20150101000000", "20150101000000", "5", "host.", "abcd">>}]
    @@ "NSEC" :> {<<"host.", <<"A", "MX">>>>, <<"host.", <<"A">>>>, <<"host.", <<>>>>}
    @@ "NSEC3" :> {<<"1", "2", "3", s, "foo", <<"A", "MX">>>> : s \in {"-", "abcd"}}
    @@ "NSEC3PARAM" :> {<<"1", "2", "3", s>> : s \in {"-", "abcd"}}
    @@ [rt \in {"EUI48", "EUI64"} |-> {<<"1-2-3">>}]
    @@ "WKS" :> {<<"10.1.2.3", <<"6", "7">>>>}
    @@ "SSHFP" :> {<<"1", "2", "abcd">>}
    @@ [rt \in {"KEY", "DNSKEY", "CDNSKEY", "RKEY", "DS", "DLV", "CDS", "TA", "TLSA"} |-> {KeyWords}]
    @@ "NSAP" :> {<<"1", "abcd">>} @@ "GPOS" :> {<<"2.5", "2.5", "2.5">>}
    @@ "TYPE65280" :> {<<"abcd">>}
    @@ "TXT" :> {<<Texts2>>} \union {<<<<[i \in 1..n |-> "a"]>>>> : n \in {1, 8, 9}}
    @@ [rt \in {"SPF", "NINFO"} |-> {<<Texts2>>, <<<<<<"a">>>>>>}]
    @@ "URI" :> {<<"1", "2", <<<<"a">>>>>>}
    @@ [rt \in {"NID", "L64"} |-> {<<"1", "1:2:3:4">>}]
    @@ "L32" :> {<<"1", "10.1.2.3">>}
    @@ [rt \in {"UID", "GID"} |-> {<<"1">>}] @@ "UINFO" :> {<<<<"a">>>>}
    @@ "PX" :> {<<"1", "net.", "host.">>}
    @@ "IPSECKEY" :> {<<"1", "0", "2", "host.", "abcd">>, <<"1", "1", "2", "10.1.2.3", "abcd">>}

Record == [is |-> "record", owner |-> <<"host.">>, ttl |-> <<"300">>, class |-> <<"IN">>, reversed |-> FALSE,
           type |-> "A", words |-> <<"10.1.2.3">>, layout |-> "plain"]
After == [Record EXCEPT !.owner = <<>>, !.ttl = <<>>, !.class = <<>>, !.type = "NS", !.words = <<"net.">>]

Layouts == {"plain", "crlf", "wide", "open", "comment", "glued", "braces", "folded", "joined", "noted"}
Class1(rt) == IF rt = "TYPE65280" THEN <<"CLASS1">> ELSE <<"IN">>

(* A record of every type in every layout, and one after it.               *)
Single ==
    UNION {{<<[Record EXCEPT !.type = rt, !.class = Class1(rt), !.words = w, !.layout = l]>>
                 \o (IF l = "open" THEN <<>> ELSE <<After>>) : w \in Fields[rt], l \in Layouts} : rt \in DOMAIN Fields}

(* Three lines: a directive, a record with a first part of each kind, and  *)
(* one that takes over what it does not say.                               *)
Dir(is, value) == [is |-> is, value |-> value]
Directives == {<<>>, <<Dir("$TTL", "1h30")>>, <<Dir("$ORIGIN", "net.")>>, <<Dir("$ORIGIN", "sub")>>,
               <<Dir("$ORIGIN", "net."), Dir("$ORIGIN", "sub")>>}
Names == {[Record EXCEPT !.owner = o, !.ttl = <<>>, !.class = <<>>] : o \in {<<>>, <<"www">>, <<"@">>}}
Firsts == {[Record EXCEPT !.ttl = d, !.class = k, !.reversed = r] :
              d \in {<<>>, <<"2m">>}, k \in {<<>>, <<"CH">>}, r \in BOOLEAN}
Seconds ==
    {[After EXCEPT !.words = <<w>>, !.owner = o, !.type = "CNAME"] :
        w \in {"net.", "www", "@"}, o \in {<<>>, <<"www">>}}
Lines == {dirs \o <<a, b>> : dirs \in Directives, a \in Names, b \in Seconds}
         \union {dirs \o <<a, After>> : dirs \in {<<>>, <<Dir("$TTL", "1h30")>>}, a \in Firsts}

(* Texts that are no zones, or have no meaning that is agreed on.          *)
Ended(line) == line \o <<"\n">>
A1 == <<"host.", " ", "A", " ", "10.1.2.3">>
Rough == {
    Ended(A1) \o Ended(A1) \o Ended(A1) \o A1,                            \* more than one record
    Ended(A1) \o Ended(<<")">>) \o Ended(A1),
    Ended(<<"host.", " ", "TXT", " ", "foo", " ", ")">>),                  \* an error within data
    Ended(<<"host.", " ", "TYPEx", " ", "foo">>), Ended(<<"host.", " ", "CLASSx", " ", "foo">>),
    Ended(<<"host.", " ", "TYPE2", " ", "TYPEx", " ">>), Ended(<<"host.", " ", "TYPE2", " ", "CLASSofnozone", " ">>),
    Ended(<<"host.", " ", "TYPE2", " ", "TYPEofnosuchrecord", " ">>),
    Ended(<<"host.", " ", "TYPE55", " ", "1", " ", "abcd", " ", "foo", " ", "TYPEofnosuchrecord", " ">>),
    Ended(<<"host.", " ", "TYPE1", " ", "10.1.2.3">>), Ended(<<"host.", " ", "ANY", " ", "A", " ", "foo">>),
    Ended(<<" ", "A", " ", "10.1.2.3">>), Ended(<<"A", " ", "A">>),
    Ended(<<"a..b", " ", "A", " ", "10.1.2.3">>), Ended(<<"host.", "\"">>), Ended(<<"\"", "foo", "\"">>),
    Ended(<<"host.", " ", "A">>), <<"host.", " ", "A", " ">>,                \* an update
    Ended(<<"host.", " ", "TXT">>) \o Ended(A1),                           \* two lines in one record
    Ended(<<"host.", " ", "TXT", " ", "\"", "foo", "\n", ";", "\r", "(", "\"">>),
    Ended(<<"host.", " ", "TXT", " ", "\\", ";", "\\", " ", "\\", "(", "\\", "\\">>),
    Ended(<<"host.", " ", "TXT", " ", "\"", "foo">>),
    Ended(<<";", "foo", " ", "\\", "(", "\"">>) \o Ended(A1),
    Ended(<<"foo", "foo", "foo", "foo", "foo", "foo", "foo", "foo", "foo">>),
    Ended(<<";", "foo", "foo", "foo", "foo", "foo", "foo", "foo", "foo", "foo">>),
    Ended(<<"host.", " ", "PX", " ", "1", " ", "@", " ", "net.">>),
    Ended(<<"host.", " ", "HIP", " ", "1", " ", "abcd", " ", "foo", " ", "@">>),
    Ended(<<"host.", " ", "RP", " ", "net.">>), Ended(<<"host.", " ", "NSEC", " ", "net.", " ", "foo">>),
    Ended(<<"host.", " ", "NSEC", " ", "net.", " ", "abcd">>),
    Ended(<<"host.", " ", "SOA", " ", "net.", " ", "net.", " ", "1", " ", "1h">>),
    Ended(<<"host.", " ", "IPSECKEY", " ", "1", " ", "3", " ", "1", " ", "@", " ", "abcd">>),
    Ended(<<"host.", " ", "WKS", " ", "10.1.2.3", " ", "6", " ", "foo", " ", "1">>),
    Ended(<<"host.", " ", "LOC", " ", "1", " ", "N", " ", "2", " ", "E", " ", "10m">>),
    Ended(<<"host.", " ", "LOC", " ", "1", " ", "N", " ", "2", " ", "E">>),
    Ended(<<"host.", " ", "TYPE65280", " ", "\\", "#", " ", "3", " ", "abcd">>),
    Ended(<<"$TTL", " ", "foo">>), Ended(<<"$TTL", " ", "1h", " ", "foo">>), Ended(<<"$TTL", " ", ";">>),
    Ended(<<"$ORIGIN", " ", "net.", " ", "foo">>) \o Ended(A1), Ended(<<"$ORIGIN", " ", "a..b", " ">>),
    Ended(<<"$ORIGIN", " ", "a..b", " ", "foo">>),
    Ended(<<"$INCLUDE", " ", "foo">>), Ended(<<"$INCLUDE", " ", "foo", " ", "net.">>) \o Ended(A1)}

BothRead(zones) == {[z EXCEPT !.readers = {"ParseZone", "ReadRR"}] : z \in zones}
RoughZones == BothRead({[text |-> s, entries |-> <<>>, readers |-> {}] : s \in Rough})

MCZones == {ZoneOf(e) : e \in Single \union Lines} \union RoughZones

(* For liveness, that is slower to check: the rough texts, and for either  *)
(* reader a record of every type over two lines with another after it.     *)
MCTexts == RoughZones \union BothRead({ZoneOf(e) : e \in {s \in Single : s[1].layout = "folded"}})
=============================================================================
