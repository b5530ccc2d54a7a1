------------------------------ MODULE MCMessage ------------------------------
EXTENDS Message

RR(name, type, v) == [name |-> name, number |-> Types[type].number, type |-> type, v |-> v]

\* a.  b.a.  c.b.a.  and a name with every kind of escape: \t.\.\046\\b.
A   == <<97, 46>>
BA  == <<98, 46, 97, 46>>
CBA == <<99, 46, 98, 46, 97, 46>>
Odd == <<92, 116, 46, 92, 46, 92, 92, 98, 46>>

\* "a"  and  "  \
Text    == <<97>>
Escapes == <<92, 34, 92, 92, 92, 116>>
KeyOctets     == <<1, 2, 3, 4>>
Hex     == <<10, 11, 12, 13>>
HashOctets    == <<1, 2>>
IP      == <<10, 1, 2, 3>>
IP6     == [i \in 1..16 |-> i]

\* One or more records of every type.
TKey       == RR(BA, "TKEY", <<A, 1, 2, 3, 4, 1, Text, 0, <<>>>>)
Options(n) == RR(Root, "OPT", <<[i \in 1..n |-> [code |-> 3, data |-> Hex]]>>)
Masked4(n) == RR(Root, "OPT", <<<<[code |-> Subnet, family |-> 1, mask |-> n, address |-> <<10, 1, 32, 0>>]>>>>)

AllTypes == {
    RR(BA, "CNAME", <<Odd>>), RR(BA, "MB", <<A>>), RR(BA, "MG", <<A>>),
    RR(BA, "MINFO", <<A, CBA>>), RR(BA, "MR", <<A>>), RR(BA, "MF", <<A>>), RR(BA, "MD", <<A>>),
    RR(BA, "HINFO", <<Text, Text>>), RR(BA, "MX", <<258, CBA>>), RR(BA, "AFSDB", <<1, BA>>), RR(BA, "X25", <<Text>>),
    RR(BA, "RT", <<1, BA>>), RR(BA, "NS", <<Odd>>), RR(BA, "PTR", <<Root>>),
    RR(BA, "RP", <<A, BA>>), RR(BA, "SOA", <<A, BA, 1, 2, 70000, 4, 5>>),
    RR(BA, "TXT", <<<<>>>>), RR(BA, "TXT", <<<<Text, <<>>, Escapes>>>>), RR(BA, "SPF", <<<<Text>>>>),
    RR(BA, "SRV", <<1, 2, 65535, CBA>>),
    RR(BA, "NAPTR", <<1, 2, Text, Escapes, <<>>, Root>>),
    RR(BA, "CERT", <<1, 2, 3, KeyOctets>>), RR(BA, "DNAME", <<CBA>>), RR(BA, "A", <<IP>>),
    RR(Odd, "A", <<IP>>), RR(BA, "AAAA", <<IP6>>), RR(BA, "PX", <<1, A, BA>>),
    RR(BA, "GPOS", <<Text, Text, Text>>), RR(BA, "LOC", <<0, 18, 22, 19, 70000, 80000, 90000>>),
    RR(BA, "RRSIG", <<1, 5, 2, 3600, 4, 5, 6, A, KeyOctets>>),
    RR(BA, "SIG", <<1, 5, 2, 3600, 4, 5, 6, A, KeyOctets>>),
    RR(BA, "NSEC", <<CBA, <<>>>>), RR(BA, "NSEC", <<CBA, <<1, 2, 15, 46, 47>>>>),
    RR(BA, "NSEC", <<CBA, <<6, 257, 32768>>>>), RR(BA, "NSEC", <<CBA, <<257>>>>),
    RR(BA, "DLV", <<1, 2, 3, Hex>>), RR(BA, "DS", <<1, 2, 3, Hex>>), RR(BA, "CDS", <<1, 2, 3, Hex>>),
    RR(BA, "KX", <<1, A>>), RR(BA, "TA", <<1, 2, 3, Hex>>), RR(BA, "TALINK", <<A, BA>>),
    RR(BA, "SSHFP", <<1, 2, Hex>>),
    RR(BA, "IPSECKEY", <<1, 0, 2, <<>>, <<>>, Root, KeyOctets>>),
    RR(BA, "IPSECKEY", <<1, 1, 2, IP, <<>>, <<>>, KeyOctets>>),
    RR(BA, "IPSECKEY", <<1, 2, 2, <<>>, IP6, <<>>, KeyOctets>>),
    RR(BA, "IPSECKEY", <<1, 3, 2, <<>>, <<>>, CBA, KeyOctets>>),
    RR(BA, "KEY", <<1, 2, 3, KeyOctets>>), RR(BA, "DNSKEY", <<1, 2, 3, KeyOctets>>), RR(BA, "RKEY", <<1, 2, 3, KeyOctets>>),
    RR(BA, "CDNSKEY", <<1, 2, 3, KeyOctets>>), RR(BA, "NSAP", <<1, Text>>), RR(BA, "NSAPPTR", <<A>>),
    RR(BA, "NSEC3", <<1, 0, 10, 2, Hex, 2, HashOctets, <<1, 46>>>>),
    RR(BA, "NSEC3", <<1, 0, 10, 0, <<>>, 2, HashOctets, <<>>>>),
    RR(BA, "NSEC3PARAM", <<1, 0, 10, 2, Hex>>), TKey,
    [RR(BA, "RFC3597", <<Hex>>) EXCEPT !.number = 65280],
    RR(BA, "URI", <<1, 2, <<Text>>>>), RR(BA, "DHCID", <<KeyOctets>>), RR(BA, "TLSA", <<1, 2, 3, Hex>>),
    RR(BA, "HIP", <<2, 2, 4, Hex, KeyOctets, <<A, BA>>>>), RR(BA, "HIP", <<2, 2, 4, Hex, KeyOctets, <<>>>>),
    RR(BA, "NINFO", <<<<Text, Text>>>>), RR(BA, "WKS", <<IP, 6, <<>>>>), RR(BA, "WKS", <<IP, 6, <<9>>>>),
    RR(BA, "NID", <<1, 2>>), RR(BA, "L32", <<1, IP>>), RR(BA, "L64", <<1, 2>>),
    RR(BA, "LP", <<1, BA>>), RR(BA, "EUI48", <<3>>), RR(BA, "EUI64", <<4>>), RR(BA, "UID", <<5>>),
    RR(BA, "GID", <<5>>), RR(BA, "UINFO", <<Text>>), RR(BA, "EID", <<Hex>>), RR(BA, "NIMLOC", <<Hex>>),
    RR(BA, "OPENPGPKEY", <<KeyOctets>>), RR(Root, "OPT", <<<<>>>>),
    Options(1), Options(2), Masked4(24), Masked4(20),
    RR(BA, "TSIG", <<A, 70000, 300, 2, Hex, 1, 0, 0, <<>>>>)
}

\* Records for which len() counts too few octets, and some for which it
\* counts enough or, for an escape, too many.
Full  == RR(BA, "NSEC", <<A, <<255, 511>>>>)
Uneven == {
    RR(BA, "HINFO", <<Text, Text>>), RR(BA, "NSAPPTR", <<A>>), TKey, RR(BA, "L32", <<1, IP>>),
    RR(BA, "WKS", <<IP, 6, <<9>>>>), RR(BA, "WKS", <<IP, 6, <<53>>>>), Full,
    RR(BA, "NSEC", <<A, <<8960>>>>), Options(2), RR(BA, "A", <<IP>>), RR(Odd, "A", <<IP>>)}

\* Records of many lengths, with the fields that read the buffer.
Reused == {RR(CBA, "NS", <<BA>>), RR(CBA, "TXT", <<<<Text, Escapes>>>>), RR(A, "HINFO", <<Text, Text>>),
           RR(A, "NSEC", <<A, <<1, 47>>>>), RR(A, "NSEC3", <<1, 0, 10, 0, <<>>, 2, HashOctets, <<1>>>>),
           RR(A, "WKS", <<IP, 6, <<9>>>>)}

\* Records cut between others.
Between == {RR(A, "NS", <<BA>>), Options(1), RR(A, "NSEC", <<A, <<1, 257>>>>)}

\* Names of up to twelve labels: in their order a chain of eleven pointers.
Deep(n) == FoldLeft(LAMBDA name, i : A \o name, <<>>, [i \in 1..n |-> i])
Chain   == {RR(Deep(n), "SOA", <<Deep(n + 1), Deep(n + 2), 1, 2, 3, 4, 5>>) : n \in {1, 4, 7, 10}}

\* b\..  and  \.\..b.  and  b.: in the first two, quoted dots.
Quoted == {<<98, 92, 46, 46>>, <<92, 46, 92, 46, 46, 98, 46>>, <<98, 46>>}
Escaped == {RR(n, "NS", <<t>>) : n \in Quoted, t \in Quoted}

\* The owner of the SOA record of a denial may be empty.
Unnamed == {RR(n, "SOA", <<BA, CBA, 1, 2, 3, 4, 5>>) : n \in {<<>>, A}}

\* Names that share endings in every way.
Shared  == {RR(n, "NS", <<t>>) : n \in {A, BA, CBA}, t \in {A, CBA}}
               \union {RR(CBA, "SOA", <<BA, CBA, 1, 2, 3, 4, 5>>)}

\* Values etcd may hold, as octets: 10.1.2.3, ::1, a name without its dot
\* and an empty one, 0 1 65535 b and others that are no SRV data, and an SOA.
IPText  == <<49, 48, 46, 49, 46, 50, 46, 51>>
IP6Text == <<58, 58, 49>>
MCParseIP == IPText :> ([i \in 1..10 |-> 0] \o <<255, 255>> \o IP) @@ IP6Text :> IP6
Bare    == <<98>>
Srv(port)   == <<48, 9, 49, 9>> \o port \o <<9, 98>>
Soa(minttl) == <<97, 46, 9, 98, 46, 9, 51, 54, 48, 48, 9, 48, 9, 54, 48, 9>> \o minttl
MCValues ==
    [A |-> {IPText, IP6Text, Bare}, AAAA |-> {IPText, IP6Text, Bare}, TXT |-> {Text, <<>>},
     CNAME |-> {Bare, CBA}, NS |-> {Bare, CBA}, PTR |-> {Bare, CBA, <<>>},
     SRV |-> {Srv(p) : p \in {<<48>>, MaxUint16, <<54, 53, 53, 51, 54>>, <<>>, <<45, 49>>}}
                 \union {Bare, <<48, 9, 49>>},
     SOA |-> {Soa(m) : m \in {<<48>>, <<57, 57, 57, 57, 57>>, Bare}}
                 \union {<<>>}]
MCStored ==
    UNION {[name : {BA}, type : {t}, values : UNION {[1..n -> MCValues[t]] : n \in 1..2}] : t \in DOMAIN MCValues}

AllSections == {"answer", "ns", "extra"}
Basic == [questions |-> {BA}, asks |-> 1, records |-> {}, sections |-> {"answer"}, stored |-> {},
          maxRecords |-> 1, compress |-> FALSE, reuse |-> FALSE, cut |-> FALSE]
Two   == [Basic EXCEPT !.maxRecords = 2]

\* A record of every type in every section, cut or not; two records, too
\* long for the buffer, in one that is used again, and cut; compressed names
\* that share endings, in long chains, with escapes; empty names; converted
\* values, compressed or not.
MCSuites ==
    {[Basic EXCEPT !.records = AllTypes, !.sections = AllSections, !.cut = TRUE],
     [Two EXCEPT !.records = Uneven],
     [Two EXCEPT !.records = Reused, !.reuse = TRUE],
     [Two EXCEPT !.records = Between, !.asks = 2, !.cut = TRUE],
     [Two EXCEPT !.questions = {A, CBA}, !.asks = 2, !.records = Shared, !.sections = AllSections,
                 !.compress = TRUE],
     [Basic EXCEPT !.questions = {A}, !.records = Chain, !.maxRecords = 4, !.compress = TRUE],
     [Two EXCEPT !.questions = Quoted, !.records = Escaped, !.compress = TRUE],
     [Two EXCEPT !.questions = {<<>>, BA}, !.asks = 2, !.records = Unnamed],
     [Two EXCEPT !.questions = {<<>>, BA}, !.records = Unnamed, !.compress = TRUE],
     [Basic EXCEPT !.stored = MCStored, !.compress = TRUE], [Basic EXCEPT !.stored = MCStored]}
=============================================================================
