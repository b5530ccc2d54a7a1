-------------------------------- MODULE Grammar --------------------------------
(***************************************************************************)
(* The functions that parse the data of each record type (zscan_rr.go), as *)
(* a table. A row lists what the function takes from the channel, in its   *)
(* order; the names of the steps are                                       *)
(*   ?             if there is no token any more, the record is complete   *)
(*   skip          <-c, where a blank is expected but not looked at        *)
(*   u8, u16, u32  a number             ttl       a number or a duration   *)
(*   name          a domain name        barename  one that may be missing  *)
(*   name@         one that ends the data if it is the origin              *)
(*   bare          any token            some      any token but none       *)
(*   quoted, text, unquote  a quote; a text or the second quote; the quote *)
(*   ip, float, decimal, metres, node, eui, protocol, alg, keyalg,         *)
(*   certtype, covered, when, gateway, hash     what the words say         *)
(*   north?, north, east?, east         a hemisphere, or its minutes       *)
(* and those that end the data and take tokens up to the end of the line:  *)
(*   rest          endingToString       txt, txt1 endingToTxtSlice         *)
(*   types, names, ports, sizes         the loops of NSEC, HIP, WKS, LOC   *)
(*   rdata         rest, of a length that was given                        *)
(*   slurp         slurpRemainder, for the types whose end is fixed        *)
(***************************************************************************)
EXTENDS Integers, Sequences, SequencesExt, TLC

Fixed(steps) == steps \o <<"slurp">>

(* Steps with a blank between any two of them.                             *)
Spaced(steps) == SubSeq(FlattenSeq([i \in 1..Len(steps) |-> <<"skip", steps[i]>>]), 2, 2 * Len(steps))

Update(steps) == <<"?">> \o Spaced(steps)

Name    == Fixed(Update(<<"name">>))
NumName == Fixed(Update(<<"u16", "name">>))
PublicKey == Update(<<"u16", "u8", "u8">>) \o <<"rest">>
Digest    == Update(<<"u16", "alg", "u8">>) \o <<"rest">>

Addresses == [t \in {"A", "AAAA"} |-> Fixed(<<"?", "ip">>)]
Pointers  == [t \in {"NS", "PTR", "NSAP-PTR"} |-> Name]
Mailboxes ==
    [t \in {"MR", "MB", "MG"} |-> Name] @@ "RP" :> Fixed(Update(<<"name", "barename">>))
Hosts ==
    [t \in {"MF", "MD"} |-> Name]
    @@ "HINFO" :> Fixed(<<"bare", "skip", "bare">>)
    @@ "MINFO" :> Fixed(Update(<<"name", "barename">>))
Preferences ==
    [t \in {"MX", "RT", "AFSDB", "KX"} |-> NumName] @@ "X25" :> Fixed(<<"bare">>)

Authorities ==
    [t \in {"CNAME", "DNAME"} |-> Name]
    @@ "SOA" :> Fixed(Update(<<"name", "name", "u32", "ttl", "ttl", "ttl", "ttl">>))

Services ==
    "SRV" :> Fixed(Update(<<"u16", "u16", "u16", "name">>))
    @@ "NAPTR" :> Fixed(Update(<<"u16", "u16", "quoted", "quoted", "quoted", "name">>))
Links == "TALINK" :> Fixed(Update(<<"name", "name">>))
Locations ==
    "LOC" :> Update(<<"u32", "north?", "float", "north", "u32", "east?", "float", "east", "metres">>)
             \o <<"sizes">>
Identities ==
    "HIP" :> Update(<<"u8", "bare", "bare">>) \o <<"names">>
    @@ "CERT" :> Update(<<"certtype", "u16", "keyalg">>) \o <<"rest">>
    @@ "OPENPGPKEY" :> <<"rest">>
Signatures ==
    [t \in {"SIG", "RRSIG"} |->
        Update(<<"covered", "u8", "u8", "u32", "when", "when", "u16", "name">>) \o <<"rest">>]
Denials ==
    "NSEC" :> <<"?", "name", "types">>
    @@ "NSEC3" :> Update(<<"u8", "u8", "u16", "some", "bare">>) \o <<"types">>
    @@ "NSEC3PARAM" :> Fixed(Update(<<"u8", "u8", "u16", "bare">>))
Interfaces == [t \in {"EUI48", "EUI64"} |-> Fixed(<<"?", "eui">>)]
Ports ==
    "WKS" :> Update(<<"ip", "protocol">>) \o <<"skip", "ports">>
    @@ "SSHFP" :> Fixed(Update(<<"u8", "u8", "bare">>))
Keys == [t \in {"KEY", "DNSKEY", "CDNSKEY", "RKEY"} |-> PublicKey]
Endpoints ==
    [t \in {"EID", "NIMLOC"} |-> <<"rest">>]
    @@ "NSAP" :> <<"?", "u8", "skip", "rest">>
    @@ "GPOS" :> Fixed(Update(<<"decimal", "decimal", "decimal">>))
Digests == [t \in {"DS", "DLV", "CDS"} |-> Digest]
Certificates ==
    "TA" :> Digest
    @@ "TLSA" :> Update(<<"u8", "u8", "u8">>) \o <<"rest">>
    @@ "RFC3597" :> <<"hash", "skip", "u32", "rdata">>
Texts ==
    [t \in {"SPF", "TXT", "NINFO"} |-> <<"txt">>]
    @@ "URI" :> <<"?", "u16", "skip", "u16", "skip", "txt">>
    @@ "DHCID" :> <<"rest">>
Locators ==
    [t \in {"NID", "L64"} |-> Fixed(Update(<<"u16", "node">>))]
    @@ "L32" :> Fixed(Update(<<"u16", "ip">>))
    @@ "LP"  :> Fixed(<<"?", "u16", "skip", "?", "name">>)
Users ==
    [t \in {"UID", "GID"} |-> Fixed(<<"?", "u32">>)]
    @@ "UINFO" :> <<"txt1">>
    @@ "PX" :> Fixed(<<"?", "u16", "skip", "?", "name@", "skip", "name">>)
Gateways ==
    "IPSECKEY" :> Update(<<"u8", "u8", "u8", "gateway">>) \o <<"rest">>

typeToparserFunc ==
    Addresses @@ Pointers @@ Mailboxes @@ Hosts @@ Preferences @@ Authorities @@ Services @@ Links
    @@ Locations @@ Identities @@ Signatures @@ Denials @@ Interfaces @@ Ports @@ Keys @@ Endpoints
    @@ Digests @@ Certificates @@ Texts @@ Locators @@ Users @@ Gateways

(* setRR: what no function parses is taken as an RFC3597.                  *)
setRR(type) ==
    LET steps == typeToparserFunc[IF type \in DOMAIN typeToparserFunc THEN type ELSE "RFC3597"]
    IN  FlattenSeq([i \in 1..Len(steps) |->
            IF steps[i] = "quoted" THEN <<"quoted", "text">> ELSE <<steps[i]>>])
=============================================================================
