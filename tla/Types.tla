-------------------------------- MODULE Types --------------------------------
(***************************************************************************)
(* The record types of miekg/dns (types.go, edns.go, tsig.go) as a table.  *)
(* A row has the number of the type, the kinds of its fields in the order  *)
(* they are packed (the struct and its tags), the slack of its len()       *)
(* (octets it counts beyond what its fields take when their texts have no  *)
(* escapes), and how String() prints them:                                 *)
(*   num, ip, hex, base64, type, bitmap, time  what the words say          *)
(*   bare    the text as it is          name    sprintName of the text     *)
(*   txt     quoted texts               txt1    one text, quoted           *)
(*   quoted  in quotes, as it is        salt    hex, "-" for an empty one  *)
(*   glued   quoted texts, no blank before the first                       *)
(***************************************************************************)
EXTENDS Integers, Sequences, TLC

Row(number, fields, slack, prints) ==
    [number |-> number, fields |-> fields, slack |-> slack, prints |-> prints]

OneName(number, kind, print) == Row(number, <<kind>>, 0, <<print>>)
NumName(number, kind)        == Row(number, <<"u16", kind>>, 0, <<"num", "name">>)

Classic ==
       "CNAME" :> OneName(5, "cname", "bare")
    @@ "HINFO" :> Row(13, <<"string", "string">>, -2, <<"bare", "bare">>)
    @@ "MB"    :> OneName(7, "cname", "bare")
    @@ "MG"    :> OneName(8, "cname", "name")
    @@ "MINFO" :> Row(14, <<"cname", "cname">>, 0, <<"name", "name">>)
    @@ "MR"    :> OneName(9, "cname", "name")
    @@ "MF"    :> OneName(4, "cname", "name")
    @@ "MD"    :> OneName(3, "cname", "name")
    @@ "MX"    :> NumName(15, "cname")
    @@ "AFSDB" :> NumName(18, "cname")
    @@ "X25"   :> Row(19, <<"string">>, 0, <<"bare">>)

Names1 ==
       "RT"  :> NumName(21, "cname")
    @@ "NS"  :> OneName(2, "cname", "name")
    @@ "PTR" :> OneName(12, "cname", "name")
    @@ "RP"  :> Row(17, <<"name", "name">>, 0, <<"bare", "txt1">>)
    @@ "SOA" :> Row(6, <<"cname", "cname", "u32", "u32", "u32", "u32", "u32">>, 0,
                    <<"name", "name", "num", "num", "num", "num", "num">>)
    @@ "TXT" :> Row(16, <<"txt">>, 0, <<"txt">>)

Services ==
       "SPF"   :> Row(99, <<"txt">>, 0, <<"txt">>)
    @@ "SRV"   :> Row(33, <<"u16", "u16", "u16", "name">>, 0, <<"num", "num", "num", "name">>)
    @@ "NAPTR" :> Row(35, <<"u16", "u16", "string", "string", "string", "name">>, 0,
                      <<"num", "num", "quoted", "quoted", "quoted", "bare">>)
    @@ "CERT"  :> Row(37, <<"u16", "u16", "u8", "base64">>, 0, <<"certtype", "num", "alg", "base64">>)
    @@ "DNAME" :> OneName(39, "name", "name")

Addresses ==
       "A"    :> Row(1, <<"a">>, 0, <<"ip">>)
    @@ "AAAA" :> Row(28, <<"aaaa">>, 0, <<"ip">>)
    @@ "PX"   :> Row(26, <<"u16", "name", "name">>, 0, <<"num", "name", "name">>)
    @@ "GPOS" :> Row(27, <<"string", "string", "string">>, 0, <<"bare", "bare", "bare">>)
    @@ "LOC"  :> Row(29, <<"u8", "u8", "u8", "u8", "u32", "u32", "u32">>, 0, <<"loc">>)

RRSIG == Row(46, <<"u16", "u8", "u8", "u32", "u32", "u32", "u16", "name", "base64">>, 0,
             <<"type", "num", "num", "num", "time", "time", "num", "name", "base64">>)
Digest(number) == Row(number, <<"u16", "u8", "u8", "hex">>, 0, <<"num", "num", "num", "hex">>)

Security ==
       "SIG"    :> [RRSIG EXCEPT !.number = 24]
    @@ "RRSIG"  :> RRSIG
    @@ "NSEC"   :> Row(47, <<"name", "nsec">>, 0, <<"name", "bitmap">>)
    @@ "DLV"    :> Digest(32769)
    @@ "CDS"    :> Digest(59)
    @@ "DS"     :> Digest(43)
    @@ "KX"     :> NumName(36, "name")
    @@ "TA"     :> Digest(32768)
    @@ "TALINK" :> Row(58, <<"name", "name">>, 0, <<"name", "name">>)

PublicKey(number) == Row(number, <<"u16", "u8", "u8", "base64">>, 0, <<"num", "num", "num", "base64">>)

Keys ==
       "SSHFP"    :> Row(44, <<"u8", "u8", "hex">>, 0, <<"num", "num", "hex">>)
    @@ "IPSECKEY" :> Row(45, <<"u8", "u8", "u8", "gwa", "gwaaaa", "gwname", "base64">>, 0,
                         <<"num", "num", "num", "gateway", "base64">>)
    @@ "KEY"      :> PublicKey(25)
    @@ "CDNSKEY"  :> PublicKey(60)
    @@ "DNSKEY"   :> PublicKey(48)
    @@ "RKEY"     :> PublicKey(57)
    @@ "NSAP"     :> Row(22, <<"u8", "string">>, 0, <<"num", "bare">>)
    @@ "NSAPPTR"  :> [OneName(23, "name", "name") EXCEPT !.slack = -1]

Hashed ==
       "NSEC3"      :> Row(50, <<"u8", "u8", "u16", "u8", "hexs", "u8", "base32s", "nsec">>, 2,
                           <<"num", "num", "num", "salt", "bare", "bitmap">>)
    @@ "NSEC3PARAM" :> Row(51, <<"u8", "u8", "u16", "u8", "hex">>, 2, <<"num", "num", "num", "salt">>)
    @@ "TKEY"       :> Row(249, <<"name", "u32", "u32", "u16", "u16", "u16", "string", "u16", "string">>,
                           -2, <<>>)
    @@ "RFC3597"    :> Row(0, <<"hex">>, 2, <<"rfc3597">>)
    @@ "URI"        :> Row(256, <<"u16", "u16", "txt">>, 0, <<"num", "num", "glued">>)

Hosts ==
       "DHCID" :> Row(49, <<"base64">>, 0, <<"base64">>)
    @@ "TLSA"  :> Row(52, <<"u8", "u8", "u8", "hex">>, 0, <<"num", "num", "num", "hex">>)
    @@ "HIP"   :> Row(55, <<"u8", "u8", "u16", "hit", "hitkey", "names">>, 0,
                      <<"num", "hex", "base64", "names">>)
    @@ "NINFO" :> Row(56, <<"txt">>, 0, <<"txt">>)
    @@ "WKS"   :> Row(11, <<"a", "u8", "wks">>, 0, <<"ip", "ports">>)

Locators ==
       "NID"   :> Row(104, <<"u16", "u64">>, 0, <<"num", "node">>)
    @@ "L32"   :> Row(105, <<"u16", "a">>, -2, <<"num", "ip">>)
    @@ "L64"   :> Row(106, <<"u16", "u64">>, 0, <<"num", "node">>)
    @@ "LP"    :> NumName(107, "name")
    @@ "EUI48" :> Row(108, <<"u48">>, 0, <<"eui48">>)
    @@ "EUI64" :> Row(109, <<"u64">>, 0, <<"eui64">>)

Users ==
       "UID"        :> Row(101, <<"u32">>, 0, <<"num">>)
    @@ "GID"        :> Row(102, <<"u32">>, 0, <<"num">>)
    @@ "UINFO"      :> Row(100, <<"string">>, 0, <<"txt1">>)
    @@ "EID"        :> Row(31, <<"hex">>, 0, <<"hex">>)
    @@ "NIMLOC"     :> Row(32, <<"hex">>, 0, <<"hex">>)
    @@ "OPENPGPKEY" :> Row(61, <<"base64">>, 0, <<"base64">>)

OPT  == Row(41, <<"opt">>, 0, <<>>)
TSIG == Row(250, <<"name", "u48", "u16", "u16", "hexs", "u16", "u16", "u16", "hexs">>, 2, <<>>)

(* typeToRR: what is not in it is unpacked as an RFC3597.                  *)
Types == Classic @@ Names1 @@ Services @@ Addresses @@ Security @@ Keys @@ Hashed @@ Hosts
         @@ Locators @@ Users @@ "OPT" :> OPT @@ "TSIG" :> TSIG

typeToRR == DOMAIN Types \ {"CDNSKEY", "RFC3597"}

AnyOf(types)   == IF types = {} THEN "RFC3597" ELSE CHOOSE t \in types : TRUE
TypeOf(number) == AnyOf({t \in typeToRR : Types[t].number = number})
=============================================================================
