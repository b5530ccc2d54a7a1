------------------------------- MODULE Records -------------------------------
(***************************************************************************)
(* The converters of the resolver (resolver.go): from the values etcd      *)
(* holds for a name and a type to records. A value is a text of octets.    *)
(***************************************************************************)
EXTENDS Wire

CONSTANT ParseIP        \* net.ParseIP: the sixteen octets of texts that are addresses

Tab == 9

(* strings.SplitN at tabs: at most n parts, the last one with what is left.*)
SplitN(text, n) ==
    LET tabs  == SelectSeq([i \in 1..Len(text) |-> i], LAMBDA i : text[i] = Tab)
        parts == IF Len(tabs) < n THEN Len(tabs) + 1 ELSE n
        cut(k) == CASE k = 0 -> 0 [] k = parts -> Len(text) + 1 [] OTHER -> tabs[k]
    IN  [k \in 1..parts |-> SubSeq(text, cut(k - 1) + 1, cut(k) - 1)]

(* strconv.ParseUint for a width: digits only, not above the digits of the *)
(* maximum.                                                                *)
MaxUint16 == <<54, 53, 53, 51, 53>>
MaxUint32 == <<52, 50, 57, 52, 57, 54, 55, 50, 57, 53>>

Significant(digits) == IF \A d \in ToSet(digits) : d = 48 THEN <<48>>
                       ELSE From(digits, (CHOOSE i \in 1..Len(digits) :
                                digits[i] # 48 /\ \A j \in 1..i - 1 : digits[j] = 48) - 1)

AtMost(digits, max) ==
    \/ Len(digits) < Len(max)
    \/ Len(digits) = Len(max)
       /\ \A i \in 1..Len(max) : digits[i] > max[i] => \E j \in 1..i - 1 : digits[j] < max[j]

(* Mutant: the width is left to the conversion of the number.              *)
IsUint_AnyWidth(text, max) == text # <<>> /\ \A c \in ToSet(text) : IsDigit(c)

IsUint(text, max) ==
    text # <<>> /\ (\A c \in ToSet(text) : IsDigit(c)) /\ AtMost(Significant(text), max)

Number(text) == FoldLeft(LAMBDA n, c : (10 * n) + c - 48, 0, text)

-----------------------------------------------------------------------------
(* To4: an address of four octets, or one mapped into sixteen.             *)
IsIPv4(octets) == (\A i \in 1..10 : octets[i] = 0) /\ octets[11] = 255 /\ octets[12] = 255

(* Whether the converter of a type takes a value. Every address passes for *)
(* an IPv6 address: To16 makes one of it. A target is taken as it is, but  *)
(* for PTR, where it has to be a name.                                     *)
Convertible(type, value) ==
    CASE type = "A"    -> value \in DOMAIN ParseIP /\ IsIPv4(ParseIP[value])
      [] type = "AAAA" -> value \in DOMAIN ParseIP
      [] type \in {"TXT", "CNAME", "NS"} -> TRUE
      [] type = "PTR"  -> IsDomainName(value).ok /\ IsDomainName(value).labels > 0
      [] type = "SRV"  -> LET parts == SplitN(value, 4)
                          IN  Len(parts) = 4 /\ \A i \in 1..3 : IsUint(parts[i], MaxUint16)
      [] type = "SOA"  -> LET parts == SplitN(value, 6)
                          IN  Len(parts) = 6 /\ \A i \in 3..6 : IsUint(parts[i], MaxUint32)

(* The data of the record. The serial of an SOA is set by the caller.      *)
Data(type, value) ==
    CASE type \in {"A", "AAAA"} -> <<ParseIP[value]>>
      [] type = "TXT" -> <<<<value>>>>
      [] type \in {"CNAME", "NS", "PTR"} -> <<Fqdn(value)>>
      [] type = "SRV" -> LET parts == SplitN(value, 4)
                         IN  [i \in 1..3 |-> Number(parts[i])] \o <<Fqdn(parts[4])>>
      [] type = "SOA" -> LET parts == SplitN(value, 6)
                         IN  <<Fqdn(parts[1]), Fqdn(parts[2]), 0>> \o [i \in 1..4 |-> Number(parts[i + 2])]

(* LookupAnswersForType: the records of a name and a type, none if a value *)
(* does not convert.                                                       *)
Converted(name, type, values) ==
    IF \E i \in 1..Len(values) : ~Convertible(type, values[i]) THEN <<>>
    ELSE [i \in 1..Len(values) |->
            [name |-> name, number |-> Types[type].number, type |-> type, v |-> Data(type, values[i])]]
=============================================================================
