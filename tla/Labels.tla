------------------------------- MODULE Labels -------------------------------
(***************************************************************************)
(* All pairs of texts over an alphabet, and what the helpers on texts and  *)
(* the packer say of them. The helpers find the labels of a name by their  *)
(* own scan of the text, the packer by another one: that they agree is     *)
(* what the properties are about.                                          *)
(***************************************************************************)
EXTENDS Names

CONSTANTS
    Alphabet,       \* the octets of the texts considered
    MaxLength,      \* bound: the length of the first text
    MaxOther        \* bound: the length of both, in a pair

ASSUME BoundsAssumption == MaxLength \in Nat /\ MaxOther \in Nat

VARIABLES
    name, other     \* two texts, typed octet by octet

vars == <<name, other>>

Init == name = <<>> /\ other = <<>>

TypeName ==
    /\ Len(name) < MaxLength
    /\ other = <<>>
    /\ \E c \in Alphabet : name' = Append(name, c)
    /\ UNCHANGED other

TypeOther ==
    /\ name # <<>> /\ Len(name) <= MaxOther
    /\ Len(other) < MaxOther
    /\ \E c \in Alphabet : other' = Append(other, c)
    /\ UNCHANGED name

StartOver ==
    /\ name # <<>>
    /\ Len(name) = MaxLength \/ Len(other) = MaxOther
    /\ name' = <<>> /\ other' = <<>>

Next == TypeName \/ TypeOther \/ StartOver

Spec == Init /\ [][Next]_vars

-----------------------------------------------------------------------------
Packed(s) == PackDomainName(s, <<>>, NilSize, <<>>, FALSE)

(* What packing leaves of a text is a sequence of nonempty labels.         *)
NoEmptyLabel(s) == Head(s) # Dot \/ s = Root

(* A text that ends in a dot that is escaped: it is not the final dot that *)
(* IsFqdn takes it for.                                                    *)
RECURSIVE EndsEscaped(_)
EndsEscaped(s) ==
    /\ Len(s) > 1
    /\ IF s[1] # Backslash THEN EndsEscaped(Tail(s))
       ELSE Len(s) = 2 \/ EndsEscaped(From(s, 2))

Valid(s) == s # <<>> /\ IsDomainName(s).ok /\ NoEmptyLabel(s)

(* Packing looks only at texts that are fully qualified and whose labels,  *)
(* but for the root's, are not empty: from these unpacking gives a text    *)
(* that is packed the same again, whatever was escaped and however.        *)
RoundTrip ==
    LET p == Packed(name)
        u == UnpackDomainName(p.out, 0)
    IN  name # <<>> /\ p.err = "none" /\ NoEmptyLabel(name) =>
            /\ u.err = "none" /\ u.off = Len(p.out)
            /\ Packed(u.s).out = p.out

(* The helpers on text see the labels that the packer puts on the wire, as *)
(* many as IsDomainName counts, for relative names, too.                   *)
CountsAgree ==
    LET d == IsDomainName(name)
    IN  name \notin {<<>>, Root} /\ d.ok /\ ~EndsEscaped(Fqdn(name)) =>
            /\ CountLabel(name) = d.labels
            /\ Len(SplitDomainName(name)) = d.labels

(* A name is a subdomain of another one exactly if the labels of that are  *)
(* the last labels of the first.                                           *)
SubDomainByLabels ==
    Valid(name) /\ Valid(other) =>
        (IsSubDomain(other, name)
            <=> IsSuffix(SplitDomainName(Fqdn(other)), SplitDomainName(Fqdn(name))))

=============================================================================
