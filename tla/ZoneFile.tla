-------------------------------- MODULE ZoneFile --------------------------------
(***************************************************************************)
(* What a zone is made of, how it is written, and what it means: the       *)
(* reference for ZoneParser. An entry is a record or a directive. The data *)
(* of a record are written as String() of its type does (types.go, whose   *)
(* table is Types), its first part in the orders the parser lists, and the *)
(* line as a person may lay it out. A field is given by its words.         *)
(***************************************************************************)
EXTENDS ZoneParser

Table == INSTANCE Types

(* The type as it is written, and the row of the table it has.             *)
RowOf(type) == Table!Types[CASE type = "NSAP-PTR" -> "NSAPPTR" [] type = "TYPE65280" -> "RFC3597" [] OTHER -> type]

Join(parts) == FoldLeft(LAMBDA s, part : IF s = <<>> THEN part ELSE s \o <<" ">> \o part, <<>>, parts)
Quoted(symbols) == <<"\"">> \o symbols \o <<"\"">>
sprintTxt(texts) == Join([i \in 1..Len(texts) |-> Quoted(texts[i])])
Listed(words) == Join([i \in 1..Len(words) |-> <<words[i]>>])

(* The words of a field, as they are printed.                              *)
Printed(print, w) ==
    CASE print \in {"txt", "glued"} -> sprintTxt(w)
      [] print = "txt1"   -> sprintTxt(<<w>>)
      [] print = "quoted" -> Quoted(w)
      [] print \in {"bitmap", "names", "ports"} -> Listed(w)
      [] print = "loc" -> Listed(w)
      [] print = "rfc3597" -> <<"\\", "#", " ", "2", " ", w>>
      [] OTHER -> <<w>>

(* What it is, when it is read.                                            *)
Says(w, what) == Lexicon[w][what]
Value(print, w) ==
    CASE print = "num" -> Says(w, "num")
      [] print \in {"hex", "base64", "bare", "name", "rfc3597"} -> <<w>>
      [] print = "salt" -> IF w = "-" THEN <<>> ELSE <<w>>
      [] print \in {"txt", "glued", "txt1", "quoted"} -> w
      [] print = "alg" -> Says(w, "keyalg")
      [] print = "time" -> Says(w, "when")
      [] print = "bitmap" -> [i \in 1..Len(w) |-> Says(w[i], "type")]
      [] print = "names" -> [i \in 1..Len(w) |-> <<w[i]>>]
      [] print = "ports" -> [i \in 1..Len(w) |-> Says(w[i], "port")]
      [] print = "gateway" -> IF "ip" \in DOMAIN Lexicon[w] THEN Says(w, "ip") ELSE <<w>>
      [] print = "eui48" \/ print = "eui64" -> Says(w, "eui")
      [] OTHER -> Says(w, print)

Location(w) ==
    [i \in 1..9 |-> CASE i = 3 \/ i = 7 -> Says(w[i], "float") [] i = 4 -> Says(w[i], "north")
                      [] i = 8 -> Says(w[i], "east") [] i = 9 -> Says(w[i], "metres")
                      [] OTHER -> Says(w[i], "num")] \o
    <<[i \in 1..3 |-> Says(w[9 + i], "metres")]>>

Data(e) ==
    LET row == RowOf(e.type)
    IN  IF e.type = "LOC" THEN Location(e.words[1])
        ELSE [i \in 1..Len(e.words) |-> Value(row.prints[i], e.words[i])]

(* The texts of a URI follow the number before them at once.               *)
DataText(e) ==
    LET row == RowOf(e.type)
        part(i) == Printed(row.prints[i], e.words[i])
        parts == SelectSeq([i \in 1..Len(e.words) |-> part(i)], LAMBDA s : s # <<>>)
    IN  IF e.type = "URI" THEN Join(SubSeq(parts, 1, 2)) \o parts[3] ELSE Join(parts)

-----------------------------------------------------------------------------
(* The six possible beginnings of a line (zscan.go:177): which of TTL and  *)
(* class are there, and in which order.                                    *)
FirstPart(e) ==
    Join(SelectSeq(<<e.owner>> \o (IF e.reversed THEN <<e.class, e.ttl>> ELSE <<e.ttl, e.class>>)
                       \o <<<<e.type>>>>,
                   LAMBDA s : s # <<>>))

(* Where a line within braces may be broken: at the first space that is    *)
(* not in quotes.                                                          *)
Breaks(d) == {i \in 1..Len(d) : d[i] = " " /\ \A j \in 1..i : d[j] # "\""}
Broken(d, with) ==
    IF Breaks(d) = {} THEN d
    ELSE LET i == CHOOSE i \in Breaks(d) : \A j \in Breaks(d) : i <= j
         IN  SubSeq(d, 1, i - 1) \o with \o SubSeq(d, i + 1, Len(d))

Note == <<";", "note">>
Laid(layout, first, d) ==
    first \o <<" ">> \o
    CASE layout = "plain"   -> d \o <<"\n">>
      [] layout = "crlf"    -> d \o <<"\r", "\n">>
      [] layout = "wide"    -> <<" ">> \o Broken(d, <<" ", " ">>) \o <<" ", "\n">>
      [] layout = "open"    -> d
      [] layout = "comment" -> d \o <<" ">> \o Note \o <<"\n">>
      [] layout = "glued"   -> d \o Note \o <<"\n">>
      [] layout = "braces"  -> <<"(">> \o d \o <<" ", ")", "\n">>
      [] layout = "folded"  -> <<"(", " ">> \o Broken(d, <<"\n", " ">>) \o <<" ", ")", "\n">>
      [] layout = "joined"  -> <<"(", " ">> \o Broken(d, <<"\n">>) \o <<" ", ")", "\n">>
      [] layout = "noted"   -> <<"(", " ">> \o Broken(d, <<" ">> \o Note \o <<"\n", " ">>) \o <<" ", ")", "\n">>

Written(e) ==
    IF e.is = "record"
    THEN Laid(e.layout, IF e.owner = <<>> THEN <<" ">> \o FirstPart(e) ELSE FirstPart(e), DataText(e))
    ELSE <<e.is, " ", e.value, "\n">>

Text(entries) == FlattenSeq([i \in 1..Len(entries) |-> Written(entries[i])])

-----------------------------------------------------------------------------
(* What it means: each entry with the owner, the TTL and the origin that   *)
(* hold where it stands. The class is IN wherever none is given.           *)
Place == [owner |-> <<>>, ttl |-> 3600, origin |-> <<".">>, records |-> <<>>]
InPlace(at, name) ==
    IF name = <<"@">> THEN at.origin
    ELSE IF Absolute(name) THEN name
    ELSE IF at.origin = <<".">> THEN name \o at.origin
    ELSE name \o <<".">> \o at.origin

(* The last data of these types are one name, and may be written short.    *)
Shortens == {"NS", "MX", "CNAME"}
DataInPlace(at, e) ==
    LET d == Data(e)
    IN  IF e.type \in Shortens THEN [d EXCEPT ![Len(d)] = InPlace(at, @)] ELSE d

Meant1(at, e) ==
    CASE e.is = "$TTL" -> [at EXCEPT !.ttl = stringToTtl(Lexicon[e.value].parts)]
      [] e.is = "$ORIGIN" -> [at EXCEPT !.origin = InPlace(at, <<e.value>>)]
      [] e.is = "record" ->
            LET owner == IF e.owner = <<>> THEN at.owner ELSE InPlace(at, e.owner)
                h == [name |-> owner, class |-> IF e.class = <<>> THEN "IN" ELSE Spelt(e.class, "class"),
                      ttl |-> IF e.ttl = <<>> THEN at.ttl ELSE stringToTtl(Spelt(e.ttl, "parts")),
                      type |-> TypeOf([token |-> <<e.type>>])]
                comment == IF e.layout \in {"comment", "glued"} THEN Note ELSE <<>>
            IN  [at EXCEPT !.owner = owner,
                           !.records = Append(@, [ok |-> TRUE, h |-> h, data |-> DataInPlace(at, e),
                                                  comment |-> comment])]
Meaning(entries) ==
    LET at[i \in 0..Len(entries)] == IF i = 0 THEN Place ELSE Meant1(at[i - 1], entries[i])
    IN  at[Len(entries)].records

ZoneOf(entries) == [text |-> Text(entries), entries |-> entries, readers |-> {"ParseZone"}]

-----------------------------------------------------------------------------
(* Where what is written is not what is read.                              *)
(* String() leaves out a blank or the protocol, or quotes what is no text. *)
PrintedOtherwise(e) == e.type \in {"RP", "URI", "WKS"}
(* The "-" of an empty salt is read as a salt.                             *)
DashIsSalt(e) == e.type \in {"NSEC3", "NSEC3PARAM"} /\ e.words[4] = "-"
(* The loop of LOC drops the comment.                                      *)
CommentIsLost(e) == e.type = "LOC" /\ e.layout \in {"comment", "glued"}
(* A line is broken within braces and the next one is not indented: two    *)
(* words become one.                                                       *)
WordsJoin(e) == e.layout = "joined" /\ Breaks(DataText(e)) # {}
(* A list of types is read by the field of the token that is left as it    *)
(* was when the word ends with a comment or with the text; and after a     *)
(* comment within braces a type is again the type of a record.             *)
TypesAreMissed(e) ==
    \/ e.type \in {"NSEC", "NSEC3"} /\ Last(e.words) # <<>> /\ e.layout \in {"glued", "open", "noted"}

(* A text is longer than the array of the lexer.                           *)
TooLong(e) == e.type = "TXT" /\ \E i \in 1..Len(e.words[1]) : Len(e.words[1][i]) > MaxTok

Misread(e) ==
    /\ e.is = "record"
    /\ \/ PrintedOtherwise(e) \/ DashIsSalt(e) \/ CommentIsLost(e)
       \/ WordsJoin(e) \/ TypesAreMissed(e) \/ TooLong(e)

AsWritten == got = Meaning(zone.entries)
AllRead == reader = "ParseZone" /\ ZoneClosed /\ t = <<>>

(* ReadsAsWritten: a zone is read as it is meant, whatever the pace of the *)
(* three goroutines: every record with its owner, class, TTL, data and     *)
(* comment, if String() wrote its data, in any of the layouts. The         *)
(* exceptions are those above, and they are always misread; the program    *)
(* ends in none but them.                                                  *)
ReadsAsWritten ==
    zone.entries # <<>> =>
        LET misread == \E i \in 1..Len(zone.entries) : Misread(zone.entries[i])
        IN  /\ AllRead => (AsWritten <=> ~misread)
            /\ lx.pc = "crashed" => misread
=============================================================================
