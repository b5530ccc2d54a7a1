------------------------------ MODULE ZoneParser ------------------------------
(***************************************************************************)
(* parseZone of miekg/dns (zscan.go, zscan_rr.go): the goroutine that      *)
(* makes records of the tokens of Lexer, and who reads its results: one of *)
(* them (NewRR, ReadRR) or all (ParseZone). Three goroutines and two       *)
(* channels.                                                               *)
(*                                                                         *)
(* The states of the parser have the names of the code. While it is in     *)
(* setRR it is in "data" with the steps of Grammar it still has to take.   *)
(* A name is the sequence of the symbols it was written with.              *)
(***************************************************************************)
EXTENDS Lexer, Grammar

CONSTANTS
    Zones,         \* the texts, and who reads each: "ReadRR", "ParseZone"
    ZoneCapacity,  \* of the channel of ParseZone, 10000 in the code
    MaxServers     \* bound on the names of one HIP

ASSUME CapacityAssumption == Capacity \in Nat \ {0} /\ ZoneCapacity \in Nat \ {0}
ASSUME ZonesAssumption ==
    \A z \in Zones : z.text \in Seq(STRING) /\ z.readers \subseteq {"ReadRR", "ParseZone"}

VARIABLES
    zone,    \* what the text was made of
    reader,  \* who reads the results
    p,       \* the variables of the parser
    due,     \* the results it is about to send
    t,       \* the channel of the results
    got      \* the results that were read

vars == <<lexVars, zone, reader, p, due, t, got>>

Header == [name |-> <<>>, class |-> "IN", ttl |-> 3600, type |-> ""]

Begins == [st |-> "owner", h |-> Header, prevName |-> <<>>, defttl |-> 3600, origin |-> <<".">>,
           l |-> Lex("EOF", <<>>, <<>>), want |-> <<>>, data |-> <<>>, acc |-> <<>>,
           quote |-> FALSE, empty |-> TRUE]

Init ==
    /\ zone \in Zones
    /\ LexInit(zone.text)
    /\ reader \in zone.readers
    /\ p = Begins
    /\ due = <<>> /\ t = <<>> /\ got = <<>>

-----------------------------------------------------------------------------
(* Words.                                                                  *)
IsDomainName(token) == \A i \in 1..Len(token) : ~Spells(<<token[i]>>, "bad")
Absolute(token) == Last(token) = "." \/ Spells(<<Last(token)>>, "dot")
appendOrigin(name, origin) == IF origin = <<".">> THEN name \o origin ELSE name \o <<".">> \o origin

Complete(token, origin) ==
    IF token = <<"@">> THEN origin
    ELSE IF Absolute(token) THEN token ELSE appendOrigin(token, origin)

Unit == "s" :> 1 @@ "m" :> 60 @@ "h" :> 3600 @@ "d" :> 86400 @@ "w" :> 604800 @@ "" :> 1

(* The word is given as its numbers with their units: 1h30 is 1 h, 30.     *)
stringToTtl(parts) == FoldLeft(LAMBDA s, part : s + part[1] * Unit[part[2]], 0, parts)

Length(token) ==
    FoldLeft(LAMBDA n, w : n + (IF Spells(<<w>>, "length") THEN Spelt(<<w>>, "length") ELSE 1), 0, token)

-----------------------------------------------------------------------------
(* Mutant: the first of the kinds of tokens is another one.                *)
Zero_IsBlank == Lex("Blank", <<>>, <<>>)

(* One token for the parser: after the last one, <-c gives the empty one,  *)
(* whose kind is the first of zscan.go:25, and the range over c ends.      *)
Zero == Lex("EOF", <<>>, <<>>)

Runs(st) == p.st = st /\ due = <<>> /\ lx.pc # "crashed"
Next_l == IF c = <<>> THEN Zero ELSE Head(c)
Receives == /\ c # <<>> \/ Closed
            /\ c' = (IF c = <<>> THEN c ELSE Tail(c))
            /\ UNCHANGED <<text, out, zone, reader, t, got>>
Ranges == c # <<>> /\ Receives

Error == [ok |-> FALSE, at |-> p.st]
RR(data, comment) == [ok |-> TRUE, h |-> p.h, data |-> data, comment |-> comment]

Goes(next) == p' = next /\ due' = <<>> /\ UNCHANGED lx

(* Mutant: the error is sent and the next line is read.                    *)
Fails_GoesOn == p' = [p EXCEPT !.st = "owner", !.want = <<>>] /\ due' = <<Error>> /\ UNCHANGED lx

Fails == p' = [p EXCEPT !.st = "end", !.want = <<>>] /\ due' = <<Error>> /\ UNCHANGED lx
Crashes == lx' = [lx EXCEPT !.pc = "crashed"] /\ UNCHANGED <<p, due>>
Finishes(data, comment) ==
    /\ p' = [p EXCEPT !.st = "owner", !.data = <<>>, !.acc = <<>>, !.want = <<>>]
    /\ due' = <<RR(data, comment)>>
    /\ UNCHANGED lx

-----------------------------------------------------------------------------
(* The lines up to the type.                                               *)
TypeOf(l)  == IF Spells(l.token, "type") THEN Spelt(l.token, "type") ELSE Spelt(l.token, "typexx")
ClassOf(l) == Spelt(l.token, "class")

(* Mutant: the class of the line before is kept.                           *)
Fresh_KeepsClass == [p EXCEPT !.h.ttl = p.defttl]

(* A line starts with the default TTL and the class IN.                    *)
Fresh == [p EXCEPT !.h.ttl = p.defttl, !.h.class = "IN"]

(* The first token of a line. Without an owner it is the one of the last.  *)
Beginning ==
    /\ Runs("owner") /\ Ranges
    /\ LET l == Head(c)
           inherits == [Fresh EXCEPT !.h.name = p.prevName]
           full == IF Head(l.token) = "@" THEN p.origin
                   ELSE IF Absolute(l.token) THEN l.token ELSE appendOrigin(l.token, p.origin)
       IN  \/ l.err /\ Fails
           \/ /\ ~l.err /\ l.value \in {"Newline", "Blank"}
              /\ Goes(Fresh)
           \/ /\ ~l.err /\ l.value = "Owner"
              /\ IF Head(l.token) = "@" \/ IsDomainName(l.token)
                 THEN Goes([Fresh EXCEPT !.h.name = full, !.prevName = full, !.st = "ownerBl"])
                 ELSE Fails
           \/ ~l.err /\ l.value = "DirTtl" /\ Goes([Fresh EXCEPT !.st = "dirTtlBl"])
           \/ ~l.err /\ l.value = "DirOrigin" /\ Goes([Fresh EXCEPT !.st = "dirOriginBl"])
           \/ ~l.err /\ l.value = "DirInclude" /\ Goes([Fresh EXCEPT !.st = "dirIncludeBl"])
           \/ ~l.err /\ l.value = "Rrtpe" /\ Goes([inherits EXCEPT !.h.type = TypeOf(l), !.st = "rdata"])
           \/ /\ ~l.err /\ l.value = "Class"
              /\ Goes([inherits EXCEPT !.h.class = ClassOf(l), !.st = "anyNoClassBl"])
           \/ /\ ~l.err /\ l.value = "String"
              /\ IF Spells(l.token, "parts")
                 THEN Goes([Fresh EXCEPT !.h.ttl = stringToTtl(Spelt(l.token, "parts")), !.st = "anyNoTtlBl"])
                 ELSE Fails
           \/ ~l.err /\ l.value = "Quote" /\ Fails

AfterBlank ==
    [st \in {"ownerBl", "anyNoClassBl", "anyNoTtlBl", "rrtypeBl", "dirTtlBl", "dirOriginBl", "dirIncludeBl"} |->
        CASE st = "ownerBl" -> "any"               [] st = "anyNoClassBl" -> "anyNoClass"
          [] st = "anyNoTtlBl" -> "anyNoTtl"       [] st = "rrtypeBl" -> "rrtype"
          [] st = "dirTtlBl" -> "dirTtl"           [] st = "dirOriginBl" -> "dirOrigin"
          [] st = "dirIncludeBl" -> "dirInclude"]

ExpectBlank ==
    /\ p.st \in DOMAIN AfterBlank /\ Runs(p.st) /\ Ranges
    /\ IF ~Head(c).err /\ Head(c).value = "Blank" THEN Goes([p EXCEPT !.st = AfterBlank[@]]) ELSE Fails

(* What may come where a type may come.                                    *)
Expects ==
    [st \in {"any", "anyNoClass", "anyNoTtl", "rrtype"} |->
        (IF st \in {"any", "anyNoClass"} THEN {"String"} ELSE {})
        \union (IF st \in {"any", "anyNoTtl"} THEN {"Class"} ELSE {})]

ExpectAny ==
    /\ p.st \in DOMAIN Expects /\ Runs(p.st) /\ Ranges
    /\ LET l == Head(c)
           may(value) == ~l.err /\ l.value = value /\ value \in Expects[p.st]
       IN  IF ~l.err /\ l.value = "Rrtpe" THEN Goes([p EXCEPT !.h.type = TypeOf(l), !.st = "rdata"])
           ELSE IF may("Class")
           THEN Goes([p EXCEPT !.h.class = ClassOf(l), !.st = IF @ = "any" THEN "anyNoClassBl" ELSE "rrtypeBl"])
           ELSE IF may("String") /\ Spells(l.token, "parts")
           THEN Goes([p EXCEPT !.h.ttl = stringToTtl(Spelt(l.token, "parts")),
                               !.st = IF @ = "any" THEN "anyNoTtlBl" ELSE "rrtypeBl"])
           ELSE Fails

(* The token after the type is dropped, whatever it is.                    *)
ExpectRdata ==
    /\ Runs("rdata") /\ Ranges
    /\ IF Head(c).err THEN Fails ELSE Goes([p EXCEPT !.st = "data", !.want = setRR(p.h.type)])

(* The range over c ends: t is closed.                                     *)
ZoneEnds ==
    /\ p.st \notin {"data", "spinning", "include", "includeOrigin", "end"} /\ Runs(p.st) /\ Closed /\ c = <<>>
    /\ Goes([p EXCEPT !.st = "end"])
    /\ UNCHANGED <<text, out, c, zone, reader, t, got>>

-----------------------------------------------------------------------------
(* Directives. The value is kept while the rest of the line is read.       *)
ExpectDirective ==
    /\ p.st \in {"dirTtl", "dirOrigin"} /\ Runs(p.st) /\ Ranges
    /\ IF ~Head(c).err /\ Head(c).value = "String"
       THEN Goes([p EXCEPT !.l = Head(c), !.st = "data", !.want = <<"slurp", p.st>>])
       ELSE Fails

NewOrigin == IF Absolute(p.l.token) THEN p.l.token ELSE appendOrigin(p.l.token, p.origin)

(* The end of the line was read, in order or not. What follows an origin   *)
(* is complained about, and then the origin is taken all the same.         *)
Directed(inOrder) ==
    LET back == [p EXCEPT !.st = "owner", !.want = <<>>]
    IN  /\ UNCHANGED lx
        /\ IF p.want[2] = "dirTtl"
           THEN IF inOrder /\ Spells(p.l.token, "parts")
                THEN Goes([back EXCEPT !.defttl = stringToTtl(Spelt(p.l.token, "parts"))])
                ELSE Fails
           ELSE IF IsDomainName(p.l.token)
                THEN /\ p' = [back EXCEPT !.origin = NewOrigin]
                     /\ due' = IF inOrder THEN <<>> ELSE <<[Error EXCEPT !.at = "dirOrigin"]>>
                ELSE /\ p' = [back EXCEPT !.st = "end"]
                     /\ due' = IF inOrder THEN <<Error>> ELSE <<[Error EXCEPT !.at = "dirOrigin"], Error>>

(* The file that is opened is named by the token after its name, which is  *)
(* a blank or the end of the line: there is none.                          *)
Include ==
    /\ p.st \in {"dirInclude", "include", "includeOrigin"} /\ Runs(p.st)
    /\ IF p.st = "dirInclude"
       THEN /\ Ranges
            /\ IF ~Head(c).err /\ Head(c).value = "String" THEN Goes([p EXCEPT !.st = "include"]) ELSE Fails
       ELSE /\ Receives
            /\ IF p.st = "include" /\ Next_l.value = "Blank" THEN Goes([p EXCEPT !.st = "includeOrigin"])
               ELSE Fails

-----------------------------------------------------------------------------
(* The data. Whether a step takes a token, and what it makes of it.        *)
Number(l)  == Spelt(l.token, "num")
Known(l, what) == Spells(l.token, what) \/ Spells(l.token, "num")
Meant(l, what) == IF Spells(l.token, what) THEN Spelt(l.token, what) ELSE Number(l)

Words == {"ip", "float", "metres", "node", "eui"}
Bits  == "u8" :> 256 @@ "u16" :> 65536

Takes(step, l) ==
    CASE step \in {"skip", "bare"} -> TRUE
      [] step = "some" -> l.token # <<>>
      [] step \in {"u8", "u16", "u32"} -> Spells(l.token, "num")
      [] step = "protocol" -> Spells(l.token, "num") /\ Number(l) % 256 \in {6, 17}
      [] step = "ttl" -> l.token = <<>> \/ Spells(l.token, "parts")
      [] step \in {"name", "name@"} -> l.token # <<>> /\ IsDomainName(l.token)
      [] step = "barename" -> IsDomainName(l.token)
      [] step \in Words -> Spells(l.token, step)
      [] step = "decimal" -> Spells(l.token, "float")
      [] step = "alg" -> Spells(l.token, "num") \/ Spells(l.upper, "alg")
      [] step \in {"keyalg", "certtype", "when"} -> Known(l, step)
      [] step = "covered" -> Spells(l.upper, "type") \/ Spells(l.upper, "typexx")
      [] step = "gateway" -> \/ p.data[2] \in {0, 3} /\ IsDomainName(l.token)
                             \/ p.data[2] \in {1, 2} /\ Spells(l.token, "ip")
      [] step = "hash" -> l.token = <<"\\", "#">>
      [] step \in {"quoted", "unquote"} -> l.value = "Quote"
      [] step = "text" -> l.value \in {"String", "Quote"}
      [] step = "north?" -> Known(l, "north")
      [] step = "east?" -> Known(l, "east")
      [] step \in {"north", "east"} -> Spells(l.token, step)

(* A word that is no type or class becomes an error: the text of the error *)
(* takes the place of the word, but its length stays, and may be too much. *)
(* In the data of a line whose type is a TYPEnn, words are still looked up.*)
Outruns(l) == l.err /\ Spells(l.upper, "unknown") /\ Length(l.upper) > Length(l.token)

(* The last octet of a token is looked at: one that has none, or one whose *)
(* length is of another.                                                   *)
Crash(step, l) ==
    \/ l.token = <<>> /\ step \in {"barename", "metres"}
    \/ l.token = <<>> /\ step = "gateway" /\ p.data[2] \in {0, 3}
    \/ Outruns(l) /\ step \in {"name", "name@", "barename", "names"}
    \/ Outruns(l) /\ step = "gateway" /\ p.data[2] \in {0, 3}

Field(step, l) ==
    CASE step \in {"skip", "hash", "quoted", "unquote"} -> <<>>
      [] step \in {"bare", "some", "decimal"} -> <<l.token>>
      [] step \in {"u8", "u16"} -> <<Number(l) % Bits[step]>>
      [] step = "protocol" -> <<Number(l) % 256>>
      [] step = "u32" -> <<Number(l)>>
      [] step = "ttl" -> <<IF l.token = <<>> THEN 0 ELSE stringToTtl(Spelt(l.token, "parts"))>>
      [] step \in {"name", "name@", "barename"} -> <<Complete(l.token, p.origin)>>
      [] step \in Words -> <<Spelt(l.token, step)>>
      [] step = "alg" -> <<IF Spells(l.token, "num") THEN Number(l) % 256 ELSE Spelt(l.upper, "alg")>>
      [] step \in {"keyalg", "certtype", "when"} -> <<Meant(l, step)>>
      [] step = "covered" ->
            <<IF Spells(l.upper, "type") THEN Spelt(l.upper, "type") ELSE Spelt(l.upper, "typexx")>>
      [] step = "gateway" /\ p.data[2] \in {1, 2} -> <<Spelt(l.token, "ip")>>
      [] step = "gateway" /\ p.data[2] \in {0, 3} ->
            <<IF l.token # <<"@">> THEN Complete(l.token, p.origin)
              ELSE IF p.origin = <<".">> THEN p.origin ELSE appendOrigin(p.origin, p.origin)>>
      [] step = "text" -> <<IF l.value = "Quote" THEN <<>> ELSE l.token>>
      [] step \in {"north?", "north"} -> <<Meant(l, "north")>>
      [] step \in {"east?", "east"} -> <<Meant(l, "east")>>

(* What is left to take: a hemisphere has no minutes, the text in quotes   *)
(* a second quote, and the origin ends the data of a PX.                   *)
Left(step, l, rest) ==
    IF (step = "north?" /\ Spells(l.token, "north")) \/ (step = "east?" /\ Spells(l.token, "east"))
    THEN SubSeq(rest, 5, Len(rest))
    ELSE IF step = "text" /\ l.value = "String" THEN <<"unquote">> \o rest
    ELSE IF step = "name@" /\ l.token = <<"@">> THEN <<"slurp">>
    ELSE rest

Loops == {"rest", "rdata", "types", "names", "ports", "sizes"}
Texts1 == {"txt", "txt1", "txtq", "txtu"}
Slurps == {"slurp", "slurp2"}

(* The rows of Grammar, which FlattenSeq makes: the step that reads to the *)
(* end of the line is the last one, what may be left out is followed by    *)
(* more, and so is a hemisphere without minutes. Only HIP lists names.     *)
IsRow(steps) ==
    /\ steps \in Seq(Range(steps)) /\ steps # <<>>
    /\ \A i \in 1..Len(steps) :
          /\ steps[i] \in Loops \union Texts1 \union Slurps <=> i = Len(steps)
          /\ steps[i] = "?" => i + 1 < Len(steps)
          /\ steps[i] \in {"north?", "east?"} => i + 5 <= Len(steps)
ASSUME GrammarAssumption ==
    \A type \in DOMAIN typeToparserFunc \union {"RFC3597"} :
        /\ IsRow(setRR(type))
        /\ type # "HIP" => \A i \in 1..Len(setRR(type)) : setRR(type)[i] # "names"

Step == IF Head(p.want) = "?" THEN p.want[2] ELSE Head(p.want)
Reading(steps) == Runs("data") /\ Step \in steps /\ Receives
LineIsOver(l) == l.value \in {"Newline", "EOF"}

(* A step of setRR with one token. The lexer's error is not looked at.     *)
ReadField ==
    /\ Runs("data") /\ Step \notin Loops \union Texts1 \union Slurps /\ Receives
    /\ LET l == Next_l
           rest == IF Head(p.want) = "?" THEN SubSeq(p.want, 3, Len(p.want)) ELSE Tail(p.want)
       IN  IF Head(p.want) = "?" /\ l.token = <<>> THEN Finishes(p.data, <<>>)
           ELSE IF Crash(Step, l) THEN Crashes
           ELSE IF ~Takes(Step, l) THEN Fails
           ELSE Goes([p EXCEPT !.data = @ \o Field(Step, l), !.want = Left(Step, l, rest)])

(* One more of a list of types, names, ports or sizes, or of the texts     *)
(* that make one.                                                          *)
Fits(step, l) ==
    CASE step \in {"rest", "rdata"} -> TRUE
      [] step = "types" -> Spells(l.upper, "type") \/ Spells(l.upper, "typexx")
      [] step = "names" -> IsDomainName(l.token)
      [] step = "ports" -> Spells(l.token, "port") \/ ~Spells(l.token, "num")
      [] step = "sizes" -> Len(p.acc) = 3 \/ Spells(l.token, "metres")

Added(step, l) ==
    CASE step \in {"rest", "rdata"} -> l.token
      [] step = "types" -> <<TypeOf([token |-> l.upper])>>
      [] step = "names" -> <<Complete(l.token, p.origin)>>
      [] step = "ports" -> IF Spells(l.token, "port") THEN <<Spelt(l.token, "port")>> ELSE <<0, 0>>
      [] step = "sizes" -> IF Len(p.acc) = 3 THEN <<>> ELSE <<Spelt(l.token, "metres")>>

AllData(step) == IF step = "rdata" THEN <<p.acc>> ELSE Append(p.data, p.acc)

ReadLoop ==
    /\ Reading(Loops)
    /\ LET l == Next_l
       IN  IF LineIsOver(l)
           THEN IF Step = "rdata" /\ Length(p.acc) # 2 * p.data[1] THEN Fails
                ELSE Finishes(AllData(Step), IF Step = "sizes" THEN <<>> ELSE l.comment)
           ELSE IF l.value = "Blank" THEN Goes(p)
           ELSE IF l.value # "String" THEN Fails
           ELSE IF Step = "names" /\ l.token = <<"@">> THEN Goes([p EXCEPT !.st = "spinning"])
           ELSE IF Crash(Step, l) THEN Crashes
           ELSE IF Fits(Step, l) THEN Goes([p EXCEPT !.acc = @ \o Added(Step, l)])
           ELSE IF Step = "types" /\ Length(l.upper) < 4 THEN Crashes
           ELSE Fails

(* The loop of setHIP goes on without another token when one is the origin.*)
Spin ==
    /\ Runs("spinning")
    /\ Goes([p EXCEPT !.acc = IF Len(@) < MaxServers THEN Append(@, p.origin) ELSE @])
    /\ UNCHANGED <<text, out, c, zone, reader, t, got>>

(* endingToTxtSlice: the first token says whether the texts are in quotes. *)
ReadTexts ==
    /\ Reading(Texts1)
    /\ LET l == Next_l
           first == Step \in {"txt", "txt1"}
           quoted == IF first THEN l.value = "Quote" ELSE Step = "txtq"
           next == IF first
                   THEN [p EXCEPT !.want = <<IF quoted THEN "txtq" ELSE "txtu", Step>>, !.quote = FALSE,
                                  !.empty = TRUE, !.acc = IF quoted THEN <<>> ELSE <<<<>>>>]
                   ELSE p
           texts == IF next.want[2] = "txt1" THEN next.acc[1] ELSE next.acc
       IN  IF LineIsOver(l)
           THEN IF quoted /\ p.quote THEN Fails ELSE Finishes(Append(p.data, texts), l.comment)
           ELSE IF ~quoted THEN Goes([next EXCEPT !.acc = <<Head(@) \o l.token>>])
           ELSE IF l.value = "String" THEN Goes([next EXCEPT !.acc = Append(@, l.token), !.empty = FALSE])
           ELSE IF l.value = "Quote"
           THEN Goes([next EXCEPT !.acc = IF next.empty /\ next.quote THEN Append(@, <<>>) ELSE @,
                                  !.quote = ~@, !.empty = TRUE])
           ELSE IF l.value = "Blank" /\ ~next.quote THEN Goes(next)
           ELSE Fails

(* slurpRemainder, after a record or after the value of a directive.       *)
Slurp ==
    /\ Reading(Slurps)
    /\ LET l == Next_l
           rest == Tail(p.want)
       IN  IF Step = "slurp" /\ l.value = "Blank" THEN Goes([p EXCEPT !.want = <<"slurp2">> \o rest])
           ELSE IF rest # <<>> THEN Directed(LineIsOver(l))
           ELSE IF LineIsOver(l) THEN Finishes(p.data, l.comment)
           ELSE Fails

-----------------------------------------------------------------------------
(* The results.                                                            *)
ZoneClosed == p.st = "end" /\ due = <<>>
MayRead == reader = "ParseZone" \/ got = <<>>

SendResult ==
    /\ due # <<>> /\ lx.pc # "crashed"
    /\ Len(t) < (IF reader = "ReadRR" THEN 1 ELSE ZoneCapacity)
    /\ t' = Append(t, Head(due))
    /\ due' = Tail(due)
    /\ UNCHANGED <<lexVars, zone, reader, p, got>>

ReadResult ==
    /\ lx.pc # "crashed" /\ t # <<>> /\ MayRead
    /\ got' = Append(got, Head(t))
    /\ t' = Tail(t)
    /\ UNCHANGED <<lexVars, zone, reader, p, due>>

Lexes == LexNext /\ UNCHANGED <<zone, reader, p, due, t, got>>

Parses ==
    \/ Beginning \/ ExpectBlank \/ ExpectAny \/ ExpectRdata \/ ExpectDirective \/ Include \/ ZoneEnds
    \/ ReadField \/ ReadLoop \/ Spin \/ ReadTexts \/ Slurp \/ SendResult

(* All has been read, or the one result, or the program is no more.        *)
Terminated ==
    /\ \/ ZoneClosed /\ t = <<>>
       \/ ~MayRead
       \/ lx.pc = "crashed"
    /\ UNCHANGED vars

Next == Lexes \/ Parses \/ ReadResult \/ Terminated

Spec == Init /\ [][Next]_vars /\ WF_vars(Lexes) /\ WF_vars(Parses) /\ WF_vars(ReadResult)

-----------------------------------------------------------------------------
(* ErrorEndsTheZone: an error is the last result of a zone, so that a      *)
(* reader that stops at it has missed nothing; but what follows the value  *)
(* of $ORIGIN is reported and the zone read on.                            *)
ErrorEndsTheZone ==
    LET results == got \o t \o due
    IN  \A i \in 1..Len(results) - 1 : results[i].ok \/ results[i].at = "dirOrigin"

(* GoroutinesEnd: lexer and parser come to their end. They are left over   *)
(* in two cases: the parser stopped at an error and the channel cannot     *)
(* take the tokens that are left; one result was asked for, and the        *)
(* channel cannot take the third. And one kind of record never ends.       *)
GoroutinesEnd ==
    <>[]( \/ Closed /\ ZoneClosed
          \/ p.st = "end" /\ out # <<>> /\ Len(c) = Capacity
          \/ ~MayRead /\ due # <<>> /\ Len(t) = 1
          \/ p.st = "spinning" /\ p.h.type = "HIP"
          \/ lx.pc = "crashed" )
=============================================================================
