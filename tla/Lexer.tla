--------------------------------- MODULE Lexer ---------------------------------
(***************************************************************************)
(* zlexer of miekg/dns (zscan.go): the goroutine that turns the text of a  *)
(* zone into tokens on the channel c. A text is a sequence of symbols:     *)
(* " ", ";", "\r", "\n", "\\", "\"", "(", ")", and words, which stand for  *)
(* runs of all other characters, that the lexer treats alike. A token is   *)
(* what it gathered of them. What a word spells is in Lexicon.             *)
(*                                                                         *)
(* The lexer keeps one token variable for its whole life, so that a field  *)
(* it does not set is the one of an earlier token: here value and upper    *)
(* (tokenUpper: the token, cases being left out).                          *)
(***************************************************************************)
EXTENDS Integers, Sequences, SequencesExt, TLC

CONSTANTS
    Lexicon,   \* word -> record: "type", "class", "num", ... -> what it spells
    Capacity,  \* of the channel c, 1000 in the code
    MaxTok     \* symbols in a token or a comment, maxTok in the code

VARIABLES
    text,  \* what the reader has not delivered
    lx,    \* the variables of the goroutine
    out,   \* the tokens it is about to send
    c      \* the channel to the parser

lexVars == <<text, lx, out, c>>

Spells(token, what) ==
    Len(token) = 1 /\ token[1] \in DOMAIN Lexicon /\ what \in DOMAIN Lexicon[token[1]]
Spelt(token, what) == Lexicon[token[1]][what]

Special == {" ", ";", "\r", "\n", "\\", "\"", "(", ")"}

Lex(value, token, upper) ==
    [value |-> value, token |-> token, upper |-> upper, comment |-> <<>>, err |-> FALSE]
LexError(value, why, upper) == [Lex(value, <<why>>, upper) EXCEPT !.err = TRUE]

Starts == [pc |-> "reading", str |-> <<>>, com |-> <<>>, quote |-> FALSE, escape |-> FALSE,
           space |-> FALSE, commt |-> FALSE, rrtype |-> FALSE, owner |-> TRUE, brace |-> 0,
           value |-> "EOF", upper |-> <<>>]

LexInit(zone) == text = zone /\ lx = Starts /\ out = <<>> /\ c = <<>>

-----------------------------------------------------------------------------
(* str[stri] = x. The array is full before the length is found too large,  *)
(* and then the program ends.                                              *)
Put(l, x) ==
    IF Len(l.str) = MaxTok THEN [l EXCEPT !.pc = "crashed"] ELSE [l EXCEPT !.str = Append(@, x)]

PutComment(l, x) ==
    IF Len(l.com) = MaxTok THEN [l EXCEPT !.pc = "crashed"] ELSE [l EXCEPT !.com = Append(@, x)]

(* One symbol is done: the lexer's variables, and the tokens to send.      *)
Took(next, tokens) ==
    /\ lx' = IF tokens = <<>> THEN next ELSE [next EXCEPT !.value = Last(tokens).value,
                                                         !.upper = Last(tokens).upper]
    /\ out' = tokens
    /\ text' = Tail(text)
    /\ UNCHANGED c

Reads(x) == lx.pc = "reading" /\ out = <<>> /\ text # <<>> /\ Head(text) = x

(* What was gathered, as a string nobody looked up.                        *)
Rest == IF lx.str = <<>> THEN <<>> ELSE <<Lex("String", lx.str, lx.upper)>>

Directive == ("$TTL" :> "DirTtl") @@ ("$ORIGIN" :> "DirOrigin") @@ ("$INCLUDE" :> "DirInclude")

(* The first word of a line that a space follows.                          *)
Owner ==
    Lex(IF Len(lx.str) = 1 /\ lx.str[1] \in DOMAIN Directive THEN Directive[lx.str[1]] ELSE "Owner",
        lx.str, lx.str)

(* Another word. Before the type of the line was seen it is looked up as a *)
(* type and as a class, which wins.                                        *)
Word(token) ==
    IF lx.rrtype THEN Lex("String", token, token)
    ELSE IF Spells(token, "unknown") THEN LexError("String", Spelt(token, "unknown"), token)
    ELSE IF Spells(token, "class") THEN Lex("Class", token, token)
    ELSE IF Spells(token, "type") \/ Spells(token, "typexx") THEN Lex("Rrtpe", token, token)
    ELSE Lex("String", token, token)

-----------------------------------------------------------------------------
(* A space ends a word. Escaped or quoted it belongs to it. Only the first *)
(* of several makes a token.                                               *)
Blank ==
    /\ Reads(" ")
    /\ IF lx.escape \/ lx.quote THEN Took(Put([lx EXCEPT !.escape = FALSE], " "), <<>>)
       ELSE IF lx.commt THEN Took(PutComment(lx, " "), <<>>)
       ELSE LET word  == IF lx.owner THEN Owner ELSE Word(lx.str)
                words == IF lx.str = <<>> THEN <<>> ELSE <<word>>
                blank == IF lx.space THEN <<>>
                         ELSE <<Lex("Blank", <<" ">>, IF words = <<>> THEN lx.upper ELSE word.upper)>>
                next  == [lx EXCEPT !.str = <<>>, !.owner = FALSE, !.space = TRUE,
                                    !.rrtype = @ \/ (words # <<>> /\ ~lx.owner /\ Spells(lx.str, "type"))]
            IN  IF words # <<>> /\ word.err THEN Took([next EXCEPT !.pc = "done"], words)
                ELSE Took(next, words \o blank)

Semicolon ==
    /\ Reads(";")
    /\ IF lx.escape \/ lx.quote THEN Took(Put([lx EXCEPT !.escape = FALSE], ";"), <<>>)
       ELSE Took(PutComment([lx EXCEPT !.str = <<>>, !.commt = TRUE], ";"), Rest)

CarriageReturn ==
    /\ Reads("\r")
    /\ LET next == [lx EXCEPT !.escape = FALSE]
       IN  Took(IF lx.quote THEN Put(next, "\r") ELSE next, <<>>)

(* The word before the end of a line may be its type.                      *)
LastWord ==
    IF lx.str = <<>> THEN <<>>
    ELSE <<Lex(IF ~lx.rrtype /\ Spells(lx.str, "type") THEN "Rrtpe" ELSE "String", lx.str, lx.str)>>

LineEnds == [lx EXCEPT !.escape = FALSE, !.str = <<>>, !.com = <<>>, !.commt = FALSE,
                       !.rrtype = FALSE, !.owner = TRUE]

(* Within braces a line goes on: after a comment, which becomes part of    *)
(* one comment, the type is looked for again; without one nothing is done, *)
(* not even between two words.                                             *)
Newline ==
    /\ Reads("\n")
    /\ LET plain == [lx EXCEPT !.escape = FALSE]
           newline(upper) == Lex("Newline", <<"\n">>, upper)
       IN  IF lx.quote THEN Took(Put(plain, "\n"), <<>>)
           ELSE IF lx.commt /\ lx.brace = 0
           THEN Took(LineEnds, <<[newline(lx.upper) EXCEPT !.comment = lx.com]>>)
           ELSE IF lx.commt
           THEN Took(PutComment([plain EXCEPT !.commt = FALSE, !.rrtype = FALSE, !.str = <<>>], " "), <<>>)
           ELSE IF lx.brace = 0
           THEN Took(LineEnds, LastWord \o <<newline(IF lx.str = <<>> THEN lx.upper ELSE lx.str)>>)
           ELSE Took(plain, <<>>)

Backslash ==
    /\ Reads("\\")
    /\ Took(IF lx.commt THEN PutComment(lx, "\\") ELSE Put([lx EXCEPT !.escape = ~@], "\\"), <<>>)

Quote ==
    /\ Reads("\"")
    /\ IF lx.commt THEN Took(PutComment(lx, "\""), <<>>)
       ELSE IF lx.escape THEN Took(Put([lx EXCEPT !.escape = FALSE], "\""), <<>>)
       ELSE Took([lx EXCEPT !.space = FALSE, !.str = <<>>, !.quote = ~@],
                 Append(Rest, Lex("Quote", <<"\"">>, lx.upper)))

Brace(x) ==
    /\ Reads(x)
    /\ IF lx.commt THEN Took(PutComment(lx, x), <<>>)
       ELSE IF lx.escape \/ lx.quote THEN Took(Put([lx EXCEPT !.escape = FALSE], x), <<>>)
       ELSE IF x = "(" THEN Took([lx EXCEPT !.brace = @ + 1], <<>>)
       ELSE IF lx.brace = 0
       THEN Took([lx EXCEPT !.pc = "done"], <<LexError(lx.value, "extra closing brace", lx.upper)>>)
       ELSE Took([lx EXCEPT !.brace = @ - 1], <<>>)

Other ==
    /\ text # <<>> /\ Head(text) \notin Special
    /\ Reads(Head(text))
    /\ LET next == [lx EXCEPT !.escape = FALSE]
       IN  Took(IF lx.commt THEN PutComment(next, Head(text))
                ELSE [Put(next, Head(text)) EXCEPT !.space = FALSE], <<>>)

(* The text ends, wherever it is.                                          *)
EndOfText ==
    /\ lx.pc = "reading" /\ out = <<>> /\ text = <<>>
    /\ out' = Rest
    /\ lx' = [lx EXCEPT !.pc = "done"]
    /\ UNCHANGED <<text, c>>

Send ==
    /\ lx.pc # "crashed" /\ out # <<>> /\ Len(c) < Capacity
    /\ c' = Append(c, Head(out))
    /\ out' = Tail(out)
    /\ UNCHANGED <<text, lx>>

LexNext == \/ Blank \/ Semicolon \/ CarriageReturn \/ Newline \/ Backslash \/ Quote
           \/ Brace("(") \/ Brace(")") \/ Other \/ EndOfText \/ Send

(* close(c) is deferred: it is due when the last token was sent.           *)
Closed == lx.pc = "done" /\ out = <<>>
=============================================================================
