-------------------------- MODULE MCAnswerQuestion --------------------------
(* Small instances of AnswerQuestion: the types are model values.          *)
EXTENDS AnswerQuestion

CONSTANTS A, TXT, Cname

MCTypes == {A, TXT, Cname}
=============================================================================
