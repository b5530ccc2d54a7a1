------------------------------ MODULE MCLabels ------------------------------
EXTENDS Labels

\* . \ a t 0 4 6: \046 is a dot, \604 a backslash, \t a tab
MCAlphabet == {46, 92, 97, 116, 48, 52, 54}
=============================================================================
