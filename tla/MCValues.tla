------------------------------ MODULE MCValues ------------------------------
(* Versions with and without revisions, negative ones of both kinds; texts *)
(* of an upper and a lower case letter, one that is negative as a char     *)
(* (a byte of UTF-8), and a comma.                                         *)
EXTENDS Values

MCRevisions == {-32768, -1, 0, 1, 32767}
MCChars == {-61, 44, 65, 97}
=============================================================================
