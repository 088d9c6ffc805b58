-------------------------------- MODULE Text --------------------------------
(***************************************************************************)
(* The functions of utils/string.h on whole strings. A string is a         *)
(* sequence of chars, a char the number a signed char has, 0 ending a C    *)
(* string and in no other place. The conversions of single values to text  *)
(* are left out.                                                           *)
(***************************************************************************)
EXTENDS Integers, Sequences, FiniteSetsExt, SequencesExt

\* toupper and tolower of the C locale
Upper(c) == IF c \in 97..122 THEN c - 32 ELSE c
Lower(c) == IF c \in 65..90 THEN c + 32 ELSE c

\* toUpperCase and toLowerCase
ToUpperCase(str) == [i \in DOMAIN str |-> Upper(str[i])]
ToLowerCase(str) == [i \in DOMAIN str |-> Lower(str[i])]

\* What the comparison reads at i, the end being a 0
UpperAt(str, i) == IF i <= Len(str) THEN Upper(str[i]) ELSE 0

\* The bug this would be: the loop ends with either string
StrcmpCaseInsensitive_untilEither(lhs, rhs) ==
  LET differ == {i \in DOMAIN lhs \intersect DOMAIN rhs : UpperAt(lhs, i) # UpperAt(rhs, i)}
  IN CASE differ = {} -> 0
       [] UpperAt(lhs, Min(differ)) < UpperAt(rhs, Min(differ)) -> -1
       [] OTHER -> 1

\* strcmpCaseInsensitive: by the first place where they differ
StrcmpCaseInsensitive(lhs, rhs) ==
  LET differ == {i \in DOMAIN lhs \union DOMAIN rhs : UpperAt(lhs, i) # UpperAt(rhs, i)}
  IN CASE differ = {} -> 0
       [] differ # {} /\ UpperAt(lhs, Min(differ)) < UpperAt(rhs, Min(differ)) -> -1
       [] OTHER -> 1

\* The places where a token ends
Ends(word, sep) == {i \in DOMAIN word : word[i] = sep} \union {Len(word) + 1}

\* The n-th member of a set of numbers
NthOf(S, n) == CHOOSE i \in S : Cardinality({j \in S : j <= i}) = n

Tokens(word, sep) ==
  [n \in 1..Cardinality(Ends(word, sep)) |->
     SubSeq(word, IF n = 1 THEN 1 ELSE NthOf(Ends(word, sep), n - 1) + 1,
                  NthOf(Ends(word, sep), n) - 1)]

\* The bug this would be: an empty token after the last separator
Split_keepLast(word, sep) == Tokens(word, sep)

\* split(): getLine() gives what is before each separator and what is left after the
\* last one, if that is not empty
Split(word, sep) ==
  IF Last(Tokens(word, sep)) = << >> THEN Front(Tokens(word, sep)) ELSE Tokens(word, sep)

\* join(), of at least one argument: text[n] is the text of the first n
Join(sep, args) ==
  LET text[n \in DOMAIN args] ==
        IF n = 1 THEN args[1] ELSE text[n - 1] \o <<sep>> \o args[n]
  IN text[Len(args)]

StartsWith(str, prefix) ==
  Len(str) >= Len(prefix) /\ SubSeq(str, 1, Len(prefix)) = prefix

EndsWith(str, suffix) ==
  Len(str) >= Len(suffix) /\ SubSeq(str, Len(str) - Len(suffix) + 1, Len(str)) = suffix

StartsWithAnyOf(str, prefixes) == \E prefix \in prefixes : StartsWith(str, prefix)
EndsWithAnyOf(str, suffixes) == \E suffix \in suffixes : EndsWith(str, suffix)
=============================================================================
