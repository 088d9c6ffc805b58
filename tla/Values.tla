------------------------------- MODULE Values -------------------------------
(***************************************************************************)
(* The pure functions of the SDK's interface, asked about values that a    *)
(* host, a plugin or a user may hold: a question is chosen, then answered  *)
(* by the function as the source has it.                                   *)
(***************************************************************************)
EXTENDS StatusCodes, Version, Text

CONSTANTS
  Numbers, Revisions,   \* the parts of versions that are compared
  Chars, Separator,     \* what texts are made of
  MaxLength,            \* how long a text is (bound)
  MaxArguments          \* how many texts are joined (bound)

\* A uint16 and an int16
ASSUME PartsAssumption ==
  /\ \A n \in Numbers : n \in Nat /\ n < 65536
  /\ \A r \in Revisions : r \in Int /\ -32768 <= r /\ r < 32768

\* A text has no 0, which would end it; the separator of split() is a char like others
ASSUME TextAssumption == Chars \subseteq (-128..127) \ {0} /\ Separator \in Chars

ASSUME BoundsAssumption == MaxLength \in Nat /\ MaxArguments \in Nat \ {0}

VARIABLES
  question,   \* a function, and what it is asked about
  answer      \* <<>>, or what it answered

vars == <<question, answer>>

Texts == BoundedSeq(Chars, MaxLength)
Statuses ==
  VideoSourceStatuses \union PluginStatuses \union B4BErrors \union {Status("system", 0)}

Questions ==
  [of : {"statuses"}, left : Statuses, right : Statuses]
    \union [of : {"versions"}, left : Versions(Numbers, Revisions),
            right : Versions(Numbers, Revisions)]
    \union [of : {"texts"}, left : Texts, right : Texts]
    \union [of : {"arguments"}, left : BoundedSeq(Texts, MaxArguments) \ {<< >>}]

Init == question \in Questions /\ answer = << >>

Answers(of, value) ==
  /\ question.of = of /\ answer = << >>
  /\ answer' = <<value>>
  /\ UNCHANGED question

CompareStatuses ==
  Answers("statuses", Equals(question.left, question.right))

CompareVersions ==
  Answers("versions", [equal |-> VersionEquals(question.left, question.right),
                       less |-> VersionLess(question.left, question.right),
                       greater |-> VersionGreater(question.left, question.right)])

CompareTexts ==
  Answers("texts", StrcmpCaseInsensitive(question.left, question.right))

JoinAndSplit ==
  LET joined == Join(Separator, question.left)
  IN Answers("arguments", [tokens |-> Split(joined, Separator),
                           starts |-> {text \in Texts : StartsWithAnyOf(joined, {text})},
                           ends |-> {text \in Texts : EndsWithAnyOf(joined, {text})}])

Next == CompareStatuses \/ CompareVersions \/ CompareTexts \/ JoinAndSplit

Spec == Init /\ [][Next]_vars

Answered(of) == question.of = of /\ answer # << >>

----------------------------------------------------------------------------
(* Comparing a code with a condition does not depend on which of the two   *)
(* is the code nor on the domain a category looks into first: it holds     *)
(* exactly if the two are the same status, or statuses of different        *)
(* domains that mean the same B4BError.                                    *)
StatusesAgree ==
  Answered("statuses") => answer[1] = SameMeaning(question.left, question.right)

(* == and < compare versions by major, minor and revision, two revisions   *)
(* that are not set being the same whatever negative number says so; and   *)
(* of any two versions, exactly one of ==, < and > holds.                  *)
VersionsOrdered ==
  Answered("versions") =>
    /\ Comparable(question.left, question.right) =>
         /\ answer[1].equal <=> SameRank(question.left, question.right)
         /\ answer[1].less <=> RankedBefore(question.left, question.right)
    /\ \E only \in DOMAIN answer[1] : \A how \in DOMAIN answer[1] : answer[1][how] <=> how = only

(* A case-insensitive comparison finds two texts equal exactly if they are *)
(* equal in upper case, although they are of different lengths, and then   *)
(* in lower case; turning it round turns its answer.                       *)
ComparisonIgnoresCase ==
  Answered("texts") =>
    /\ answer[1] = 0 <=> ToUpperCase(question.left) = ToUpperCase(question.right)
    /\ answer[1] = 0 <=> ToLowerCase(question.left) = ToLowerCase(question.right)
    /\ answer[1] = -StrcmpCaseInsensitive(question.right, question.left)

(* Joining keeps every argument in its place: splitting gives them back,   *)
(* but for an empty last one, which is lost, and for separators within the *)
(* arguments; and the text starts with the first of them and all its own   *)
(* beginnings, and with no other text that is not longer, and it ends with *)
(* the last one likewise.                                                  *)
SplitUndoesJoin ==
  Answered("arguments") =>
    LET args == question.left
        tokens == answer[1].tokens
        short(texts, arg) == {text \in texts : Len(text) <= Len(arg)}
    IN /\ (\A arg \in ToSet(args) : Separator \notin ToSet(arg)) =>
            tokens = IF Last(args) = << >> THEN Front(args) ELSE args
       /\ short(answer[1].starts, Head(args)) = Prefixes(Head(args))
       /\ short(answer[1].ends, Last(args)) = Suffixes(Last(args))
=============================================================================
