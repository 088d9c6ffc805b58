---------------------------- MODULE StatusCodes ----------------------------
(***************************************************************************)
(* The three error domains of the SDK's interface and the comparison of a  *)
(* std::error_code with a std::error_condition, which is what              *)
(* "status == VideoSourceStatus::success()" is: the standard asks the      *)
(* category of the code and then that of the condition, and those of       *)
(* VideoSourceStatus and PluginStatus answer by way of B4BError.           *)
(* "system" stands for std::system_category(), the category of a code that *)
(* is default constructed; its codes are equivalent only to conditions of  *)
(* the standard, which nothing here compares them with.                    *)
(***************************************************************************)
EXTENDS Naturals

Status(category, value) == [category |-> category, value |-> value]

\* The values that the three headers declare
VideoSourceStatus(value) == Status("VideoSource", value)
PluginStatus(value) == Status("Plugin", value)
B4BError(value) == Status("B4B", value)

VideoSourceStatuses == {VideoSourceStatus(n) : n \in 0..8}
PluginStatuses == {PluginStatus(n) : n \in 0..6}
B4BErrors == {B4BError(n) : n \in 0..9}

\* Where the others have a counterpart in the B4BError domain: success is ok,
\* unknown is unknown, and the errors of no finer kind are genericError
ok == 0
unknown == 1
genericError == 3

\* VideoSourceStatus: error is 4; timeout, overflow and the rest have none
VideoSourceCounterpart ==
  [n \in {0, 1, 4} |-> CASE n = 0 -> ok [] n = 1 -> unknown [] n = 4 -> genericError]

\* PluginStatus: wrongVersion is 2 and invalidName 3
PluginCounterpart ==
  [n \in 0..3 |-> CASE n = 0 -> ok [] n = 1 -> unknown [] n \in {2, 3} -> genericError]

Counterparts(category) ==
  CASE category = "VideoSource" -> VideoSourceCounterpart
    [] category = "Plugin" -> PluginCounterpart
    [] OTHER -> << >>

\* The bug this would be: the category does not override the default equivalence
ConditionEquivalent_default(code, condition) == code = condition

\* category().equivalent(code, condition value), asked of the condition's category
ConditionEquivalent(code, condition) ==
  LET table == Counterparts(condition.category)
  IN IF code.category = condition.category
       THEN code.value = condition.value
       ELSE /\ condition.value \in DOMAIN table
            /\ code = B4BError(table[condition.value])

\* The bug this would be: the condition's own category is not asked for its B4BError
CodeEquivalent_noConverse(code, condition) ==
  LET table == Counterparts(code.category)
  IN IF code.category = condition.category
       THEN code.value = condition.value
       ELSE /\ code.value \in DOMAIN table
            /\ B4BError(table[code.value]) = condition

\* category().equivalent(code value, condition), asked of the code's category; the
\* B4BError it compares with the condition goes to the condition's category in turn
CodeEquivalent(code, condition) ==
  LET table == Counterparts(code.category)
  IN IF code.category = condition.category
       THEN code.value = condition.value
       ELSE /\ code.value \in DOMAIN table
            /\ \/ B4BError(table[code.value]) = condition
               \/ ConditionEquivalent(B4BError(table[code.value]), condition)

\* operator==(const std::error_code&, const std::error_condition&)
Equals(code, condition) ==
  CodeEquivalent(code, condition) \/ ConditionEquivalent(code, condition)

\* "!code": the value alone, whatever the category
IsZero(code) == code.value = 0

----------------------------------------------------------------------------
\* The reference: two statuses are equal when they are the same one, or belong to
\* different domains and mean the same B4BError. A plugin may compare in any order,
\* and a host in any domain, with the same answer.
Means(status, n) ==
  \/ status = B4BError(n)
  \/ LET table == Counterparts(status.category)
     IN status.value \in DOMAIN table /\ table[status.value] = n

SameMeaning(a, b) ==
  \/ a = b
  \/ /\ a.category # b.category
     /\ \E n \in 0..9 : Means(a, n) /\ Means(b, n)
=============================================================================
