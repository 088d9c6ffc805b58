----------------------------- MODULE Arguments -----------------------------
(***************************************************************************)
(* What the host and a create() function exchange: PluginArguments, a      *)
(* sequence of AnyRef, and a PluginErrorCallback.                          *)
(***************************************************************************)
EXTENDS StatusCodes, Sequences

\* AnyRef: a pointer, the type it had without its qualifiers, and these
AnyRef(type, qualifiers) == [type |-> type, qualifiers |-> qualifiers]

\* isOfType<T>(): T keeps the qualifiers, may add others, and has the same type name
IsOfType(ref, type, qualifiers) ==
  ref.qualifiers \subseteq qualifiers /\ ref.type = type

\* get<I, T>(), which throws if there is no I-th argument or it is none of T
CanGet(arguments, i, type, qualifiers) ==
  i \in DOMAIN arguments /\ IsOfType(arguments[i], type, qualifiers)

\* PluginErrorCallback: its m_code, and what m_exception holds
NoError == [code |-> B4BError(ok), exception |-> "empty"]

\* The bug this would be: the message, which may throw, is assigned before the code
Reported_messageFirst(callback, code, memory) ==
  IF memory THEN [code |-> code, exception |-> "given"] ELSE callback

\* operator(): the code is there even if the copy of the message cannot be made
Reported(callback, code, memory) ==
  [code |-> code, exception |-> IF memory THEN "given" ELSE callback.exception]
=============================================================================
