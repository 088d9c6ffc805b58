--------------------------- MODULE Values_proofs ---------------------------
(***************************************************************************)
(* The orders and equivalences of Values, for every status, version and    *)
(* text. What a recursive definition computes is proved with sets of       *)
(* numbers: one that holds 0 and the next of each of its members holds     *)
(* them all, which is because < is well-founded.                           *)
(***************************************************************************)
EXTENDS Values, WellFoundedInduction, FiniteSetTheorems, SequenceTheorems, TLAPS

(* Equality of versions is equality of rank, and no two of ==, < and >     *)
(* hold together: the conversion of a negative revision to an unsigned     *)
(* number exceeds every other one.                                         *)
LEMMA EqualsIsSameRank ==
  ASSUME NEW x \in Versions(Numbers, Revisions), NEW y \in Versions(Numbers, Revisions)
  PROVE  /\ Comparable(x, y)
              => (VersionEquals(x, y) <=> SameRank(x, y)) /\ (VersionLess(x, y) <=> RankedBefore(x, y))
         /\ VersionEquals(x, y) \/ VersionLess(x, y) \/ VersionLess(y, x)
         /\ ~(VersionEquals(x, y) /\ VersionLess(x, y))
         /\ ~(VersionEquals(x, y) /\ VersionLess(y, x))
         /\ ~(VersionLess(x, y) /\ VersionLess(y, x))
<1>1. /\ x.major \in Numbers /\ x.minor \in Numbers /\ x.revision \in Revisions
      /\ y.major \in Numbers /\ y.minor \in Numbers /\ y.revision \in Revisions
  BY DEF Versions
<1>2. /\ x.major \in Int /\ x.minor \in Int /\ y.major \in Int /\ y.minor \in Int
      /\ x.revision \in Int /\ -32768 <= x.revision /\ x.revision < 32768
      /\ y.revision \in Int /\ -32768 <= y.revision /\ y.revision < 32768
  BY <1>1, PartsAssumption
<1>3. ASSUME NEW r \in Int, -32768 <= r, r < 32768
      PROVE  r % 65536 = IF r > -1 THEN r ELSE r + 65536
  BY <1>3
<1>4. /\ Revision(x) = IF HasRevision(x) THEN x.revision ELSE x.revision + 65536
      /\ Revision(y) = IF HasRevision(y) THEN y.revision ELSE y.revision + 65536
  BY <1>2, <1>3 DEF Revision, HasRevision
<1>5. Comparable(x, y) => (VersionEquals(x, y) <=> SameRank(x, y))
  BY <1>2, <1>4 DEF Comparable, VersionEquals, SameRank, HasRevision
<1>6. Comparable(x, y) => (VersionLess(x, y) <=> RankedBefore(x, y))
  BY <1>2, <1>4 DEF Comparable, VersionLess, RankedBefore, HasRevision
<1>7. /\ VersionEquals(x, y) \/ VersionLess(x, y) \/ VersionLess(y, x)
      /\ ~(VersionEquals(x, y) /\ VersionLess(x, y))
      /\ ~(VersionEquals(x, y) /\ VersionLess(y, x))
      /\ ~(VersionLess(x, y) /\ VersionLess(y, x))
  BY <1>2, <1>4 DEF VersionEquals, VersionLess, HasRevision
<1> QED BY <1>5, <1>6, <1>7

(* The two counterpart tables reach only three of B4BError's values.       *)
LEMMA CounterpartsAreB4B ==
  ASSUME NEW category, NEW n \in DOMAIN Counterparts(category)
  PROVE  Counterparts(category)[n] \in {0, 1, 3}
<1>1. CASE category = "VideoSource"
  BY <1>1 DEF Counterparts, VideoSourceCounterpart, ok, unknown, genericError
<1>2. CASE category = "Plugin"
  BY <1>2 DEF Counterparts, PluginCounterpart, ok, unknown, genericError
<1>3. CASE category \notin {"VideoSource", "Plugin"}
  BY <1>3 DEF Counterparts
<1> QED BY <1>1, <1>2, <1>3

(* Equality of a code and a condition is sameness of meaning.              *)
LEMMA EqualsIsSameMeaning ==
  ASSUME NEW a \in Statuses, NEW b \in Statuses
  PROVE  Equals(a, b) <=> SameMeaning(a, b)
<1>1. /\ a = Status(a.category, a.value) /\ b = Status(b.category, b.value)
      /\ a.category \in {"VideoSource", "Plugin", "B4B", "system"}
      /\ b.category \in {"VideoSource", "Plugin", "B4B", "system"}
  BY DEF Statuses, VideoSourceStatuses, PluginStatuses, B4BErrors, VideoSourceStatus,
         PluginStatus, B4BError, Status
<1>2. CASE a.category = b.category
  BY <1>1, <1>2 DEF Equals, CodeEquivalent, ConditionEquivalent, SameMeaning, Status
<1>3. CASE a.category # b.category
  <2> DEFINE A == Counterparts(a.category)
             B == Counterparts(b.category)
             HasA(n) == a.value \in DOMAIN A /\ A[a.value] = n
             HasB(n) == b.value \in DOMAIN B /\ B[b.value] = n
  <2>1. ASSUME NEW n
        PROVE  /\ a = B4BError(n) <=> a.category = "B4B" /\ a.value = n
               /\ b = B4BError(n) <=> b.category = "B4B" /\ b.value = n
    BY <1>1 DEF B4BError, Status
  <2>2. ASSUME NEW n, NEW k
        PROVE  /\ B4BError(n).category = "B4B" /\ B4BError(n).value = n
               /\ B4BError(n) = B4BError(k) <=> n = k
    BY DEF B4BError, Status
  <2>3. ASSUME NEW n
        PROVE  /\ HasA(n) => a.category # "B4B" /\ n \in 0..9
               /\ HasB(n) => b.category # "B4B" /\ n \in 0..9
    <3>1. a.value \in DOMAIN A => A[a.value] \in 0..9
      BY CounterpartsAreB4B
    <3>2. b.value \in DOMAIN B => B[b.value] \in 0..9
      BY CounterpartsAreB4B
    <3>3. DOMAIN Counterparts("B4B") = {}
      BY DEF Counterparts
    <3> QED BY <3>1, <3>2, <3>3
  <2>4. ConditionEquivalent(a, b) <=> a.category = "B4B" /\ HasB(a.value)
    BY <1>3, <2>1 DEF ConditionEquivalent
  <2>5. ASSUME NEW n
        PROVE  ConditionEquivalent(B4BError(n), b) <=>
                 IF b.category = "B4B" THEN n = b.value ELSE HasB(n)
    BY <2>2 DEF ConditionEquivalent
  <2>6. CodeEquivalent(a, b) <=>
          \/ b.category = "B4B" /\ HasA(b.value)
          \/ \E n : HasA(n) /\ HasB(n)
    BY <1>3, <2>1, <2>3, <2>5 DEF CodeEquivalent
  <2>7. SameMeaning(a, b) <=>
          \E n \in 0..9 : /\ (a.category = "B4B" /\ a.value = n) \/ HasA(n)
                          /\ (b.category = "B4B" /\ b.value = n) \/ HasB(n)
    <3>1. a # b
      BY <1>3
    <3>2. ASSUME NEW n
          PROVE  /\ Means(a, n) <=> (a.category = "B4B" /\ a.value = n) \/ HasA(n)
                 /\ Means(b, n) <=> (b.category = "B4B" /\ b.value = n) \/ HasB(n)
      BY <2>1 DEF Means
    <3> HIDE DEF HasA, HasB
    <3> QED BY <1>3, <3>1, <3>2 DEF SameMeaning
  <2> HIDE DEF HasA, HasB
  <2>8. QED
    BY <1>3, <2>3, <2>4, <2>6, <2>7 DEF Equals
<1> QED BY <1>2, <1>3

----------------------------------------------------------------------------
(* Induction: a set with 0 and with the next of each number has them all. *)
LEMMA NaturalsAreReached ==
  ASSUME NEW S, 0 \in S, \A n \in Nat : n \in S => n + 1 \in S
  PROVE  Nat \subseteq S
<1>1. ASSUME NEW T, T \subseteq Nat, T # {}
      PROVE  \E x \in T : \A y \in T : ~(y < x)
  <2>1. \A x, y \in Nat : y < x => <<y, x>> \in OpToRel(<, Nat)
    BY DEF OpToRel
  <2>2. \E x \in T : \A y \in T : <<y, x>> \notin OpToRel(<, Nat)
    BY <1>1, NatLessThanWellFounded, WFMin
  <2> QED BY <1>1, <2>1, <2>2, Zenon
<1>2. SUFFICES ASSUME Nat \ S # {} PROVE FALSE
  OBVIOUS
<1>3. PICK x \in Nat \ S : \A y \in Nat \ S : ~(y < x)
  BY <1>1, <1>2
<1>4. x # 0 /\ x - 1 \in Nat
  BY <1>3
<1> QED BY <1>3, <1>4

(* The n-th member of the range of an increasing sequence is its n-th value. *)
LEMMA NthOfIncreasing ==
  ASSUME NEW N \in Nat, NEW e \in [1..N -> Nat],
         \A m, n \in 1..N : m < n => e[m] < e[n]
  PROVE  LET S == {e[n] : n \in 1..N}
         IN  Cardinality(S) = N /\ \A n \in 1..N : NthOf(S, n) = e[n]
<1> DEFINE S == {e[n] : n \in 1..N}
           upto(n) == {j \in S : j <= e[n]}
<1>1. ASSUME NEW n \in 0..N
      PROVE  Cardinality({e[k] : k \in 1..n}) = n
  <2> DEFINE f == [k \in 1..n |-> e[k]]
             T == {e[k] : k \in 1..n}
  <2>1. f \in Bijection(1..n, T)
    <3>1. f \in [1..n -> T] /\ \A y \in T : \E k \in 1..n : f[k] = y
      OBVIOUS
    <3>2. ASSUME NEW a \in 1..n, NEW b \in 1..n, f[a] = f[b]
          PROVE  a = b
      BY <3>2
    <3> HIDE DEF f, T
    <3> QED BY <3>1, <3>2 DEF Bijection, Injection, Surjection, IsInjective
  <2> HIDE DEF f, T
  <2>2. ExistsBijection(1..n, T)
    BY <2>1 DEF ExistsBijection
  <2>3. Cardinality(T) = n
    BY <2>2, FS_CountingElements
  <2> QED BY <2>3 DEF T
<1>2. ASSUME NEW n \in 1..N
      PROVE  upto(n) = {e[k] : k \in 1..n}
  <2>1. \A k \in 1..N : e[k] <= e[n] <=> k \in 1..n
    OBVIOUS
  <2> QED BY <2>1
<1>3. ASSUME NEW n \in 1..N
      PROVE  Cardinality(upto(n)) = n
  <2>1. n \in 0..N
    OBVIOUS
  <2> HIDE DEF upto
  <2> QED BY <1>1, <1>2, <2>1
<1>4. ASSUME NEW n \in 1..N
      PROVE  NthOf(S, n) = e[n]
  <2>1. e[n] \in S /\ Cardinality(upto(n)) = n
    BY <1>3
  <2>2. ASSUME NEW i \in S, Cardinality({j \in S : j <= i}) = n
        PROVE  i = e[n]
    <3>1. PICK m \in 1..N : i = e[m]
      OBVIOUS
    <3>2. m = n
      BY <1>3, <2>2, <3>1
    <3> QED BY <3>1, <3>2
  <2> HIDE DEF S
  <2> QED BY <2>1, <2>2 DEF NthOf
<1>5. Cardinality(S) = N
  BY <1>1
<1> QED BY <1>4, <1>5

\* s is the beginning of the longer text t
Begins(s, t) == Len(s) < Len(t) /\ \A i \in 1..Len(s) : t[i] = s[i]

\* s with another argument
Joined(sep, s, arg) == s \o <<sep>> \o arg

\* Where the separators of s are
Marks(sep, s) == {i \in 1..Len(s) : s[i] = sep}

\* text[n] is what join() has after n arguments
IsTextOf(text, sep, N, args) ==
  /\ text \in [1..N -> Seq(Int)]
  /\ Join(sep, args) = text[N]
  /\ text[1] = args[1]
  /\ \A n \in 1..N : n < N => text[n + 1] = Joined(sep, text[n], args[n + 1])

\* No argument has a separator
Clean(sep, N, args) == \A m \in 1..N : Marks(sep, args[m]) = {}

\* Each text begins the longer ones, and has its separators after the shorter ones
Growing(text, sep, N, args) ==
  \A n \in 1..N :
    /\ \A m \in 1..N : m < n => Begins(text[m], text[n])
    /\ Clean(sep, N, args) =>
         Marks(sep, text[n]) = {Len(text[m]) + 1 : m \in {k \in 1..N : k < n}}

(* What join() computes: each argument is appended after a separator. *)
LEMMA JoinDef ==
  ASSUME NEW sep \in Int, NEW N \in Nat \ {0}, NEW args \in [1..N -> Seq(Int)]
  PROVE  \E text : IsTextOf(text, sep, N, args)
<1> DEFINE Piece(g, n) == IF n = 1 THEN args[1] ELSE g[n - 1] \o <<sep>> \o args[n]
           IsText(g, n) == g \in [1..n -> Seq(Int)] /\ \A i \in 1..n : g[i] = Piece(g, i)
           Reached == {n \in Nat : n \in 0..N => \E g : IsText(g, n)}
<1>1. \E g : IsText(g, 0)
  <2>1. IsText([i \in 1..0 |-> << >>], 0)
    OBVIOUS
  <2> QED BY <2>1
<1>2. ASSUME NEW n \in Nat, n < N, NEW g, IsText(g, n)
      PROVE  \E h : IsText(h, n + 1)
  <2> DEFINE h == [i \in 1..(n + 1) |-> IF i = n + 1 THEN Piece(g, i) ELSE g[i]]
  <2>1. Piece(g, n + 1) \in Seq(Int)
    <3>1. args[n + 1] \in Seq(Int) /\ <<sep>> \in Seq(Int)
      BY <1>2
    <3>2. CASE n = 0
      BY <3>1, <3>2
    <3>3. CASE n # 0
      <4>1. g[n] \in Seq(Int) /\ n + 1 - 1 = n
        BY <1>2, <3>3
      <4> QED BY <3>1, <3>3, <4>1
    <3> QED BY <3>2, <3>3
  <2>2. h \in [1..(n + 1) -> Seq(Int)]
    <3>1. \A i \in 1..(n + 1) : i # n + 1 => i \in 1..n
      OBVIOUS
    <3> HIDE DEF Piece
    <3> QED BY <1>2, <2>1, <3>1
  <2>3. ASSUME NEW i \in 1..(n + 1)
        PROVE  h[i] = Piece(h, i)
    <3>1. h[i] = Piece(g, i)
      <4> HIDE DEF Piece
      <4> QED BY <1>2
    <3>2. i # 1 => h[i - 1] = g[i - 1]
      <4> HIDE DEF Piece
      <4> QED OBVIOUS
    <3>3. Piece(h, i) = Piece(g, i)
      <4> HIDE DEF h
      <4> QED BY <3>2
    <3> QED BY <3>1, <3>3
  <2>4. IsText(h, n + 1)
    <3> HIDE DEF h, Piece
    <3> QED BY <2>2, <2>3
  <2> QED BY <2>4
<1>3. \E g : IsText(g, N)
  <2> HIDE DEF IsText
  <2>1. 0 \in Reached
    BY <1>1
  <2>2. \A n \in Nat : n \in Reached => n + 1 \in Reached
    BY <1>2
  <2> HIDE DEF Reached
  <2>3. N \in Reached
    BY <2>1, <2>2, NaturalsAreReached
  <2> QED BY <2>3 DEF Reached
<1>4. PICK text : IsText(text, N)
  BY <1>3
<1> DEFINE chosen == CHOOSE g : g = [n \in 1..N |-> Piece(g, n)]
<1>5. chosen = [n \in 1..N |-> Piece(chosen, n)]
  <2>1. text = [n \in 1..N |-> Piece(text, n)]
    <3> HIDE DEF Piece
    <3> QED BY <1>4
  <2> HIDE DEF Piece
  <2> QED BY <2>1
<1>6. Join(sep, args) = chosen[N]
  <2>1. DOMAIN args = 1..N /\ Len(args) = N
    OBVIOUS
  <2> QED BY <2>1 DEF Join
<1>7. \A n \in 1..N : chosen[n] = Piece(chosen, n)
  <2> HIDE DEF Piece, chosen
  <2> QED BY <1>5
<1> HIDE DEF chosen
<1>8. ASSUME NEW n \in 1..N, n < N
      PROVE  chosen[n + 1] = chosen[n] \o <<sep>> \o args[n + 1]
  <2>1. PICK k \in 1..N : k # 1 /\ k = n + 1 /\ k - 1 = n
    BY <1>8
  <2>2. Piece(chosen, k) = chosen[k - 1] \o <<sep>> \o args[k]
    BY <2>1, Zenon
  <2>3. chosen[k] = Piece(chosen, k)
    BY <1>7, Zenon
  <2> HIDE DEF Piece
  <2> QED BY <2>1, <2>2, <2>3, Zenon
<1>9. chosen[1] = args[1]
  <2>1. Piece(chosen, 1) = args[1]
    BY Zenon
  <2> HIDE DEF Piece
  <2> QED BY <1>7, <2>1
<1>10. \A n \in 1..N : chosen[n] \in Seq(Int)
  <2> DEFINE S == {n \in Nat : n \in 1..N => chosen[n] \in Seq(Int)}
  <2>1. 0 \in S
    OBVIOUS
  <2>2. ASSUME NEW n \in Nat, n \in S
        PROVE  n + 1 \in S
    <3>1. ASSUME n + 1 \in 1..N
          PROVE  chosen[n + 1] \in Seq(Int)
      <4>1. args[n + 1] \in Seq(Int) /\ <<sep>> \in Seq(Int)
        BY <3>1
      <4>2. CASE n = 0
        BY <1>9, <4>1, <4>2
      <4>3. CASE n # 0
        <5>1. chosen[n] \in Seq(Int) /\ n + 1 - 1 = n
          BY <2>2, <3>1, <4>3
        <5>2. n \in 1..N /\ n < N
          BY <3>1, <4>3
        <5>3. chosen[n + 1] = chosen[n] \o <<sep>> \o args[n + 1]
          BY <1>8, <5>2, Zenon
        <5> QED BY <4>1, <5>1, <5>3
      <4> QED BY <4>2, <4>3
    <3> QED BY <3>1
  <2> HIDE DEF S
  <2>3. Nat \subseteq S
    BY <2>1, <2>2, NaturalsAreReached
  <2> QED BY <2>3 DEF S
<1>11. chosen \in [1..N -> Seq(Int)]
  <2> HIDE DEF Piece
  <2> QED BY <1>5, <1>10
<1>12. IsTextOf(chosen, sep, N, args)
  BY <1>6, <1>11, <1>8, <1>9, Zenon DEF IsTextOf, Joined
<1> QED BY <1>12, Zenon

(* How one text extends the one before it. *)
LEMMA Extension ==
  ASSUME NEW sep \in Int, NEW s \in Seq(Int), NEW arg \in Seq(Int)
  PROVE  /\ Joined(sep, s, arg) \in Seq(Int)
         /\ Begins(s, Joined(sep, s, arg))
         /\ Len(Joined(sep, s, arg)) = Len(s) + 1 + Len(arg)
         /\ SubSeq(Joined(sep, s, arg), Len(s) + 2, Len(Joined(sep, s, arg))) = arg
         /\ Marks(sep, arg) = {} =>
              Marks(sep, Joined(sep, s, arg)) = Marks(sep, s) \union {Len(s) + 1}
<1> DEFINE t == Joined(sep, s, arg)
           l == Len(s)
           a == Len(arg)
<1>1. /\ t \in Seq(Int) /\ Len(t) = l + 1 + a /\ l \in Nat /\ a \in Nat
      /\ \A i \in 1..l : t[i] = s[i]
      /\ t[l + 1] = sep
      /\ \A i \in 1..a : t[l + 1 + i] = arg[i]
  BY DEF Joined
<1> HIDE DEF t
<1>2. Begins(s, t)
  BY <1>1 DEF Begins
<1>3. SubSeq(t, l + 2, Len(t)) = arg
  <2>1. /\ l + 2 \in 1..(Len(t) + 1) /\ Len(t) \in Nat /\ Len(t) - (l + 2) + 1 = a
        /\ \A i \in 1..a : l + 2 + i - 1 = l + 1 + i
    BY <1>1
  <2>2. SubSeq(t, l + 2, Len(t)) \in Seq(Int)
    BY <1>1, <2>1
  <2>3. Len(SubSeq(t, l + 2, Len(t))) = a
    BY <1>1, <2>1
  <2>4. \A i \in 1..a : SubSeq(t, l + 2, Len(t))[i] = t[l + 1 + i]
    BY <1>1, <2>1
  <2> QED BY <1>1, <2>2, <2>3, <2>4, SeqEqual
<1>4. ASSUME Marks(sep, arg) = {}
      PROVE  Marks(sep, t) = Marks(sep, s) \union {l + 1}
  <2>1. \A i \in 1..a : t[l + 1 + i] = arg[i] /\ arg[i] # sep
    BY <1>1, <1>4 DEF Marks
  <2> HIDE DEF l, a
  <2>2. ASSUME NEW i \in 1..(l + 1 + a), i > l + 1
        PROVE  t[i] # sep
    <3> DEFINE j == i - (l + 1)
    <3>1. j \in 1..a /\ l + 1 + j = i
      BY <1>1, <2>2
    <3> HIDE DEF j
    <3>2. t[l + 1 + j] = arg[j] /\ arg[j] # sep
      BY <2>1, <3>1
    <3> QED BY <3>1, <3>2, Zenon
  <2>3. \A i \in 1..(l + 1 + a) : t[i] = sep <=> (i \in 1..l /\ s[i] = sep) \/ i = l + 1
    <3> TAKE i \in 1..(l + 1 + a)
    <3>1. CASE i \in 1..l
      BY <1>1, <3>1
    <3>2. CASE i = l + 1
      BY <1>1, <3>2
    <3>3. CASE i > l + 1
      BY <1>1, <2>2, <3>3
    <3> QED BY <1>1, <3>1, <3>2, <3>3
  <2>4. l + 1 \in 1..(l + 1 + a) /\ 1..l \subseteq 1..(l + 1 + a)
    BY <1>1
  <2>5. {i \in 1..(l + 1 + a) : t[i] = sep} = {i \in 1..l : s[i] = sep} \union {l + 1}
    BY <2>3, <2>4
  <2> QED BY <1>1, <2>5 DEF Marks, l
<1> QED BY <1>1, <1>2, <1>3, <1>4 DEF t

(* Beginning a text is transitive.                                         *)
LEMMA BeginsTransitive ==
  ASSUME NEW s \in Seq(Int), NEW t \in Seq(Int), NEW u \in Seq(Int), Begins(s, t), Begins(t, u)
  PROVE  Begins(s, u)
<1>1. Len(s) \in Nat /\ Len(t) \in Nat /\ Len(u) \in Nat
  OBVIOUS
<1>2. Len(s) < Len(t) /\ Len(t) < Len(u)
  BY Zenon DEF Begins
<1>3. \A i \in 1..Len(s) : i \in 1..Len(t) /\ t[i] = s[i]
  <2>1. \A i \in 1..Len(s) : i \in 1..Len(t)
    BY <1>1, <1>2
  <2> QED BY <2>1, Zenon DEF Begins
<1>4. \A i \in 1..Len(t) : u[i] = t[i]
  BY Zenon DEF Begins
<1>5. \A i \in 1..Len(s) : u[i] = s[i]
  BY <1>3, <1>4, Zenon
<1>6. Len(s) < Len(u)
  BY <1>1, <1>2
<1> QED BY <1>5, <1>6, Zenon DEF Begins

(* Every text of join() begins the longer ones, and its separators are     *)
(* where an argument was appended, if there are none within the arguments. *)
LEMMA TextsGrow ==
  ASSUME NEW sep \in Int, NEW N \in Nat \ {0}, NEW args \in [1..N -> Seq(Int)],
         NEW text, IsTextOf(text, sep, N, args)
  PROVE  Growing(text, sep, N, args)
<1> DEFINE Grows(n) == \A m \in 1..N : m < n => Begins(text[m], text[n])
           Places(n) == {Len(text[m]) + 1 : m \in {k \in 1..N : k < n}}
           Right(n) == Grows(n) /\ (Clean(sep, N, args) => Marks(sep, text[n]) = Places(n))
           S == {n \in Nat : n \in 1..N => Right(n)}
<1>0. /\ text \in [1..N -> Seq(Int)] /\ text[1] = args[1]
      /\ \A n \in 1..N : n < N => text[n + 1] = Joined(sep, text[n], args[n + 1])
  BY Zenon DEF IsTextOf
<1>1. Right(1)
  <2>1. Grows(1) /\ Places(1) = {}
    OBVIOUS
  <2>2. Clean(sep, N, args) => Marks(sep, text[1]) = {}
    <3>1. 1 \in 1..N
      OBVIOUS
    <3> QED BY <1>0, <3>1, Zenon DEF Clean
  <2> QED BY <2>1, <2>2, Zenon
<1>2. ASSUME NEW n \in 1..N, n < N, Right(n)
      PROVE  Right(n + 1)
  <2>1. /\ n + 1 \in 1..N /\ text[n] \in Seq(Int) /\ args[n + 1] \in Seq(Int)
        /\ text[n + 1] \in Seq(Int)
        /\ \A m \in 1..N : m < n + 1 <=> m < n \/ m = n
    BY <1>0, <1>2
  <2>2. text[n + 1] = Joined(sep, text[n], args[n + 1])
    BY <1>0, <1>2, Zenon
  <2>3. /\ Begins(text[n], text[n + 1])
        /\ Marks(sep, args[n + 1]) = {} =>
             Marks(sep, text[n + 1]) = Marks(sep, text[n]) \union {Len(text[n]) + 1}
    <3> DEFINE t == Joined(sep, text[n], args[n + 1])
    <3>1. /\ Begins(text[n], t)
          /\ Marks(sep, args[n + 1]) = {} =>
               Marks(sep, t) = Marks(sep, text[n]) \union {Len(text[n]) + 1}
      BY <2>1, Extension
    <3> HIDE DEF t
    <3>2. text[n + 1] = t
      BY <2>2 DEF t
    <3> QED BY <3>1, <3>2, Zenon
  <2>4. Grows(n + 1)
    <3> SUFFICES ASSUME NEW m \in 1..N, m < n + 1
                 PROVE  Begins(text[m], text[n + 1])
      OBVIOUS
    <3>1. CASE m = n
      BY <2>3, <3>1, Zenon
    <3>2. CASE m < n
      <4>1. text[m] \in Seq(Int)
        BY <1>0
      <4>2. Begins(text[m], text[n])
        BY <1>2, <3>2, Zenon
      <4> QED BY <2>1, <2>3, <4>1, <4>2, BeginsTransitive, Zenon
    <3> QED BY <2>1, <3>1, <3>2, Zenon
  <2>5. ASSUME Clean(sep, N, args)
        PROVE  Marks(sep, text[n + 1]) = Places(n + 1)
    <3>1. Marks(sep, text[n + 1]) = Places(n) \union {Len(text[n]) + 1}
      BY <1>2, <2>1, <2>3, <2>5, Zenon DEF Clean
    <3>2. Places(n + 1) = Places(n) \union {Len(text[n]) + 1}
      BY <2>1, Zenon
    <3> QED BY <3>1, <3>2, Zenon
  <2> QED BY <2>4, <2>5, Zenon
<1>3. Nat \subseteq S
  <2> HIDE DEF Right
  <2>1. 0 \in S
    OBVIOUS
  <2>2. ASSUME NEW n \in Nat, n \in S
        PROVE  n + 1 \in S
    <3>1. CASE n = 0
      BY <1>1, <3>1
    <3>2. CASE n # 0 /\ n + 1 \in 1..N
      <4>1. n \in 1..N /\ n < N
        BY <3>2
      <4> QED BY <1>2, <2>2, <4>1
    <3> QED BY <3>1, <3>2
  <2> HIDE DEF S
  <2> QED BY <2>1, <2>2, NaturalsAreReached
<1>4. \A n \in 1..N : Right(n)
  <2> HIDE DEF Right
  <2> QED BY <1>3 DEF S
<1> QED BY <1>4, Zenon DEF Growing

(* The end of a text is the same in all texts that it begins. *)
LEMMA EndOfBeginning ==
  ASSUME NEW s \in Seq(Int), NEW t \in Seq(Int), Begins(s, t) \/ s = t, NEW b \in Nat \ {0},
         b <= Len(s) + 1
  PROVE  SubSeq(t, b, Len(s)) = SubSeq(s, b, Len(s))
<1>1. Len(s) \in Nat /\ Len(t) \in Nat /\ Len(s) <= Len(t)
  BY DEF Begins
<1>2. \A i \in 1..Len(s) : t[i] = s[i]
  BY DEF Begins
<1>3. /\ SubSeq(t, b, Len(s)) \in Seq(Int) /\ SubSeq(s, b, Len(s)) \in Seq(Int)
      /\ Len(SubSeq(t, b, Len(s))) = Len(s) - b + 1
      /\ Len(SubSeq(s, b, Len(s))) = Len(s) - b + 1
      /\ \A i \in 1..(Len(s) - b + 1) : /\ SubSeq(t, b, Len(s))[i] = t[b + i - 1]
                                        /\ SubSeq(s, b, Len(s))[i] = s[b + i - 1]
  BY <1>1
<1>4. \A i \in 1..(Len(s) - b + 1) : b + i - 1 \in 1..Len(s)
  BY <1>1
<1> QED BY <1>2, <1>3, <1>4, SeqEqual

\* The texts of a join and the places where they end
Layout(text, sep, N, args) ==
  /\ text \in [1..N -> Seq(Int)]
  /\ Join(sep, args) = text[N]
  /\ \A n \in 1..N : text[n] = text[N] \/ Begins(text[n], text[N])
  /\ \A m, n \in 1..N : m < n => Len(text[m]) < Len(text[n])
  /\ text[1] = args[1]
  /\ \A n \in 1..N : n < N =>
       /\ Len(text[n + 1]) = Len(text[n]) + 1 + Len(args[n + 1])
       /\ SubSeq(text[n + 1], Len(text[n]) + 2, Len(text[n + 1])) = args[n + 1]
  /\ Clean(sep, N, args) =>
       Marks(sep, text[N]) = {Len(text[m]) + 1 : m \in {k \in 1..N : k < N}}

(* A join has such texts. *)
LEMMA JoinGrows ==
  ASSUME NEW sep \in Int, NEW N \in Nat \ {0}, NEW args \in [1..N -> Seq(Int)]
  PROVE  \E text : Layout(text, sep, N, args)
<1>1. PICK text : IsTextOf(text, sep, N, args)
  BY JoinDef
<1>2. /\ text \in [1..N -> Seq(Int)] /\ text[1] = args[1]
      /\ Join(sep, args) = text[N]
      /\ \A n \in 1..N : n < N => text[n + 1] = Joined(sep, text[n], args[n + 1])
  BY <1>1, Zenon DEF IsTextOf
<1>3. N \in 1..N
  OBVIOUS
<1>0. Growing(text, sep, N, args)
  BY <1>1, TextsGrow
<1>4. \A n \in 1..N :
        /\ \A m \in 1..N : m < n => Begins(text[m], text[n])
        /\ Clean(sep, N, args) =>
             Marks(sep, text[n]) = {Len(text[m]) + 1 : m \in {k \in 1..N : k < n}}
  BY <1>0, Zenon DEF Growing
<1>5. ASSUME NEW n \in 1..N
      PROVE  text[n] = text[N] \/ Begins(text[n], text[N])
  <2>1. n = N \/ n < N
    OBVIOUS
  <2> QED BY <1>3, <1>4, <2>1, Zenon
<1>6. \A m, n \in 1..N : m < n => Len(text[m]) < Len(text[n])
  BY <1>4, Zenon DEF Begins
<1>7. ASSUME NEW n \in 1..N, n < N
      PROVE  /\ Len(text[n + 1]) = Len(text[n]) + 1 + Len(args[n + 1])
             /\ SubSeq(text[n + 1], Len(text[n]) + 2, Len(text[n + 1])) = args[n + 1]
  <2> DEFINE t == Joined(sep, text[n], args[n + 1])
  <2>1. text[n] \in Seq(Int) /\ args[n + 1] \in Seq(Int)
    BY <1>2, <1>7
  <2>2. Len(t) = Len(text[n]) + 1 + Len(args[n + 1]) /\ SubSeq(t, Len(text[n]) + 2, Len(t)) = args[n + 1]
    BY <2>1, Extension
  <2> HIDE DEF t
  <2>3. text[n + 1] = t
    BY <1>2, <1>7 DEF t
  <2> QED BY <2>2, <2>3, Zenon
<1>8. Layout(text, sep, N, args)
  BY <1>2, <1>3, <1>4, <1>5, <1>6, <1>7, Zenon DEF Layout
<1> QED BY <1>8, Zenon

(* Splitting undoes joining, if no argument has a separator. *)
LEMMA SplitJoined ==
  ASSUME NEW sep \in Int, NEW N \in Nat \ {0}, NEW args \in [1..N -> Seq(Int)],
         Clean(sep, N, args)
  PROVE  Split(Join(sep, args), sep) = IF Last(args) = << >> THEN Front(args) ELSE args
<1>0. PICK text : Layout(text, sep, N, args)
  BY JoinGrows
<1> DEFINE j == Join(sep, args)
<1>1. /\ text \in [1..N -> Seq(Int)]
      /\ j = text[N]
      /\ \A n \in 1..N : text[n] = text[N] \/ Begins(text[n], text[N])
      /\ \A m, n \in 1..N : m < n => Len(text[m]) < Len(text[n])
      /\ text[1] = args[1]
      /\ \A n \in 1..N : n < N =>
           /\ Len(text[n + 1]) = Len(text[n]) + 1 + Len(args[n + 1])
           /\ SubSeq(text[n + 1], Len(text[n]) + 2, Len(text[n + 1])) = args[n + 1]
      /\ Marks(sep, text[N]) = {Len(text[m]) + 1 : m \in {k \in 1..N : k < N}}
  BY <1>0, Zenon DEF Layout
<1> HIDE DEF j
<1> DEFINE e == [n \in 1..N |-> Len(text[n]) + 1]
<1>2. \A n \in 1..N : Len(text[n]) \in Nat /\ text[n] \in Seq(Int)
  BY <1>1
<1>3. e \in [1..N -> Nat] /\ \A m, n \in 1..N : m < n => e[m] < e[n]
  BY <1>1, <1>2
<1>4. Ends(j, sep) = {e[n] : n \in 1..N}
  <2>1. j \in Seq(Int) /\ N \in 1..N
    BY <1>1
  <2>2. Ends(j, sep) = Marks(sep, j) \union {Len(j) + 1}
    BY <2>1 DEF Ends, Marks
  <2>3. Ends(j, sep) = {Len(text[m]) + 1 : m \in {k \in 1..N : k < N}} \union {Len(text[N]) + 1}
    BY <1>1, <2>2, Zenon
  <2>4. \A k \in 1..N : k < N \/ k = N
    OBVIOUS
  <2> QED BY <2>1, <2>3, <2>4
<1> HIDE DEF e
<1>5. Cardinality(Ends(j, sep)) = N /\ \A n \in 1..N : NthOf(Ends(j, sep), n) = e[n]
  BY <1>3, <1>4, NthOfIncreasing
<1>6. ASSUME NEW n \in 1..N
      PROVE  SubSeq(j, IF n = 1 THEN 1 ELSE e[n - 1] + 1, e[n] - 1) = args[n]
  <2>1. e[n] - 1 = Len(text[n])
    BY <1>2 DEF e
  <2>2. CASE n = 1
    <3>0. /\ 1 \in 1..N /\ N \in 1..N /\ 1 \in Nat \ {0}
          /\ 1 <= Len(text[1]) + 1
      BY <1>2, <2>2
    <3>1. SubSeq(j, 1, Len(text[1])) = SubSeq(text[1], 1, Len(text[1]))
      BY <1>1, <1>2, <3>0, EndOfBeginning, Zenon
    <3>2. SubSeq(text[1], 1, Len(text[1])) = text[1]
      BY <1>2, <2>2, SubSeqFull
    <3> QED BY <1>1, <2>1, <2>2, <3>1, <3>2
  <2>3. CASE n # 1
    <3> DEFINE m == n - 1
               b == Len(text[m]) + 2
    <3>1. m \in 1..N /\ m < N /\ n = m + 1
      BY <2>3
    <3>2. /\ Len(text[n]) = Len(text[m]) + 1 + Len(args[n])
          /\ SubSeq(text[n], b, Len(text[n])) = args[n]
      <4> HIDE DEF m
      <4> QED BY <1>1, <3>1, Zenon
    <3>3. b \in Nat \ {0} /\ b <= Len(text[n]) + 1 /\ e[m] + 1 = b
      <4>1. Len(text[m]) \in Nat /\ Len(text[n]) \in Nat /\ Len(args[n]) \in Nat
        <5>1. args[n] \in Seq(Int)
          OBVIOUS
        <5> QED BY <1>2, <3>1, <5>1
      <4>2. Len(text[n]) = Len(text[m]) + 1 + Len(args[n])
        BY <3>2, Zenon
      <4>3. e[m] = Len(text[m]) + 1
        BY <3>1, Zenon DEF e
      <4> QED BY <4>1, <4>2, <4>3
    <3>4. SubSeq(j, b, Len(text[n])) = SubSeq(text[n], b, Len(text[n]))
      <4> HIDE DEF b
      <4>1. N \in 1..N
        OBVIOUS
      <4> QED BY <1>1, <1>2, <3>3, <4>1, EndOfBeginning, Zenon
    <3> QED BY <2>1, <2>3, <3>2, <3>3, <3>4, Zenon
  <2> QED BY <2>2, <2>3
<1>7. Tokens(j, sep) = args
  <2>1. Tokens(j, sep) = [n \in 1..N |-> SubSeq(j, IF n = 1 THEN 1 ELSE NthOf(Ends(j, sep), n - 1) + 1,
                                                   NthOf(Ends(j, sep), n) - 1)]
    BY <1>5, Zenon DEF Tokens
  <2>2. ASSUME NEW n \in 1..N
        PROVE  SubSeq(j, IF n = 1 THEN 1 ELSE NthOf(Ends(j, sep), n - 1) + 1,
                         NthOf(Ends(j, sep), n) - 1) = args[n]
    <3>1. n # 1 => n - 1 \in 1..N
      OBVIOUS
    <3>2. /\ n # 1 => NthOf(Ends(j, sep), n - 1) = e[n - 1]
          /\ NthOf(Ends(j, sep), n) = e[n]
      BY <1>5, <3>1, Zenon
    <3>3. (IF n = 1 THEN 1 ELSE NthOf(Ends(j, sep), n - 1) + 1) = (IF n = 1 THEN 1 ELSE e[n - 1] + 1)
      BY <3>2, Zenon
    <3> QED BY <1>6, <3>2, <3>3, Zenon
  <2> QED BY <2>1, <2>2
<1> QED BY <1>7, Zenon DEF Split, j

(* A bounded text and all that is part of it are texts.                    *)
LEMMA PartsAreTexts ==
  /\ \A s \in Texts : s \in Seq(Int) /\ \A i \in DOMAIN s : s[i] \in Chars
  /\ \A s \in Texts : \A a \in 1..(Len(s) + 1), b \in 0..Len(s) : SubSeq(s, a, b) \in Texts
<1>1. \A s : s \in Texts <=> \E m \in 0..MaxLength : s \in [1..m -> Chars]
  BY DEF Texts, BoundedSeq, SeqOf
<1>2. MaxLength \in Nat /\ Chars \subseteq Int
  BY BoundsAssumption, TextAssumption
<1>3. ASSUME NEW s \in Texts
      PROVE  s \in Seq(Int) /\ \A i \in DOMAIN s : s[i] \in Chars
  <2>1. PICK m \in 0..MaxLength : s \in [1..m -> Chars]
    BY <1>1
  <2>2. m \in Nat /\ s \in [1..m -> Int] /\ DOMAIN s = 1..m
    <3>1. m \in Nat /\ DOMAIN s = 1..m
      BY <1>2, <2>1
    <3>2. \A i \in 1..m : s[i] \in Int
      BY <1>2, <2>1, Zenon
    <3>3. s = [i \in 1..m |-> s[i]]
      BY <2>1, Zenon
    <3> QED BY <3>1, <3>2, <3>3, Zenon
  <2>3. s \in Seq(Int)
    BY <2>2
  <2> QED BY <2>1, <2>2, <2>3, Zenon
<1>4. ASSUME NEW s \in Texts, NEW a \in 1..(Len(s) + 1), NEW b \in 0..Len(s)
      PROVE  SubSeq(s, a, b) \in Texts
  <2>1. PICK m \in 0..MaxLength : s \in [1..m -> Chars]
    BY <1>1
  <2>2. m \in Nat /\ Len(s) = m /\ s \in Seq(Chars)
    BY <1>2, <2>1
  <2> DEFINE l == IF a <= b THEN b - a + 1 ELSE 0
  <2>3. l \in 0..MaxLength /\ SubSeq(s, a, b) \in [1..l -> Chars]
    <3>1. l \in 0..m
      BY <2>2
    <3>2. CASE a <= b
      <4>1. \A i \in 1..l : a + i - 1 \in 1..m
        BY <2>2, <3>2
      <4>2. \A i \in 1..l : s[a + i - 1] \in Chars
        BY <2>1, <4>1
      <4>3. SubSeq(s, a, b) = [i \in 1..l |-> s[a + i - 1]]
        BY <2>2, <3>2
      <4>4. SubSeq(s, a, b) \in [1..l -> Chars]
        <5> HIDE DEF l
        <5> QED BY <4>2, <4>3
      <4>5. l \in 0..MaxLength
        <5> HIDE DEF l
        <5> QED BY <1>2, <3>1
      <4> QED BY <4>4, <4>5
    <3>3. CASE ~(a <= b)
      <4>1. l = 0 /\ SubSeq(s, a, b) = << >> /\ 0 \in 0..MaxLength
        BY <1>2, <2>2, <3>3
      <4> QED BY <4>1
    <3> QED BY <3>2, <3>3
  <2> HIDE DEF l
  <2> QED BY <1>1, <2>3
<1> QED BY <1>3, <1>4

(* A join begins with its first argument and ends with its last one.       *)
LEMMA JoinedEnds ==
  ASSUME NEW sep \in Int, NEW N \in Nat \ {0}, NEW args \in [1..N -> Seq(Int)]
  PROVE  /\ Join(sep, args) \in Seq(Int)
         /\ args[1] = Join(sep, args) \/ Begins(args[1], Join(sep, args))
         /\ EndsWith(Join(sep, args), args[N])
<1>0. PICK text : Layout(text, sep, N, args)
  BY JoinGrows
<1> DEFINE j == Join(sep, args)
<1>1. /\ text \in [1..N -> Seq(Int)] /\ j = text[N] /\ text[1] = args[1]
      /\ \A n \in 1..N : text[n] = text[N] \/ Begins(text[n], text[N])
      /\ \A n \in 1..N : n < N =>
           /\ Len(text[n + 1]) = Len(text[n]) + 1 + Len(args[n + 1])
           /\ SubSeq(text[n + 1], Len(text[n]) + 2, Len(text[n + 1])) = args[n + 1]
  BY <1>0, Zenon DEF Layout
<1> HIDE DEF j
<1>2. 1 \in 1..N /\ N \in 1..N
  OBVIOUS
<1>3. j \in Seq(Int) /\ (args[1] = j \/ Begins(args[1], j))
  BY <1>1, <1>2
<1>4. CASE N = 1
  <2>1. j = args[N]
    BY <1>1, <1>4, Zenon
  <2>2. SubSeq(j, Len(j) - Len(j) + 1, Len(j)) = j
    BY <1>3, SubSeqFull
  <2> QED BY <1>3, <2>1, <2>2 DEF EndsWith, j
<1>5. CASE N # 1
  <2> DEFINE n == N - 1
  <2>1. n \in 1..N /\ n < N /\ N = n + 1
    BY <1>5
  <2> HIDE DEF n
  <2>2. /\ Len(j) = Len(text[n]) + 1 + Len(args[N])
        /\ SubSeq(j, Len(text[n]) + 2, Len(j)) = args[N]
    BY <1>1, <2>1, Zenon
  <2>3. Len(text[n]) \in Nat /\ Len(args[N]) \in Nat
    <3>1. text[n] \in Seq(Int) /\ args[N] \in Seq(Int)
      BY <1>1, <1>2, <2>1
    <3> QED BY <3>1
  <2>4. Len(j) >= Len(args[N]) /\ Len(j) - Len(args[N]) + 1 = Len(text[n]) + 2
    <3>1. Len(j) = Len(text[n]) + 1 + Len(args[N])
      BY <2>2, Zenon
    <3>2. ASSUME NEW a \in Nat, NEW b \in Nat, NEW c, c = a + 1 + b
          PROVE  c >= b /\ c - b + 1 = a + 2
      BY <3>2
    <3> QED BY <2>3, <3>1, <3>2, Zenon
  <2> QED BY <1>3, <2>2, <2>4 DEF EndsWith, j
<1> QED BY <1>3, <1>4, <1>5 DEF j

(* What begins a text and is not longer than one of its beginnings begins  *)
(* that one.                                                               *)
LEMMA ShortBeginnings ==
  ASSUME NEW j \in Seq(Int), NEW s \in Texts, s = j \/ Begins(s, j)
  PROVE  {t \in {u \in Texts : StartsWith(j, u)} : Len(t) <= Len(s)} = Prefixes(s)
<1>1. s \in Seq(Int) /\ Len(s) \in Nat /\ Len(j) \in Nat /\ Len(s) <= Len(j)
  BY PartsAreTexts DEF Begins
<1>2. \A i \in 1..Len(s) : j[i] = s[i]
  BY DEF Begins
<1>3. ASSUME NEW l \in 0..Len(s)
      PROVE  SubSeq(j, 1, l) = SubSeq(s, 1, l) /\ Len(SubSeq(s, 1, l)) = l
  <2>1. /\ SubSeq(j, 1, l) \in Seq(Int) /\ SubSeq(s, 1, l) \in Seq(Int)
        /\ Len(SubSeq(j, 1, l)) = l /\ Len(SubSeq(s, 1, l)) = l
        /\ \A i \in 1..l : SubSeq(j, 1, l)[i] = j[i] /\ SubSeq(s, 1, l)[i] = s[i]
    BY <1>1
  <2> QED BY <1>1, <1>2, <2>1, SeqEqual
<1>4. ASSUME NEW t \in Texts, StartsWith(j, t), Len(t) <= Len(s)
      PROVE  t \in Prefixes(s)
  <2>1. Len(t) \in 0..Len(s)
    BY <1>1, <1>4, PartsAreTexts
  <2>2. t = SubSeq(s, 1, Len(t))
    BY <1>3, <1>4, <2>1 DEF StartsWith
  <2> QED BY <2>1, <2>2 DEF Prefixes
<1>5. ASSUME NEW t \in Prefixes(s)
      PROVE  t \in Texts /\ StartsWith(j, t) /\ Len(t) <= Len(s)
  <2>1. PICK l \in 0..Len(s) : t = SubSeq(s, 1, l)
    BY DEF Prefixes
  <2>2. Len(t) = l /\ SubSeq(j, 1, l) = t
    BY <1>3, <2>1
  <2>3. 1 \in 1..(Len(s) + 1)
    BY <1>1
  <2>4. t \in Texts
    BY <2>1, <2>3, PartsAreTexts
  <2> QED BY <1>1, <2>2, <2>4 DEF StartsWith
<1> QED BY <1>4, <1>5

(* The same at the end.                                                    *)
LEMMA ShortEndings ==
  ASSUME NEW j \in Seq(Int), NEW s \in Texts, EndsWith(j, s)
  PROVE  {t \in {u \in Texts : EndsWith(j, u)} : Len(t) <= Len(s)} = Suffixes(s)
<1> DEFINE End(u, k) == SubSeq(u, Len(u) - k + 1, Len(u))
<1>1. /\ s \in Seq(Int) /\ Len(s) \in Nat /\ Len(j) \in Nat /\ Len(s) <= Len(j)
      /\ s = End(j, Len(s))
  BY PartsAreTexts DEF EndsWith
<1>2. \A i \in 1..Len(s) : s[i] = j[Len(j) - Len(s) + i]
  <2>1. \A i \in 1..Len(s) : End(j, Len(s))[i] = j[Len(j) - Len(s) + i]
    BY <1>1
  <2> HIDE DEF End
  <2> QED BY <1>1, <2>1
<1>3. ASSUME NEW k \in 0..Len(s)
      PROVE  End(j, k) = End(s, k) /\ Len(End(s, k)) = k
  <2>1. /\ End(j, k) \in Seq(Int) /\ End(s, k) \in Seq(Int)
        /\ Len(End(j, k)) = k /\ Len(End(s, k)) = k
        /\ \A i \in 1..k : End(j, k)[i] = j[Len(j) - k + i] /\ End(s, k)[i] = s[Len(s) - k + i]
    <3>1. ASSUME NEW u \in Seq(Int), k <= Len(u)
          PROVE  /\ End(u, k) \in Seq(Int) /\ Len(End(u, k)) = k
                 /\ \A i \in 1..k : End(u, k)[i] = u[Len(u) - k + i]
      <4>1. /\ Len(u) - k + 1 \in 1..(Len(u) + 1) /\ Len(u) \in Nat
            /\ Len(u) - (Len(u) - k + 1) + 1 = k
            /\ \A i \in 1..k : Len(u) - k + 1 + i - 1 = Len(u) - k + i
        BY <1>1, <3>1
      <4>2. SubSeq(u, Len(u) - k + 1, Len(u)) \in Seq(Int)
        BY <4>1
      <4>3. Len(SubSeq(u, Len(u) - k + 1, Len(u))) = k
        BY <4>1
      <4>4. \A i \in 1..k : SubSeq(u, Len(u) - k + 1, Len(u))[i] = u[Len(u) - k + i]
        BY <4>1
      <4> QED BY <4>2, <4>3, <4>4
    <3>2. k <= Len(s) /\ k <= Len(j)
      BY <1>1
    <3> HIDE DEF End
    <3> QED BY <1>1, <3>1, <3>2
  <2> HIDE DEF End
  <2>2. \A i \in 1..k : /\ Len(s) - k + i \in 1..Len(s)
                        /\ Len(j) - Len(s) + (Len(s) - k + i) = Len(j) - k + i
    BY <1>1
  <2>3. \A i \in 1..k : End(j, k)[i] = End(s, k)[i]
    BY <1>2, <2>1, <2>2
  <2> QED BY <2>1, <2>3, SeqEqual
<1>4. ASSUME NEW t \in Texts, EndsWith(j, t), Len(t) <= Len(s)
      PROVE  t \in Suffixes(s)
  <2>1. Len(t) \in 0..Len(s)
    BY <1>1, <1>4, PartsAreTexts
  <2>2. t = End(s, Len(t))
    <3>1. t = End(j, Len(t))
      BY <1>4 DEF EndsWith
    <3> HIDE DEF End
    <3> QED BY <1>3, <2>1, <3>1
  <2>3. CASE Len(t) = 0
    <3>1. t = << >>
      BY <2>3, PartsAreTexts
    <3> QED BY <3>1 DEF Suffixes
  <2>4. CASE Len(t) # 0
    <3>1. Len(s) - Len(t) + 1 \in 1..Len(s)
      BY <1>1, <2>1, <2>4
    <3> QED BY <2>2, <3>1 DEF Suffixes
  <2> QED BY <2>3, <2>4
<1>5. ASSUME NEW t \in Suffixes(s)
      PROVE  t \in Texts /\ EndsWith(j, t) /\ Len(t) <= Len(s)
  <2>1. PICK k \in 0..Len(s) : t = End(s, k)
    <3>1. CASE t = << >>
      <4>1. End(s, 0) = << >> /\ 0 \in 0..Len(s)
        BY <1>1
      <4> QED BY <3>1, <4>1
    <3>2. ASSUME NEW l \in 1..Len(s), t = SubSeq(s, l, Len(s))
          PROVE  \E k \in 0..Len(s) : t = End(s, k)
      <4>1. Len(s) - l + 1 \in 0..Len(s) /\ Len(s) - (Len(s) - l + 1) + 1 = l
        BY <1>1
      <4> QED BY <3>2, <4>1
    <3> QED BY <3>1, <3>2 DEF Suffixes
  <2>2. t = End(j, k) /\ Len(t) = k
    <3> HIDE DEF End
    <3> QED BY <1>3, <2>1
  <2>3. Len(s) - k + 1 \in 1..(Len(s) + 1) /\ Len(s) \in 0..Len(s)
    BY <1>1
  <2>4. t \in Texts
    <3>1. t = SubSeq(s, Len(s) - k + 1, Len(s))
      BY <2>1
    <3> QED BY <2>3, <3>1, PartsAreTexts
  <2>5. k <= Len(s) /\ k <= Len(j)
    BY <1>1
  <2>6. Len(j) >= Len(t) /\ Len(t) <= Len(s)
    <3> HIDE DEF End
    <3> QED BY <1>1, <2>2, <2>5
  <2>7. SubSeq(j, Len(j) - Len(t) + 1, Len(j)) = t
    BY <2>2, Zenon
  <2> QED BY <2>4, <2>6, <2>7, Zenon DEF EndsWith
<1> QED BY <1>4, <1>5

(* Upper and lower case tell the same chars apart, and neither makes an    *)
(* end of a char.                                                          *)
LEMMA CasesAgree ==
  ASSUME NEW c \in Chars, NEW d \in Chars
  PROVE  /\ Upper(c) \in Int /\ Upper(c) # 0
         /\ Upper(c) = Upper(d) <=> Lower(c) = Lower(d)
<1>1. c \in (-128..127) \ {0} /\ d \in (-128..127) \ {0}
  BY TextAssumption
<1> QED BY <1>1 DEF Upper, Lower

\* Where the comparison finds two texts to differ
Differ(x, y) == {i \in DOMAIN x \union DOMAIN y : UpperAt(x, i) # UpperAt(y, i)}

(* A set of places that is not empty has a first one.                      *)
LEMMA FirstExists ==
  ASSUME NEW S, S \subseteq Nat, S # {}
  PROVE  Min(S) \in S
<1> DEFINE T == {n \in Nat : \A k \in Nat : k <= n => k \notin S}
<1>1. SUFFICES ASSUME \A x \in S : \E y \in S : ~(x <= y)
               PROVE  FALSE
  BY DEF Min
<1>2. 0 \in T
  <2>1. 0 \notin S
    BY <1>1
  <2> QED BY <2>1
<1>3. ASSUME NEW n \in Nat, n \in T
      PROVE  n + 1 \in T
  <2>1. \A k \in Nat : k <= n => k \notin S
    BY <1>3
  <2>2. n + 1 \notin S
    BY <1>1, <2>1
  <2>3. \A k \in Nat : k <= n + 1 => k <= n \/ k = n + 1
    OBVIOUS
  <2> QED BY <2>1, <2>2, <2>3
<1>4. \A n \in Nat : n \in T
  <2> HIDE DEF T
  <2> QED BY <1>2, <1>3, NaturalsAreReached
<1>5. ASSUME NEW n \in S
      PROVE  FALSE
  <2>1. n \in Nat /\ n <= n
    BY <1>5
  <2> QED BY <1>4, <2>1, Zenon
<1> QED BY <1>5

(* Two texts differ nowhere exactly if they are equal in upper case, and   *)
(* then in lower case; a text that is longer differs where it goes on.     *)
LEMMA NowhereDiffers ==
  ASSUME NEW x \in Texts, NEW y \in Texts
  PROVE  /\ Differ(x, y) = {} <=> ToUpperCase(x) = ToUpperCase(y)
         /\ Differ(x, y) = {} <=> ToLowerCase(x) = ToLowerCase(y)
<1>1. /\ x \in Seq(Int) /\ DOMAIN x = 1..Len(x) /\ Len(x) \in Nat
      /\ y \in Seq(Int) /\ DOMAIN y = 1..Len(y) /\ Len(y) \in Nat
      /\ \A i \in 1..Len(x) : x[i] \in Chars
      /\ \A i \in 1..Len(y) : y[i] \in Chars
  BY PartsAreTexts
<1> DEFINE Same == Len(x) = Len(y) /\ \A i \in 1..Len(x) : Upper(x[i]) = Upper(y[i])
<1>2. ASSUME Differ(x, y) = {}
      PROVE  Same
  <2>1. \A i \in 1..Len(x) \union 1..Len(y) : UpperAt(x, i) = UpperAt(y, i)
    BY <1>1, <1>2 DEF Differ
  <2>2. ~(Len(x) < Len(y))
    <3>1. SUFFICES ASSUME Len(x) < Len(y)
                   PROVE  FALSE
      OBVIOUS
    <3>2. Len(y) \in 1..Len(y) /\ ~(Len(y) <= Len(x)) /\ Len(y) <= Len(y)
      BY <1>1, <3>1
    <3>3. UpperAt(x, Len(y)) = 0 /\ UpperAt(y, Len(y)) = Upper(y[Len(y)])
      BY <3>2, Zenon DEF UpperAt
    <3>4. Upper(y[Len(y)]) # 0
      BY <1>1, <3>2, CasesAgree, Zenon
    <3> QED BY <2>1, <3>2, <3>3, <3>4
  <2>3. ~(Len(y) < Len(x))
    <3>1. SUFFICES ASSUME Len(y) < Len(x)
                   PROVE  FALSE
      OBVIOUS
    <3>2. Len(x) \in 1..Len(x) /\ ~(Len(x) <= Len(y)) /\ Len(x) <= Len(x)
      BY <1>1, <3>1
    <3>3. UpperAt(y, Len(x)) = 0 /\ UpperAt(x, Len(x)) = Upper(x[Len(x)])
      BY <3>2, Zenon DEF UpperAt
    <3>4. Upper(x[Len(x)]) # 0
      BY <1>1, <3>2, CasesAgree, Zenon
    <3> QED BY <2>1, <3>2, <3>3, <3>4
  <2>4. Len(x) = Len(y)
    <3>1. Len(x) \in Nat /\ Len(y) \in Nat
      BY <1>1, Zenon
    <3> QED BY <2>2, <2>3, <3>1
  <2>5. ASSUME NEW i \in 1..Len(x)
        PROVE  Upper(x[i]) = Upper(y[i])
    <3>1. i <= Len(x) /\ i <= Len(y)
      BY <1>1, <2>4
    <3>2. UpperAt(x, i) = Upper(x[i]) /\ UpperAt(y, i) = Upper(y[i])
      BY <3>1, Zenon DEF UpperAt
    <3> QED BY <2>1, <3>2
  <2> QED BY <2>4, <2>5
<1>3. ASSUME Same
      PROVE  Differ(x, y) = {}
  <2>1. \A i \in 1..Len(x) : i <= Len(x) /\ i <= Len(y)
    BY <1>1, <1>3
  <2>2. \A i \in 1..Len(x) : UpperAt(x, i) = Upper(x[i]) /\ UpperAt(y, i) = Upper(y[i])
    BY <2>1, Zenon DEF UpperAt
  <2>3. \A i \in DOMAIN x \union DOMAIN y : UpperAt(x, i) = UpperAt(y, i)
    BY <1>1, <1>3, <2>2
  <2> QED BY <2>3, Zenon DEF Differ
<1>4. ASSUME NEW a \in Nat, NEW b \in Nat, 1..a = 1..b
      PROVE  a = b
  <2>1. \A i \in Nat \ {0} : i <= a <=> i <= b
    BY <1>4
  <2> QED BY <2>1
<1>5. Same <=> ToUpperCase(x) = ToUpperCase(y)
  <2>1. ASSUME Same
        PROVE  ToUpperCase(x) = ToUpperCase(y)
    BY <1>1, <2>1 DEF ToUpperCase
  <2>2. ASSUME ToUpperCase(x) = ToUpperCase(y)
        PROVE  Same
    <3>1. DOMAIN x = DOMAIN y
      <4>1. DOMAIN ToUpperCase(x) = DOMAIN x /\ DOMAIN ToUpperCase(y) = DOMAIN y
        BY Zenon DEF ToUpperCase
      <4> QED BY <2>2, <4>1, Zenon
    <3>2. Len(x) = Len(y)
      BY <1>1, <1>4, <3>1, Zenon
    <3>3. ASSUME NEW i \in 1..Len(x)
          PROVE  Upper(x[i]) = Upper(y[i])
      <4>1. ToUpperCase(x)[i] = Upper(x[i]) /\ ToUpperCase(y)[i] = Upper(y[i])
        BY <1>1, <3>1, Zenon DEF ToUpperCase
      <4> QED BY <2>2, <4>1, Zenon
    <3> QED BY <3>2, <3>3
  <2> QED BY <2>1, <2>2, Zenon
<1>6. Same <=> ToLowerCase(x) = ToLowerCase(y)
  <2>1. ASSUME Len(x) = Len(y), NEW i \in 1..Len(x)
        PROVE  Upper(x[i]) = Upper(y[i]) <=> Lower(x[i]) = Lower(y[i])
    BY <1>1, <2>1, CasesAgree, Zenon
  <2>2. ASSUME Same
        PROVE  ToLowerCase(x) = ToLowerCase(y)
    <3>1. \A i \in 1..Len(x) : Lower(x[i]) = Lower(y[i])
      BY <2>1, <2>2, Zenon
    <3> QED BY <1>1, <2>2, <3>1 DEF ToLowerCase
  <2>3. ASSUME ToLowerCase(x) = ToLowerCase(y)
        PROVE  Same
    <3>1. DOMAIN x = DOMAIN y
      <4>1. DOMAIN ToLowerCase(x) = DOMAIN x /\ DOMAIN ToLowerCase(y) = DOMAIN y
        BY Zenon DEF ToLowerCase
      <4> QED BY <2>3, <4>1, Zenon
    <3>2. Len(x) = Len(y)
      BY <1>1, <1>4, <3>1, Zenon
    <3>3. ASSUME NEW i \in 1..Len(x)
          PROVE  Upper(x[i]) = Upper(y[i])
      <4>1. ToLowerCase(x)[i] = Lower(x[i]) /\ ToLowerCase(y)[i] = Lower(y[i])
        BY <1>1, <3>1, Zenon DEF ToLowerCase
      <4> QED BY <2>1, <2>3, <3>2, <4>1, Zenon
    <3> QED BY <3>2, <3>3
  <2> QED BY <2>2, <2>3, Zenon
<1> HIDE DEF Same
<1> QED BY <1>2, <1>3, <1>5, <1>6, Zenon

(* The answer of the comparison is 0 exactly if two texts differ nowhere,  *)
(* and turning the comparison round turns it: what is read at the first    *)
(* difference is two different numbers.                                    *)
LEMMA ComparisonTurns ==
  ASSUME NEW x \in Texts, NEW y \in Texts
  PROVE  /\ StrcmpCaseInsensitive(x, y) = 0 <=> Differ(x, y) = {}
         /\ StrcmpCaseInsensitive(x, y) = -StrcmpCaseInsensitive(y, x)
<1> DEFINE first == Min(Differ(x, y))
<1>1. Differ(y, x) = Differ(x, y)
  BY DEF Differ
<1>2. ASSUME NEW s \in Texts, NEW t \in Texts
      PROVE  StrcmpCaseInsensitive(s, t) =
               IF Differ(s, t) = {} THEN 0
               ELSE IF UpperAt(s, Min(Differ(s, t))) < UpperAt(t, Min(Differ(s, t))) THEN -1 ELSE 1
  BY DEF StrcmpCaseInsensitive, Differ
<1>3. CASE Differ(x, y) = {}
  BY <1>1, <1>2, <1>3
<1>4. CASE Differ(x, y) # {}
  <2>1. first \in Differ(x, y)
    <3>1. Differ(x, y) \subseteq Nat
      BY PartsAreTexts DEF Differ
    <3> QED BY <1>4, <3>1, FirstExists
  <2>2. ASSUME NEW s \in Texts, NEW i \in Nat \ {0}
        PROVE  UpperAt(s, i) \in Int
    <3>1. CASE i <= Len(s)
      <4>1. i \in DOMAIN s
        BY <3>1, PartsAreTexts
      <4>2. s[i] \in Chars
        BY <4>1, PartsAreTexts
      <4> QED BY <3>1, <4>2, CasesAgree DEF UpperAt
    <3>2. CASE ~(i <= Len(s))
      BY <3>2 DEF UpperAt
    <3> QED BY <3>1, <3>2
  <2>3. first \in Nat \ {0} /\ UpperAt(x, first) # UpperAt(y, first)
    <3> HIDE DEF first
    <3> QED BY <2>1, PartsAreTexts DEF Differ
  <2>4. UpperAt(x, first) \in Int /\ UpperAt(y, first) \in Int
    BY <2>2, <2>3
  <2>5. /\ StrcmpCaseInsensitive(x, y) = IF UpperAt(x, first) < UpperAt(y, first) THEN -1 ELSE 1
        /\ StrcmpCaseInsensitive(y, x) = IF UpperAt(y, first) < UpperAt(x, first) THEN -1 ELSE 1
    BY <1>1, <1>2, <1>4, Zenon
  <2> HIDE DEF first
  <2> QED BY <1>4, <2>3, <2>4, <2>5
<1> QED BY <1>3, <1>4

----------------------------------------------------------------------------
\* What an answer is: what the function says of the question
AnswerInv ==
  /\ question \in Questions
  /\ Answered("statuses") => answer[1] = Equals(question.left, question.right)
  /\ Answered("versions") =>
       answer[1] = [equal |-> VersionEquals(question.left, question.right),
                    less |-> VersionLess(question.left, question.right),
                    greater |-> VersionGreater(question.left, question.right)]
  /\ Answered("texts") => answer[1] = StrcmpCaseInsensitive(question.left, question.right)
  /\ Answered("arguments") =>
       answer[1] = [tokens |-> Split(Join(Separator, question.left), Separator),
                    starts |-> {text \in Texts :
                                  StartsWithAnyOf(Join(Separator, question.left), {text})},
                    ends |-> {text \in Texts :
                                EndsWithAnyOf(Join(Separator, question.left), {text})}]

(* Every answer is what the compared functions say of its question.        *)
LEMMA Invariance == Spec => []AnswerInv
<1>1. Init => AnswerInv
  BY DEF Init, AnswerInv, Answered
<1>2. AnswerInv /\ [Next]_vars => AnswerInv'
  <2> SUFFICES ASSUME AnswerInv, [Next]_vars
               PROVE  AnswerInv'
    OBVIOUS
  <2> USE DEF AnswerInv, Answered
  <2>1. CASE CompareStatuses
    BY <2>1 DEF CompareStatuses, Answers
  <2>2. CASE CompareVersions
    BY <2>2 DEF CompareVersions, Answers
  <2>3. CASE CompareTexts
    BY <2>3 DEF CompareTexts, Answers
  <2>4. CASE JoinAndSplit
    BY <2>4 DEF JoinAndSplit, Answers
  <2>5. CASE UNCHANGED vars
    BY <2>5 DEF vars
  <2> QED BY <2>1, <2>2, <2>3, <2>4, <2>5 DEF Next
<1> QED BY <1>1, <1>2, PTL DEF Spec

(* The operands of a function are of the kind that it is about.            *)
LEMMA OperandsMatch ==
  ASSUME question \in Questions
  PROVE  /\ question.of = "statuses" => question.left \in Statuses /\ question.right \in Statuses
         /\ question.of = "versions" => /\ question.left \in Versions(Numbers, Revisions)
                                        /\ question.right \in Versions(Numbers, Revisions)
         /\ question.of = "texts" => question.left \in Texts /\ question.right \in Texts
         /\ question.of = "arguments" => question.left \in BoundedSeq(Texts, MaxArguments) \ {<< >>}
<1> DEFINE S == [of : {"statuses"}, left : Statuses, right : Statuses]
           V == [of : {"versions"}, left : Versions(Numbers, Revisions),
                 right : Versions(Numbers, Revisions)]
           T == [of : {"texts"}, left : Texts, right : Texts]
           J == [of : {"arguments"}, left : BoundedSeq(Texts, MaxArguments) \ {<< >>}]
<1>1. question \in S \/ question \in V \/ question \in T \/ question \in J
  BY DEF Questions
<1> QED BY <1>1

(* Two statuses of any of the three domains compare as equal exactly if    *)
(* they are the same or mean the same B4BError, whichever is the code.     *)
THEOREM StatusesAlwaysAgree == Spec => []StatusesAgree
<1>1. AnswerInv => StatusesAgree
  <2> SUFFICES ASSUME AnswerInv, Answered("statuses")
               PROVE  answer[1] = SameMeaning(question.left, question.right)
    BY DEF StatusesAgree
  <2>1. question.left \in Statuses /\ question.right \in Statuses
    BY OperandsMatch DEF AnswerInv, Answered
  <2>2. Equals(question.left, question.right) <=> SameMeaning(question.left, question.right)
    BY <2>1, EqualsIsSameMeaning
  <2>3. Equals(question.left, question.right) = SameMeaning(question.left, question.right)
    BY <2>2 DEF Equals, SameMeaning
  <2> QED BY <2>3 DEF AnswerInv
<1> QED BY <1>1, Invariance, PTL

(* Of any two versions exactly one of ==, < and > holds, which == and <    *)
(* decide by major, minor and revision.                                    *)
THEOREM VersionsAlwaysOrdered == Spec => []VersionsOrdered
<1>1. AnswerInv => VersionsOrdered
  <2> SUFFICES ASSUME AnswerInv, Answered("versions")
               PROVE  VersionsOrdered
    BY DEF VersionsOrdered
  <2> DEFINE x == question.left
             y == question.right
             how == answer[1]
  <2>1. x \in Versions(Numbers, Revisions) /\ y \in Versions(Numbers, Revisions)
    BY OperandsMatch DEF AnswerInv, Answered
  <2>2. how = [equal |-> VersionEquals(x, y), less |-> VersionLess(x, y),
               greater |-> VersionLess(y, x)]
    BY DEF AnswerInv, VersionGreater
  <2>3. /\ Comparable(x, y)
             => (VersionEquals(x, y) <=> SameRank(x, y)) /\ (VersionLess(x, y) <=> RankedBefore(x, y))
        /\ VersionEquals(x, y) \/ VersionLess(x, y) \/ VersionLess(y, x)
        /\ ~(VersionEquals(x, y) /\ VersionLess(x, y))
        /\ ~(VersionEquals(x, y) /\ VersionLess(y, x))
        /\ ~(VersionLess(x, y) /\ VersionLess(y, x))
    BY <2>1, EqualsIsSameRank
  <2>4. /\ (how.equal <=> VersionEquals(x, y)) /\ (how.less <=> VersionLess(x, y))
        /\ (how.greater <=> VersionLess(y, x))
        /\ DOMAIN how = {"equal", "less", "greater"}
    BY <2>2
  <2>5. Comparable(x, y) => (how.equal <=> SameRank(x, y)) /\ (how.less <=> RankedBefore(x, y))
    BY <2>3, <2>4
  <2>6. \E only \in DOMAIN how : \A h \in DOMAIN how : how[h] <=> h = only
    BY <2>3, <2>4
  <2> QED BY <2>5, <2>6, Zenon DEF VersionsOrdered
<1> QED BY <1>1, Invariance, PTL

(* A comparison without case finds any two texts equal exactly if they are *)
(* equal in upper case and in lower case, and turned round it turns its    *)
(* answer, however long the texts are.                                     *)
THEOREM ComparisonAlwaysIgnoresCase == Spec => []ComparisonIgnoresCase
<1>1. AnswerInv => ComparisonIgnoresCase
  <2> SUFFICES ASSUME AnswerInv, Answered("texts")
               PROVE  /\ answer[1] = 0 <=> ToUpperCase(question.left) = ToUpperCase(question.right)
                      /\ answer[1] = 0 <=> ToLowerCase(question.left) = ToLowerCase(question.right)
                      /\ answer[1] = -StrcmpCaseInsensitive(question.right, question.left)
    BY DEF ComparisonIgnoresCase
  <2>1. question.left \in Texts /\ question.right \in Texts
    BY OperandsMatch DEF AnswerInv, Answered
  <2>2. answer[1] = StrcmpCaseInsensitive(question.left, question.right)
    BY DEF AnswerInv
  <2>3. /\ answer[1] = 0 <=> Differ(question.left, question.right) = {}
        /\ answer[1] = -StrcmpCaseInsensitive(question.right, question.left)
    BY <2>1, <2>2, ComparisonTurns, Zenon
  <2> QED BY <2>1, <2>3, NowhereDiffers, Zenon
<1> QED BY <1>1, Invariance, PTL

(* Splitting any joined arguments that have no separator gives them back,  *)
(* but for an empty last one, and the joined text begins with the first of *)
(* any arguments and ends with the last one, and with parts of theirs.     *)
THEOREM SplitAlwaysUndoesJoin == Spec => []SplitUndoesJoin
<1>1. AnswerInv => SplitUndoesJoin
  <2> DEFINE args == question.left
             N == Len(args)
             j == Join(Separator, args)
             short(texts, arg) == {text \in texts : Len(text) <= Len(arg)}
  <2> SUFFICES ASSUME AnswerInv, Answered("arguments")
               PROVE  /\ (\A arg \in ToSet(args) : Separator \notin ToSet(arg)) =>
                           answer[1].tokens = IF Last(args) = << >> THEN Front(args) ELSE args
                      /\ short(answer[1].starts, Head(args)) = Prefixes(Head(args))
                      /\ short(answer[1].ends, Last(args)) = Suffixes(Last(args))
    BY DEF SplitUndoesJoin
  <2>1. /\ answer[1].tokens = Split(j, Separator)
        /\ answer[1].starts = {text \in Texts : StartsWith(j, text)}
        /\ answer[1].ends = {text \in Texts : EndsWith(j, text)}
    BY DEF AnswerInv, StartsWithAnyOf, EndsWithAnyOf
  <2>2. args \in BoundedSeq(Texts, MaxArguments) /\ args # << >>
    BY OperandsMatch DEF AnswerInv, Answered
  <2> HIDE DEF args
  <2>3. PICK n \in 0..MaxArguments : args \in [1..n -> Texts]
    BY <2>2 DEF BoundedSeq, SeqOf
  <2>4. /\ N \in Nat \ {0} /\ args \in [1..N -> Texts] /\ args \in [1..N -> Seq(Int)]
        /\ Separator \in Int
    <3>1. n \in Nat /\ n # 0 /\ DOMAIN args = 1..n
      BY <2>2, <2>3, BoundsAssumption
    <3>2. N = n
      BY <2>3, <3>1
    <3>3. Texts \subseteq Seq(Int)
      BY PartsAreTexts
    <3>4. args \in [1..n -> Seq(Int)]
      BY <2>3, <3>3
    <3> QED BY <2>3, <3>1, <3>2, <3>4, TextAssumption
  <2> HIDE DEF N
  <2>5. 1 \in 1..N /\ N \in 1..N /\ Head(args) = args[1] /\ Last(args) = args[N]
    BY <2>4 DEF N, Last
  <2>6. args[1] \in Texts /\ args[N] \in Texts
    BY <2>4, <2>5, Zenon
  <2>7. ASSUME \A arg \in ToSet(args) : Separator \notin ToSet(arg)
        PROVE  Clean(Separator, N, args)
    <3> SUFFICES ASSUME NEW m \in 1..N
                 PROVE  Marks(Separator, args[m]) = {}
      BY DEF Clean
    <3>1. args[m] \in ToSet(args) /\ args[m] \in Seq(Int)
      BY <2>4 DEF ToSet
    <3>2. \A i \in 1..Len(args[m]) : args[m][i] # Separator
      BY <2>7, <3>1 DEF ToSet
    <3> QED BY <3>2 DEF Marks
  <2>8. (\A arg \in ToSet(args) : Separator \notin ToSet(arg)) =>
          answer[1].tokens = IF Last(args) = << >> THEN Front(args) ELSE args
    BY <2>1, <2>4, <2>7, SplitJoined
  <2>9. j \in Seq(Int) /\ (args[1] = j \/ Begins(args[1], j)) /\ EndsWith(j, args[N])
    BY <2>4, JoinedEnds
  <2> HIDE DEF j
  <2>10. short(answer[1].starts, Head(args)) = Prefixes(Head(args))
    BY <2>1, <2>5, <2>6, <2>9, ShortBeginnings
  <2>11. short(answer[1].ends, Last(args)) = Suffixes(Last(args))
    BY <2>1, <2>5, <2>6, <2>9, ShortEndings
  <2> QED BY <2>8, <2>10, <2>11
<1> QED BY <1>1, Invariance, PTL
=============================================================================
