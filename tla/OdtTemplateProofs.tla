------------------------- MODULE OdtTemplateProofs -------------------------
(***************************************************************************)
(* Proofs about OdtTemplate: what repeated expansion makes of a flat       *)
(* template of any length, that it uses up the closing markers of any      *)
(* template, and whose document a command leaves behind.                   *)
(*                                                                         *)
(* The induction over texts is stated with sets: a set that holds the      *)
(* empty sequence and is closed under Append holds every sequence.         *)
(***************************************************************************)
EXTENDS OdtTemplate, SequenceTheorems, FiniteSetTheorems, WellFoundedInduction, TLAPS

-----------------------------------------------------------------------------
(* Induction.                                                              *)

\* A set of numbers with zero and the successor of each of its members holds all of
\* them: otherwise the least one that is missing has a predecessor.
LEMMA SetInduction ==
  ASSUME NEW S, 0 \in S, \A n \in Nat : n \in S => n + 1 \in S
  PROVE  \A n \in Nat : n \in S
<1> DEFINE R == OpToRel(<, Nat)
           T == Nat \ S
<1>1. IsWellFoundedOn(R, Nat)
  BY NatLessThanWellFounded
<1>2. CASE T = {}
  BY <1>2
<1>3. CASE T # {}
  <2>1. T \subseteq Nat
    OBVIOUS
  <2>2. PICK x \in T : \A y \in T : ~ (<<y, x>> \in R)
    <3> HIDE DEF R, T
    <3> QED BY <1>1, <1>3, <2>1, WFMin
  <2>3. x \in Nat /\ x # 0
    OBVIOUS
  <2>4. x - 1 \in Nat /\ x - 1 < x /\ (x - 1) + 1 = x
    BY <2>3
  <2>5. x - 1 \notin S
    BY <2>4
  <2>6. <<x - 1, x>> \in R
    BY <2>3, <2>4 DEF OpToRel
  <2> QED BY <2>2, <2>4, <2>5, <2>6
<1> QED BY <1>2, <1>3

\* The least number of a set that is not empty.
LEMMA LeastMember ==
  ASSUME NEW T \in SUBSET Nat, T # {}
  PROVE  \E x \in T : \A y \in T : x <= y
<1> DEFINE R == OpToRel(<, Nat)
<1>1. IsWellFoundedOn(R, Nat)
  BY NatLessThanWellFounded
<1>2. PICK x \in T : \A y \in T : ~ (<<y, x>> \in R)
  <2> HIDE DEF R
  <2> QED BY <1>1, WFMin
<1>3. \A y \in T : ~ (y < x)
  BY <1>2 DEF OpToRel
<1> QED BY <1>3

\* A set that holds the empty sequence and is closed under Append holds every sequence.
LEMMA AppendInduction ==
  ASSUME NEW U, NEW G, <<>> \in G,
         \A s \in Seq(U) : \A x \in U : s \in G => Append(s, x) \in G
  PROVE  \A s \in Seq(U) : s \in G
<1> DEFINE S == {n \in Nat : \A s \in Seq(U) : Len(s) = n => s \in G}
<1>1. 0 \in S
  BY EmptySeq
<1>2. ASSUME NEW n \in Nat, n \in S
      PROVE  n + 1 \in S
  <2> SUFFICES ASSUME NEW s \in Seq(U), Len(s) = n + 1
               PROVE  s \in G
    OBVIOUS
  <2> DEFINE b == SubSeq(s, 1, n)
  <2>1. b \in Seq(U) /\ Len(b) = n /\ s[n + 1] \in U
    OBVIOUS
  <2>2. s = Append(b, s[n + 1])
    OBVIOUS
  <2>3. b \in G
    BY <1>2, <2>1
  <2> HIDE DEF b
  <2> QED BY <2>1, <2>2, <2>3
<1>3. \A n \in Nat : n \in S
  <2> HIDE DEF S
  <2> QED BY <1>1, <1>2, SetInduction
<1> QED BY <1>3

-----------------------------------------------------------------------------
(* FlattenSeq.                                                             *)

\* The function that FlattenSeq defines by recursion: f[i] is the concatenation of the
\* first i sequences of s.
Joins(s, n, f) == f = [i \in 1..n |-> IF i = 1 THEN s[i] ELSE f[i - 1] \o s[i]]

LEMMA JoinsAt ==
  ASSUME NEW s, NEW n \in Nat, NEW f, Joins(s, n, f), NEW i \in 1..n
  PROVE  f[i] = IF i = 1 THEN s[i] ELSE f[i - 1] \o s[i]
<1> DEFINE E(j) == IF j = 1 THEN s[j] ELSE f[j - 1] \o s[j]
<1>1. f = [j \in 1..n |-> E(j)]
  BY Zenon DEF Joins
<1> HIDE DEF E
<1>2. f[i] = E(i)
  BY <1>1
<1> QED BY <1>2 DEF E

LEMMA JoinsFirst ==
  ASSUME NEW s, NEW n \in Nat, NEW f, Joins(s, n, f), NEW i \in 1..n, i = 1
  PROVE  f[i] = s[i]
<1> DEFINE step(j) == f[j - 1] \o s[j]
<1>1. f = [j \in 1..n |-> IF j = 1 THEN s[j] ELSE step(j)]  BY Zenon DEF Joins
<1> HIDE DEF step
<1> QED  BY <1>1

LEMMA JoinsNext ==
  ASSUME NEW s, NEW n \in Nat, NEW f, Joins(s, n, f), NEW i \in 1..n, i # 1
  PROVE  f[i] = f[i - 1] \o s[i]
<1> DEFINE step(j) == f[j - 1] \o s[j]
<1>1. f = [j \in 1..n |-> IF j = 1 THEN s[j] ELSE step(j)]  BY Zenon DEF Joins
<1>2. f[i] = step(i)
  <2> HIDE DEF step
  <2> QED  BY <1>1
<1> QED  BY <1>2

LEMMA JoinsExist ==
  ASSUME NEW s, NEW n \in Nat
  PROVE  \E f : Joins(s, n, f)
<1> DEFINE S == {m \in Nat : \E f : Joins(s, m, f)}
<1>1. 0 \in S
  <2>1. Joins(s, 0, [i \in 1..0 |-> <<>>])
    BY DEF Joins
  <2> QED BY <2>1
<1>2. ASSUME NEW m \in Nat, m \in S
      PROVE  m + 1 \in S
  <2>1. PICK f : Joins(s, m, f)
    BY <1>2
  <2> DEFINE g == [i \in 1..m + 1 |-> IF i <= m THEN f[i]
                                     ELSE IF i = 1 THEN s[i] ELSE f[i - 1] \o s[i]]
  <2>2. Joins(s, m + 1, g)
    <3>1. ASSUME NEW i \in 1..m + 1
          PROVE  g[i] = IF i = 1 THEN s[i] ELSE g[i - 1] \o s[i]
      <4>1. i \in 1..m => f[i] = IF i = 1 THEN s[i] ELSE f[i - 1] \o s[i]
        BY <2>1, JoinsAt
      <4>2. i # 1 => i - 1 \in 1..m + 1 /\ g[i - 1] = f[i - 1]
        OBVIOUS
      <4>3. g[i] = IF i <= m THEN f[i] ELSE IF i = 1 THEN s[i] ELSE f[i - 1] \o s[i]
        OBVIOUS
      <4> HIDE DEF g
      <4> QED BY <4>1, <4>2, <4>3
    <3> DEFINE E(i) == IF i = 1 THEN s[i] ELSE g[i - 1] \o s[i]
    <3>2. g = [i \in 1..m + 1 |-> g[i]]
      OBVIOUS
    <3> HIDE DEF g
    <3>3. [i \in 1..m + 1 |-> g[i]] = [i \in 1..m + 1 |-> E(i)]
      <4> HIDE DEF E
      <4> SUFFICES \A i \in 1..m + 1 : g[i] = E(i)
        OBVIOUS
      <4> QED BY <3>1 DEF E
    <3> QED BY <3>2, <3>3, Zenon DEF Joins
  <2> QED BY <2>2
<1>3. \A m \in Nat : m \in S
  <2> HIDE DEF S
  <2> QED BY <1>1, <1>2, SetInduction
<1> QED BY <1>3

\* Two such functions agree as long as their sequences do.
LEMMA JoinsAgree ==
  ASSUME NEW s, NEW m \in Nat, NEW f, Joins(s, m, f),
         NEW t, NEW n \in Nat, NEW g, Joins(t, n, g),
         m <= n, \A i \in 1..m : s[i] = t[i]
  PROVE  \A i \in 1..m : f[i] = g[i]
<1> DEFINE S == {i \in Nat : i \in 1..m => f[i] = g[i]}
<1>1. 0 \in S
  OBVIOUS
<1>2. ASSUME NEW i \in Nat, i \in S
      PROVE  i + 1 \in S
  <2> SUFFICES ASSUME i + 1 \in 1..m
               PROVE  f[i + 1] = g[i + 1]
    OBVIOUS
  <2> DEFINE j == i + 1
  <2>1. j \in 1..m /\ j \in 1..n /\ j - 1 = i /\ (j # 1 => i \in 1..m)
    OBVIOUS
  <2>2. s[j] = t[j] /\ (j # 1 => f[i] = g[i])
    BY <1>2, <2>1
  <2> HIDE DEF j
  <2>3. f[j] = IF j = 1 THEN s[j] ELSE f[j - 1] \o s[j]
    BY <2>1, JoinsAt
  <2>4. g[j] = IF j = 1 THEN t[j] ELSE g[j - 1] \o t[j]
    BY <2>1, JoinsAt
  <2> QED BY <2>1, <2>2, <2>3, <2>4 DEF j
<1>3. \A i \in Nat : i \in S
  <2> HIDE DEF S
  <2> QED BY <1>1, <1>2, SetInduction
<1> QED BY <1>3

LEMMA FlattenJoins ==
  ASSUME NEW s, Len(s) \in Nat, Len(s) # 0
  PROVE  \E f : Joins(s, Len(s), f) /\ FlattenSeq(s) = f[Len(s)]
<1> DEFINE f == CHOOSE g : Joins(s, Len(s), g)
<1>1. Joins(s, Len(s), f)
  BY JoinsExist
<1>2. FlattenSeq(s) = f[Len(s)]
  BY DEF FlattenSeq, Joins
<1> QED BY <1>1, <1>2

LEMMA FlattenEmpty == FlattenSeq(<<>>) = <<>>
BY DEF FlattenSeq

\* A sequence more is concatenated at the end.
LEMMA FlattenAppend ==
  ASSUME NEW T, NEW s \in Seq(Seq(T)), NEW x \in Seq(T)
  PROVE  FlattenSeq(Append(s, x)) = FlattenSeq(s) \o x
<1> DEFINE t == Append(s, x)
           n == Len(s)
<1>1. n \in Nat /\ Len(t) = n + 1 /\ t[n + 1] = x /\ \A i \in 1..n : t[i] = s[i]
  OBVIOUS
<1>2. PICK g : Joins(t, n + 1, g) /\ FlattenSeq(t) = g[n + 1]
  <2> HIDE DEF t, n
  <2> QED BY <1>1, FlattenJoins
<1>3. CASE n = 0
  <2>1. FlattenSeq(t) = x
    <3>1. 1 \in 1..n + 1 /\ n + 1 = 1
      BY <1>3
    <3> DEFINE m == n + 1
    <3>2. m \in Nat /\ 1 \in 1..m /\ Joins(t, m, g)
      BY <1>1, <1>2, <3>1
    <3> HIDE DEF t, n, m
    <3>3. \A i \in 1..m : i = 1 => g[i] = t[i]
      BY <3>2, JoinsFirst
    <3> USE DEF m
    <3> QED BY <1>1, <1>2, <3>1, <3>3
  <2>2. s = <<>>
    BY <1>3
  <2> QED BY <2>1, <2>2, FlattenEmpty
<1>4. CASE n # 0
  <2>1. PICK f : Joins(s, n, f) /\ FlattenSeq(s) = f[n]
    <3> HIDE DEF t
    <3> QED BY <1>1, <1>4, FlattenJoins
  <2> HIDE DEF t, n
  <2>2. f[n] = g[n]
    BY <1>1, <1>2, <1>4, <2>1, JoinsAgree
  <2>3. g[n + 1] = g[n] \o x
    <3>1. n + 1 \in 1..n + 1 /\ n + 1 # 1 /\ (n + 1) - 1 = n
      BY <1>1, <1>4
    <3> DEFINE m == n + 1
    <3>2. m \in Nat /\ m \in 1..m /\ Joins(t, m, g)
      BY <1>1, <1>2, <3>1
    <3> HIDE DEF m
    <3>3. m # 1 => g[m] = g[m - 1] \o t[m]
      BY <3>2, JoinsNext
    <3> USE DEF m
    <3> QED BY <1>1, <3>1, <3>3
  <2> QED BY <1>2, <2>1, <2>2, <2>3 DEF t
<1> QED BY <1>3, <1>4

LEMMA FlattenType ==
  ASSUME NEW T
  PROVE  \A s \in Seq(Seq(T)) : FlattenSeq(s) \in Seq(T)
<1> DEFINE G == {s \in Seq(Seq(T)) : FlattenSeq(s) \in Seq(T)}
<1>1. <<>> \in G
  <2>1. <<>> \in Seq(Seq(T)) /\ <<>> \in Seq(T)
    BY EmptySeq
  <2> QED BY <2>1, FlattenEmpty
<1>2. ASSUME NEW s \in Seq(Seq(T)), NEW x \in Seq(T), s \in G
      PROVE  Append(s, x) \in G
  <2>1. Append(s, x) \in Seq(Seq(T))
    OBVIOUS
  <2>2. FlattenSeq(s) \o x \in Seq(T)
    BY <1>2
  <2> QED BY <2>1, <2>2, FlattenAppend
<1>3. \A s \in Seq(Seq(T)) : s \in G
  <2> HIDE DEF G
  <2> QED BY <1>1, <1>2, AppendInduction
<1> QED BY <1>3

Cat(a, b) == a \o b

LEMMA CatAssociative ==
  \A T : \A a, b, c \in Seq(T) : Cat(Cat(a, b), c) = Cat(a, Cat(b, c))
<1> SUFFICES ASSUME NEW T, NEW a \in Seq(T), NEW b \in Seq(T), NEW c \in Seq(T)
             PROVE  (a \o b) \o c = a \o (b \o c)
  BY DEF Cat
<1> QED  BY ConcatAssociative, SMT

LEMMA FlattenConcat ==
  ASSUME NEW T, NEW s \in Seq(Seq(T))
  PROVE  \A t \in Seq(Seq(T)) : FlattenSeq(s \o t) = FlattenSeq(s) \o FlattenSeq(t)
<1> DEFINE G == {t \in Seq(Seq(T)) : FlattenSeq(s \o t) = FlattenSeq(s) \o FlattenSeq(t)}
<1>0. FlattenSeq(s) \in Seq(T)
  BY FlattenType
<1>1. <<>> \in G
  <2>0. <<>> \in Seq(Seq(T))
    BY EmptySeq
  <2>1. s \o <<>> = s /\ FlattenSeq(s) \o <<>> = FlattenSeq(s)
    BY <1>0, ConcatEmptySeq
  <2> QED BY <2>0, <2>1, FlattenEmpty
<1>2. ASSUME NEW t \in Seq(Seq(T)), NEW x \in Seq(T), t \in G
      PROVE  Append(t, x) \in G
  <2>1. s \o Append(t, x) = Append(s \o t, x) /\ s \o t \in Seq(Seq(T))
        /\ Append(t, x) \in Seq(Seq(T))
    OBVIOUS
  <2>2. FlattenSeq(Append(s \o t, x)) = FlattenSeq(s \o t) \o x
    BY <2>1, FlattenAppend
  <2>3. FlattenSeq(Append(t, x)) = FlattenSeq(t) \o x /\ FlattenSeq(t) \in Seq(T)
    BY FlattenAppend, FlattenType
  <2>4. (FlattenSeq(s) \o FlattenSeq(t)) \o x = FlattenSeq(s) \o (FlattenSeq(t) \o x)
    <3>1. FlattenSeq(s) \in Seq(T) /\ FlattenSeq(t) \in Seq(T) /\ x \in Seq(T)
      BY <1>0, <2>3
    <3>2. Cat(Cat(FlattenSeq(s), FlattenSeq(t)), x) = Cat(FlattenSeq(s), Cat(FlattenSeq(t), x))
      BY <3>1, CatAssociative, SMT
    <3> QED  BY <3>2, Zenon DEF Cat
  <2> QED BY <1>2, <2>1, <2>2, <2>3, <2>4
<1>3. \A t \in Seq(Seq(T)) : t \in G
  <2> HIDE DEF G
  <2> QED BY <1>1, <1>2, AppendInduction
<1> QED BY <1>3

LEMMA FlattenOne ==
  ASSUME NEW T, NEW x \in Seq(T)
  PROVE  FlattenSeq(<<x>>) = x
<1>1. <<x>> = Append(<<>>, x) /\ <<>> \o x = x /\ <<>> \in Seq(Seq(T))
  BY EmptySeq
<1> QED BY <1>1, FlattenAppend, FlattenEmpty
-----------------------------------------------------------------------------
(* Replacing variables.                                                    *)

\* The provers do not know that these two are strings.
Names == STRING \cup {"", "repr"}

Kind(kinds) == [kind : kinds, name : Names]

Out == Kind({"word", "escaped"})                        \* tokens nobody looks for
Mid == Kind({"word", "var", "escaped"})                 \* a text without loops
All == Kind({"word", "var", "for", "end", "escaped"})

\* What one token is replaced by.
One(token, data) ==
  IF token.kind = "var" THEN Escaped(ValueOf(data, token.name)) ELSE <<token>>

\* The tokens of Y are replaced by texts over X.
Fits(data, Y, X) == \A y \in Y : One(y, data) \in Seq(X)

\* A name stands for words.
Closed(data) == \A n : Escaped(ValueOf(data, n)) \in Seq(Out)

LEMMA KindSubsets ==
  /\ Seq(Out) \subseteq Seq(Mid) /\ Seq(Mid) \subseteq Seq(All)
  /\ Out \subseteq Mid /\ Mid \subseteq All
<1>1. Out \subseteq Mid /\ Mid \subseteq All
  BY DEF Out, Mid, All, Kind
<1> QED BY <1>1

LEMMA ReplaceOne ==
  ASSUME NEW text, NEW data
  PROVE  ReplaceVariables(text, data) = FlattenSeq([i \in DOMAIN text |-> One(text[i], data)])
BY DEF ReplaceVariables, One

LEMMA PiecesType ==
  ASSUME NEW data, NEW X, NEW Y, Fits(data, Y, X), NEW text \in Seq(Y)
  PROVE  [i \in DOMAIN text |-> One(text[i], data)] \in Seq(Seq(X))
<1>1. DOMAIN text = 1..Len(text) /\ Len(text) \in Nat /\ \A i \in 1..Len(text) : text[i] \in Y
  OBVIOUS
<1> QED BY <1>1 DEF Fits

LEMMA ReplaceType ==
  ASSUME NEW data, NEW X, NEW Y, Fits(data, Y, X), NEW text \in Seq(Y)
  PROVE  ReplaceVariables(text, data) \in Seq(X)
BY ReplaceOne, PiecesType, FlattenType

\* Replacing is done token by token, and so in two texts at once.
LEMMA ReplaceConcat ==
  ASSUME NEW data, NEW X, NEW Y, Fits(data, Y, X),
         NEW s \in Seq(Y), NEW t \in Seq(Y)
  PROVE  ReplaceVariables(s \o t, data) = ReplaceVariables(s, data) \o ReplaceVariables(t, data)
<1> DEFINE P(u) == [i \in DOMAIN u |-> One(u[i], data)]
<1>1. s \o t \in Seq(Y) /\ Len(s) \in Nat /\ Len(t) \in Nat /\ Len(s \o t) = Len(s) + Len(t)
      /\ DOMAIN (s \o t) = 1..Len(s) + Len(t) /\ DOMAIN s = 1..Len(s) /\ DOMAIN t = 1..Len(t)
  OBVIOUS
<1>2. P(s) \in Seq(Seq(X)) /\ P(t) \in Seq(Seq(X)) /\ P(s \o t) \in Seq(Seq(X))
  BY <1>1, PiecesType
<1>3. Len(P(s)) = Len(s) /\ Len(P(t)) = Len(t) /\ Len(P(s \o t)) = Len(s) + Len(t)
  BY <1>1
<1>4. ASSUME NEW i \in 1..Len(s) + Len(t)
      PROVE  P(s \o t)[i] = (P(s) \o P(t))[i]
  <2>1. P(s \o t)[i] = One((s \o t)[i], data)
    BY <1>1
  <2>2. (s \o t)[i] = IF i <= Len(s) THEN s[i] ELSE t[i - Len(s)]
    BY ConcatProperties
  <2>3. (P(s) \o P(t))[i] = IF i <= Len(s) THEN P(s)[i] ELSE P(t)[i - Len(s)]
    <3> DEFINE a == P(s)
               b == P(t)
    <3>1. a \in Seq(Seq(X)) /\ b \in Seq(Seq(X)) /\ Len(a) = Len(s) /\ Len(b) = Len(t)
      BY <1>2, <1>3
    <3> HIDE DEF P, a, b
    <3>2. (a \o b)[i] = IF i <= Len(a) THEN a[i] ELSE b[i - Len(a)]
      BY <3>1, ConcatProperties
    <3> QED BY <3>1, <3>2 DEF a, b
  <2>4. CASE i <= Len(s)
    <3>1. P(s)[i] = One(s[i], data)
      BY <1>1, <2>4
    <3> QED BY <2>1, <2>2, <2>3, <2>4, <3>1
  <2>5. CASE ~ (i <= Len(s))
    <3>1. i - Len(s) \in DOMAIN t
      BY <1>1, <2>5
    <3>2. P(t)[i - Len(s)] = One(t[i - Len(s)], data)
      BY <3>1
    <3> QED BY <2>1, <2>2, <2>3, <2>5, <3>2
  <2> QED BY <2>4, <2>5
<1>5. P(s \o t) = P(s) \o P(t)
  <2> HIDE DEF P
  <2>1. P(s) \o P(t) \in Seq(Seq(X)) /\ Len(P(s) \o P(t)) = Len(s) + Len(t)
    BY <1>2, <1>3, ConcatProperties
  <2> QED BY <1>2, <1>3, <1>4, <2>1, SeqEqual
<1>6. FlattenSeq(P(s) \o P(t)) = FlattenSeq(P(s)) \o FlattenSeq(P(t))
  <2> HIDE DEF P
  <2> QED BY <1>2, FlattenConcat
<1> QED BY <1>5, <1>6, ReplaceOne

LEMMA ReplaceFlatten ==
  ASSUME NEW data, NEW X, NEW Y, Fits(data, Y, X)
  PROVE  \A s \in Seq(Seq(Y)) :
           ReplaceVariables(FlattenSeq(s), data)
             = FlattenSeq([i \in 1..Len(s) |-> ReplaceVariables(s[i], data)])
<1> DEFINE Each(s) == [i \in 1..Len(s) |-> ReplaceVariables(s[i], data)]
           G == {s \in Seq(Seq(Y)) :
                   ReplaceVariables(FlattenSeq(s), data) = FlattenSeq(Each(s))}
<1>0. \A s \in Seq(Y) : \A t \in Seq(Y) :
        ReplaceVariables(s \o t, data) = ReplaceVariables(s, data) \o ReplaceVariables(t, data)
  <2> HIDE DEF G, Each
  <2> QED BY ReplaceConcat
<1>1. <<>> \in G
  <2>1. <<>> \in Seq(Seq(Y)) /\ Each(<<>>) = <<>>
    BY EmptySeq
  <2>2. ReplaceVariables(<<>>, data) = <<>>
    <3>1. [i \in DOMAIN <<>> |-> One(<<>>[i], data)] = <<>>
      OBVIOUS
    <3> QED BY <3>1, ReplaceOne, FlattenEmpty
  <2> HIDE DEF Each
  <2> QED BY <2>1, <2>2, FlattenEmpty
<1>2. ASSUME NEW s \in Seq(Seq(Y)), NEW x \in Seq(Y), s \in G
      PROVE  Append(s, x) \in G
  <2>1. Append(s, x) \in Seq(Seq(Y)) /\ FlattenSeq(s) \in Seq(Y)
    BY FlattenType
  <2>2. ReplaceVariables(FlattenSeq(Append(s, x)), data)
          = ReplaceVariables(FlattenSeq(s), data) \o ReplaceVariables(x, data)
    <3>1. FlattenSeq(Append(s, x)) = FlattenSeq(s) \o x
      BY FlattenAppend
    <3>2. ReplaceVariables(FlattenSeq(s) \o x, data)
            = ReplaceVariables(FlattenSeq(s), data) \o ReplaceVariables(x, data)
      BY <1>0, <2>1
    <3> QED BY <3>1, <3>2
  <2>3. \A u \in Seq(Y) : ReplaceVariables(u, data) \in Seq(X)
    BY ReplaceType
  <2>4. Each(s) \in Seq(Seq(X)) /\ ReplaceVariables(x, data) \in Seq(X)
    BY <2>3
  <2>5. Each(Append(s, x)) = Append(Each(s), ReplaceVariables(x, data))
    OBVIOUS
  <2> HIDE DEF Each
  <2>6. FlattenSeq(Each(Append(s, x))) = FlattenSeq(Each(s)) \o ReplaceVariables(x, data)
    BY <2>4, <2>5, FlattenAppend
  <2> QED BY <1>2, <2>1, <2>2, <2>6
<1>3. \A s \in Seq(Seq(Y)) : s \in G
  <2> HIDE DEF G
  <2> QED BY <1>1, <1>2, AppendInduction
<1> QED BY <1>3

LEMMA OneOfOut ==
  ASSUME NEW data, NEW token \in Out
  PROVE  One(token, data) = <<token>> /\ One(token, data) \in Seq(Out)
<1>1. token.kind # "var"
  BY DEF Out, Kind
<1>2. One(token, data) = <<token>>
  BY <1>1 DEF One
<1> QED BY <1>2

LEMMA OneOfMid ==
  ASSUME NEW data, Closed(data), NEW token \in Mid
  PROVE  One(token, data) \in Seq(Out)
<1>1. CASE token.kind = "var"
  BY <1>1 DEF One, Closed
<1>2. CASE token.kind # "var"
  <2>1. token \in Out
    BY <1>2 DEF Out, Mid, Kind
  <2> QED BY <2>1, OneOfOut
<1> QED BY <1>1, <1>2

\* A text without variables stays as it is, whatever the data are.
LEMMA ReplaceNone ==
  ASSUME NEW data
  PROVE  \A t \in Seq(Out) : ReplaceVariables(t, data) = t
<1> DEFINE G == {t \in Seq(Out) : ReplaceVariables(t, data) = t}
<1>0. Fits(data, Out, Out)
  BY OneOfOut DEF Fits
<1>4. \A s \in Seq(Out) : \A t \in Seq(Out) :
        ReplaceVariables(s \o t, data) = ReplaceVariables(s, data) \o ReplaceVariables(t, data)
  <2> HIDE DEF G
  <2> QED BY <1>0, ReplaceConcat
<1>1. <<>> \in G
  <2>1. <<>> \in Seq(Out)
    BY EmptySeq
  <2>2. [i \in DOMAIN <<>> |-> One(<<>>[i], data)] = <<>>
    OBVIOUS
  <2> QED BY <2>1, <2>2, ReplaceOne, FlattenEmpty
<1>2. ASSUME NEW t \in Seq(Out), NEW x \in Out, t \in G
      PROVE  Append(t, x) \in G
  <2>1. Append(t, x) \in Seq(Out) /\ Append(t, x) = t \o <<x>> /\ <<x>> \in Seq(Out)
    OBVIOUS
  <2>2. ReplaceVariables(<<x>>, data) = <<x>>
    <3>1. [i \in DOMAIN <<x>> |-> One(<<x>>[i], data)] = << <<x>> >>
      <4>1. One(x, data) = <<x>>
        BY OneOfOut
      <4> QED BY <4>1
    <3> QED BY <2>1, <3>1, ReplaceOne, FlattenOne
  <2>3. ReplaceVariables(t \o <<x>>, data)
          = ReplaceVariables(t, data) \o ReplaceVariables(<<x>>, data)
    BY <2>1, <1>4
  <2> QED BY <1>2, <2>1, <2>2, <2>3
<1>3. \A t \in Seq(Out) : t \in G
  <2> HIDE DEF G
  <2> QED BY <1>1, <1>2, AppendInduction
<1> QED BY <1>3

LEMMA ReplaceMid ==
  ASSUME NEW data, Closed(data), NEW text \in Seq(Mid)
  PROVE  ReplaceVariables(text, data) \in Seq(Out)
BY OneOfMid, ReplaceType DEF Fits

-----------------------------------------------------------------------------
(* Data without markers.                                                   *)

LEMMA EscapedPlain ==
  ASSUME NEW text \in Seq(Kind({"word"}))
  PROVE  Escaped(text) \in Seq(Out)
<1>1. Len(text) \in Nat /\ DOMAIN text = 1..Len(text)
  OBVIOUS
<1>2. ASSUME NEW i \in 1..Len(text)
      PROVE  [text[i] EXCEPT !.kind = "escaped"] \in Out /\ text[i].kind = "word"
  <2>1. text[i] \in Kind({"word"})
    BY <1>1
  <2> QED BY <2>1 DEF Out, Kind
<1>3. Escaped(text) = [i \in 1..Len(text) |-> [text[i] EXCEPT !.kind = "escaped"]]
  BY <1>1, <1>2 DEF Escaped
<1> QED BY <1>1, <1>2, <1>3

LEMMA PlainWords ==
  ASSUME NEW text \in Seq(Token), PlainText(text)
  PROVE  text \in Seq(Kind({"word"}))
<1>1. \A i \in 1..Len(text) : text[i] \in Kind({"word"})
  <2> SUFFICES ASSUME NEW i \in 1..Len(text)
               PROVE  text[i] \in Kind({"word"})
    OBVIOUS
  <2>1. text[i] \in Token /\ text[i].kind = "word"
    BY DEF PlainText
  <2> QED BY <2>1 DEF Token, Kind, Names
<1> QED BY <1>1

LEMMA EscapedOther == Escaped(<<>>) \in Seq(Out) /\ Escaped(<<Word("repr")>>) \in Seq(Out)
<1>1. <<>> \in Seq(Kind({"word"}))
  BY EmptySeq
<1>2. Word("repr") \in Kind({"word"})
  BY DEF Word, Kind, Names
<1>3. <<Word("repr")>> \in Seq(Kind({"word"}))
  BY <1>2
<1> QED BY <1>1, <1>3, EscapedPlain

\* Neither the data nor an object of one of its lists bring markers.
LEMMA PlainClosed ==
  ASSUME NEW data, IsData(data), PlainData(data)
  PROVE  Closed(data)
<1> SUFFICES ASSUME NEW n
             PROVE  Escaped(ValueOf(data, n)) \in Seq(Out)
  BY DEF Closed
<1>1. CASE n \notin DOMAIN data
  BY <1>1, EscapedOther DEF ValueOf
<1>2. CASE n \in DOMAIN data /\ data[n].type = "list"
  BY <1>2, EscapedOther DEF ValueOf
<1>3. CASE n \in DOMAIN data /\ data[n].type # "list"
  <2>1. data[n].text \in Seq(Token) /\ PlainText(data[n].text)
    BY <1>3 DEF IsData, PlainData
  <2> QED BY <1>3, <2>1, PlainWords, EscapedPlain DEF ValueOf
<1> QED BY <1>1, <1>2, <1>3

LEMMA PlainItems ==
  ASSUME NEW data, IsData(data), PlainData(data),
         NEW n \in DOMAIN data, data[n].type = "list",
         NEW i \in DOMAIN data[n].items, data[n].items[i].type = "object"
  PROVE  Closed(data[n].items[i].at)
<1> DEFINE at == data[n].items[i].at
<1>1. \A f \in DOMAIN at : /\ at[f].type = "list" \/ at[f].text \in Seq(Token)
                           /\ PlainText(at[f].text)
  BY DEF IsData, PlainData
<1> HIDE DEF at
<1> SUFFICES ASSUME NEW f
             PROVE  Escaped(ValueOf(at, f)) \in Seq(Out)
  BY DEF Closed, at
<1>2. CASE f \notin DOMAIN at
  BY <1>2, EscapedOther DEF ValueOf
<1>3. CASE f \in DOMAIN at /\ at[f].type = "list"
  BY <1>3, EscapedOther DEF ValueOf
<1>4. CASE f \in DOMAIN at /\ at[f].type # "list"
  <2>1. at[f].text \in Seq(Token) /\ PlainText(at[f].text)
    BY <1>1, <1>4
  <2> QED BY <1>4, <2>1, PlainWords, EscapedPlain DEF ValueOf
<1> QED BY <1>2, <1>3, <1>4
-----------------------------------------------------------------------------
(* Finding a loop.                                                         *)

\* A text without markers of loops has no loop.
LEMMA NoLoop ==
  ASSUME NEW text \in Seq(Mid)
  PROVE  ~ HasLoop(text)
<1>1. \A i \in DOMAIN text : text[i] \in Mid
  OBVIOUS
<1>2. \A i \in DOMAIN text : text[i].kind # "for"
  BY <1>1 DEF Mid, Kind
<1> QED BY <1>2 DEF HasLoop, Positions

LEMMA SingleAt ==
  ASSUME NEW S, NEW x \in S
  PROVE  <<x>> \in Seq(S) /\ Len(<<x>>) = 1 /\ <<x>>[1] = x
OBVIOUS

LEMMA Markers ==
  /\ \A l : For(l).kind = "for" /\ For(l).name = l
  /\ End.kind = "end"
BY DEF For, End

\* u is s followed by t.
IsConcat(S, s, t, u) ==
  /\ u \in Seq(S) /\ Len(u) = Len(s) + Len(t)
  /\ \A i \in 1..Len(s) : u[i] = s[i]
  /\ \A i \in 1..Len(t) : u[Len(s) + i] = t[i]

LEMMA ConcatAt ==
  ASSUME NEW S, NEW s \in Seq(S), NEW t \in Seq(S)
  PROVE  IsConcat(S, s, t, s \o t)
<1>1. Len(s) \in Nat /\ Len(t) \in Nat
  OBVIOUS
<1>2. /\ s \o t \in Seq(S) /\ Len(s \o t) = Len(s) + Len(t)
      /\ \A i \in 1..Len(s) + Len(t) : (s \o t)[i] = IF i <= Len(s) THEN s[i] ELSE t[i - Len(s)]
  BY ConcatProperties
<1>3. ASSUME NEW i \in 1..Len(s)
      PROVE  (s \o t)[i] = s[i]
  <2>1. i \in 1..Len(s) + Len(t) /\ i <= Len(s)
    BY <1>1
  <2> QED BY <1>2, <2>1
<1>4. ASSUME NEW i \in 1..Len(t)
      PROVE  (s \o t)[Len(s) + i] = t[i]
  <2>1. Len(s) + i \in 1..Len(s) + Len(t) /\ ~ (Len(s) + i <= Len(s))
        /\ (Len(s) + i) - Len(s) = i
    BY <1>1
  <2> QED BY <1>2, <2>1
<1> QED BY <1>2, <1>3, <1>4 DEF IsConcat

\* u is the part of t that begins at m.
Inside(t, m, u) == m + Len(u) - 1 <= Len(t) /\ \A i \in 1..Len(u) : t[m - 1 + i] = u[i]

LEMMA SubSeqIs ==
  ASSUME NEW S, NEW t \in Seq(S), NEW u \in Seq(S), NEW m \in Nat, m >= 1,
         Inside(t, m, u)
  PROVE  SubSeq(t, m, m + Len(u) - 1) = u
<1> DEFINE n == m + Len(u) - 1
           v == SubSeq(t, m, n)
<1>1. Len(u) \in Nat /\ n \in Int /\ Len(t) \in Nat /\ n - m + 1 = Len(u)
  OBVIOUS
<1>2. \A i \in m..n : t[i] \in S
  <2>1. \A i \in m..n : i \in 1..Len(t)
    BY <1>1 DEF Inside
  <2> QED BY <2>1
<1>3. /\ v \in Seq(S) /\ Len(v) = IF m <= n THEN n - m + 1 ELSE 0
      /\ \A i \in 1..n - m + 1 : v[i] = t[m + i - 1]
  <2> HIDE DEF n
  <2> QED BY <1>1, <1>2, SubSeqProperties
<1> HIDE DEF n, v
<1>4. Len(v) = Len(u)
  BY <1>1, <1>3
<1>5. ASSUME NEW i \in 1..Len(u)
      PROVE  v[i] = u[i]
  <2>1. i \in 1..n - m + 1 /\ m + i - 1 = m - 1 + i
    BY <1>1
  <2>2. v[i] = t[m + i - 1]
    BY <1>3, <2>1
  <2> QED BY <2>1, <2>2 DEF Inside
<1>6. v = u
  BY <1>3, <1>4, <1>5, SeqEqual
<1> QED BY <1>6 DEF v, n

\* The loop that a part makes: its marker, its text, and its end.
LEMMA LoopText ==
  ASSUME NEW B \in Seq(Mid), NEW l \in STRING
  PROVE  LET part == <<For(l)>> \o B \o <<End>>
         IN  /\ part \in Seq(All) /\ Len(part) = Len(B) + 2
             /\ part[1] = For(l) /\ part[Len(B) + 2] = End
             /\ \A i \in 1..Len(B) : part[i + 1] = B[i]
<1>1. For(l) \in All /\ End \in All
  BY DEF For, End, All, Kind, Names
<1>2. B \in Seq(All) /\ Len(B) \in Nat
  BY KindSubsets
<1> DEFINE f == <<For(l)>>
           g == <<End>>
           h == f \o B
           part == h \o g
<1>3. f \in Seq(All) /\ Len(f) = 1 /\ f[1] = For(l)
  BY <1>1, SingleAt
<1>4. g \in Seq(All) /\ Len(g) = 1 /\ g[1] = End
  BY <1>1, SingleAt
<1> HIDE DEF f, g
<1>5. /\ h \in Seq(All) /\ Len(h) = 1 + Len(B)
      /\ \A i \in 1..1 : h[i] = f[i]
      /\ \A i \in 1..Len(B) : h[1 + i] = B[i]
  <2>1. /\ h \in Seq(All) /\ Len(h) = Len(f) + Len(B)
        /\ \A i \in 1..Len(f) : h[i] = f[i]
        /\ \A i \in 1..Len(B) : h[Len(f) + i] = B[i]
    <3>1. IsConcat(All, f, B, h)
      BY <1>2, <1>3, ConcatAt
    <3> QED BY <3>1 DEF IsConcat
  <2> HIDE DEF h
  <2> QED BY <1>3, <2>1
<1> HIDE DEF h
<1>6. /\ part \in Seq(All) /\ Len(part) = Len(h) + 1
      /\ \A i \in 1..Len(h) : part[i] = h[i]
      /\ \A i \in 1..1 : part[Len(h) + i] = g[i]
  <2>1. /\ part \in Seq(All) /\ Len(part) = Len(h) + Len(g)
        /\ \A i \in 1..Len(h) : part[i] = h[i]
        /\ \A i \in 1..Len(g) : part[Len(h) + i] = g[i]
    <3>1. IsConcat(All, h, g, part)
      BY <1>4, <1>5, ConcatAt
    <3> QED BY <3>1 DEF IsConcat
  <2> HIDE DEF part
  <2> QED BY <1>4, <2>1
<1> HIDE DEF part
<1>7. part[1] = For(l) /\ part[Len(B) + 2] = End
  <2>1. 1 \in 1..Len(h) /\ 1 \in 1..1 /\ Len(h) + 1 = Len(B) + 2
    BY <1>2, <1>5
  <2>2. part[1] = h[1] /\ h[1] = f[1]
    BY <1>5, <1>6, <2>1
  <2>3. part[Len(h) + 1] = g[1]
    BY <1>6, <2>1
  <2> QED BY <1>3, <1>4, <2>1, <2>2, <2>3
<1>8. ASSUME NEW i \in 1..Len(B)
      PROVE  part[i + 1] = B[i]
  <2>1. i + 1 \in 1..Len(h) /\ i + 1 = 1 + i
    BY <1>2, <1>5
  <2> QED BY <1>5, <1>6, <2>1
<1>9. part \in Seq(All) /\ Len(part) = Len(B) + 2
  BY <1>2, <1>5, <1>6
<1> QED BY <1>7, <1>8, <1>9 DEF part, h, f, g

LEMMA MinIs ==
  ASSUME NEW S \in SUBSET Int, NEW m \in S, \A x \in S : m <= x
  PROVE  Min(S) = m
<1>1. \A x \in S : (\A y \in S : x <= y) => x = m
  OBVIOUS
<1> QED BY <1>1 DEF Min

\* Where the markers are, the search finds them.
LEMMA SearchFinds ==
  ASSUME NEW text \in Seq(All), NEW a \in Nat, NEW b \in Nat, a + b + 2 <= Len(text),
         \A i \in 1..a : text[i] \in Mid,
         text[a + 1].kind = "for", text[a + b + 2].kind = "end",
         \A i \in 1..b : text[a + 1 + i] \in Mid
  PROVE  HasLoop(text) /\ Opening(text) = a + 1 /\ Closing(text) = a + b + 2
<1> DEFINE o == a + 1
           e == a + b + 2
<1>0. \A t \in Mid : t.kind \notin {"for", "end"}
  BY DEF Mid, Kind
<1>1. Len(text) \in Nat /\ DOMAIN text = 1..Len(text)
  OBVIOUS
<1>2. o \in Positions(text, "for") /\ e \in Positions(text, "end") /\ o < e
  BY <1>1 DEF Positions
<1>3. HasLoop(text)
  BY <1>2 DEF HasLoop
<1>4. Opening(text) = o
  <2>1. Positions(text, "for") \in SUBSET Int
    BY <1>1 DEF Positions
  <2>2. \A i \in Positions(text, "for") : o <= i
    <3> SUFFICES ASSUME NEW i \in Positions(text, "for"), ~ (o <= i)
                 PROVE  FALSE
      OBVIOUS
    <3>1. i \in 1..a /\ text[i].kind = "for"
      BY <1>1 DEF Positions
    <3> QED BY <1>0, <3>1
  <2> HIDE DEF o
  <2> QED BY <1>2, <2>1, <2>2, MinIs DEF Opening
<1>5. Closing(text) = e
  <2> DEFINE S == {j \in Positions(text, "end") : j > o}
  <2>1. S \in SUBSET Int /\ e \in S
    BY <1>1, <1>2 DEF Positions
  <2>2. \A j \in S : e <= j
    <3> SUFFICES ASSUME NEW j \in S, ~ (e <= j)
                 PROVE  FALSE
      OBVIOUS
    <3>1. j \in Int /\ o < j /\ j < e /\ text[j].kind = "end"
      BY <1>1 DEF Positions
    <3>2. j - o \in 1..b /\ a + 1 + (j - o) = j
      BY <3>1
    <3> QED BY <1>0, <3>1, <3>2
  <2>3. Closing(text) = Min(S)
    BY <1>4 DEF Closing
  <2> HIDE DEF S, e
  <2> QED BY <2>1, <2>2, <2>3, MinIs
<1> QED BY <1>3, <1>4, <1>5

\* The loop over l with the block B, between A and C.
IsLoopIn(text, A, l, B, C) == text = A \o (<<For(l)>> \o B \o <<End>>) \o C

\* The search of text finds that loop.
Found(text, A, l, B, C) ==
  /\ HasLoop(text)
  /\ Block(text) = B
  /\ text[Opening(text)].name = l
  /\ SubSeq(text, 1, Opening(text) - 1) = A
  /\ SubSeq(text, Closing(text) + 1, Len(text)) = C

\* Where no loop precedes it, and whatever follows, the loop of a part is the first one
\* that the search finds, and its block is the text of the part.
LEMMA LoopFound ==
  ASSUME NEW A \in Seq(Mid), NEW B \in Seq(Mid), NEW C \in Seq(All), NEW l \in STRING,
         NEW text, IsLoopIn(text, A, l, B, C)
  PROVE  Found(text, A, l, B, C)
<1> DEFINE part == <<For(l)>> \o B \o <<End>>
           q == A \o part
           a == Len(A)
           b == Len(B)
           c == Len(C)
<1>1. /\ part \in Seq(All) /\ Len(part) = b + 2
      /\ part[1] = For(l) /\ part[b + 2] = End
      /\ \A i \in 1..b : part[i + 1] = B[i]
  BY LoopText
<1>2. a \in Nat /\ b \in Nat /\ c \in Nat /\ a = Len(A) /\ b = Len(B) /\ c = Len(C)
  OBVIOUS
<1>3. A \in Seq(All) /\ B \in Seq(All)
  BY KindSubsets
<1> HIDE DEF part, a, b, c
<1>4. /\ q \in Seq(All) /\ Len(q) = a + (b + 2)
      /\ \A i \in 1..a : q[i] = A[i]
      /\ \A i \in 1..b + 2 : q[a + i] = part[i]
  <2>1. /\ q \in Seq(All) /\ Len(q) = Len(A) + Len(part)
        /\ \A i \in 1..Len(A) : q[i] = A[i]
        /\ \A i \in 1..Len(part) : q[Len(A) + i] = part[i]
    <3>1. IsConcat(All, A, part, q)
      BY <1>1, <1>3, ConcatAt
    <3> QED BY <3>1 DEF IsConcat
  <2> HIDE DEF q
  <2> QED BY <1>1, <1>2, <2>1
<1>5. /\ text \in Seq(All) /\ Len(text) = (a + b + 2) + c
      /\ \A i \in 1..a + b + 2 : text[i] = q[i]
      /\ \A i \in 1..c : text[(a + b + 2) + i] = C[i]
  <2>1. text = q \o C
    BY DEF part, IsLoopIn
  <2> HIDE DEF q
  <2>2. /\ q \o C \in Seq(All) /\ Len(q \o C) = Len(q) + c
        /\ \A i \in 1..Len(q) : (q \o C)[i] = q[i]
        /\ \A i \in 1..c : (q \o C)[Len(q) + i] = C[i]
    <3>1. IsConcat(All, q, C, q \o C)
      BY <1>4, ConcatAt
    <3> QED BY <3>1 DEF IsConcat, c
  <2>3. Len(q) = a + b + 2
    BY <1>2, <1>4
  <2> QED BY <2>1, <2>2, <2>3
<1> HIDE DEF q
<1>6. \A i \in 1..a : text[i] = A[i]
  <2>1. \A i \in 1..a : i \in 1..a + b + 2
    BY <1>2
  <2> QED BY <1>4, <1>5, <2>1
<1>7. \A i \in 1..b + 2 : text[a + i] = part[i]
  <2>1. \A i \in 1..b + 2 : a + i \in 1..a + b + 2
    BY <1>2
  <2> QED BY <1>4, <1>5, <2>1
<1>8. text[a + 1] = For(l) /\ text[a + b + 2] = End
  <2>1. 1 \in 1..b + 2 /\ b + 2 \in 1..b + 2 /\ a + (b + 2) = a + b + 2
    BY <1>2
  <2> QED BY <1>1, <1>2, <1>7, <2>1
<1>9. \A i \in 1..b : text[a + 1 + i] = B[i]
  <2>1. \A i \in 1..b : i + 1 \in 1..b + 2 /\ a + (i + 1) = a + 1 + i
    BY <1>2
  <2> QED BY <1>1, <1>2, <1>7, <2>1
<1>10. HasLoop(text) /\ Opening(text) = a + 1 /\ Closing(text) = a + b + 2
  <2>1. text[a + 1].kind = "for" /\ text[a + b + 2].kind = "end"
    BY <1>8, Markers
  <2>2. (\A i \in 1..a : text[i] \in Mid) /\ (\A i \in 1..b : text[a + 1 + i] \in Mid)
    BY <1>2, <1>6, <1>9
  <2>3. a + b + 2 <= Len(text)
    BY <1>2, <1>5
  <2> QED BY <1>2, <1>5, <2>1, <2>2, <2>3, SearchFinds
<1>11. Block(text) = B
  <2>1. SubSeq(text, a + 2, (a + 2) + Len(B) - 1) = B
    <3>1. a + 2 \in Nat /\ a + 2 >= 1 /\ (a + 2) + Len(B) - 1 <= Len(text)
      BY <1>2, <1>5
    <3>2. \A i \in 1..Len(B) : text[(a + 2) - 1 + i] = B[i]
      <4>1. (a + 2) - 1 = a + 1
        BY <1>2
      <4> QED BY <1>2, <1>9, <4>1
    <3>3. Inside(text, a + 2, B)
      BY <3>1, <3>2 DEF Inside
    <3> QED BY <1>3, <1>5, <3>1, <3>3, SubSeqIs, Zenon
  <2>2. (a + 1) + 1 = a + 2 /\ (a + b + 2) - 1 = (a + 2) + Len(B) - 1
    BY <1>2
  <2> QED BY <1>10, <2>1, <2>2 DEF Block
<1>12. SubSeq(text, 1, Opening(text) - 1) = A
  <2>1. SubSeq(text, 1, 1 + Len(A) - 1) = A
    <3>1. 1 \in Nat /\ 1 >= 1 /\ 1 + Len(A) - 1 <= Len(text)
      BY <1>2, <1>5
    <3>2. \A i \in 1..Len(A) : text[1 - 1 + i] = A[i]
      <4>1. \A i \in 1..Len(A) : 1 - 1 + i = i
        BY <1>2
      <4> QED BY <1>2, <1>6, <4>1
    <3>3. Inside(text, 1, A)
      BY <3>1, <3>2 DEF Inside
    <3> QED BY <1>3, <1>5, <3>1, <3>3, SubSeqIs, Zenon
  <2>2. (a + 1) - 1 = 1 + Len(A) - 1
    BY <1>2
  <2> QED BY <1>10, <2>1, <2>2
<1>13. SubSeq(text, Closing(text) + 1, Len(text)) = C
  <2> DEFINE m == a + b + 3
  <2>1. SubSeq(text, m, m + Len(C) - 1) = C
    <3>1. m \in Nat /\ m >= 1 /\ m + Len(C) - 1 <= Len(text)
      BY <1>2, <1>5
    <3>2. \A i \in 1..Len(C) : text[m - 1 + i] = C[i]
      <4>1. m - 1 = a + b + 2
        BY <1>2
      <4> HIDE DEF m
      <4> QED BY <1>2, <1>5, <4>1
    <3> HIDE DEF m
    <3>3. Inside(text, m, C)
      BY <3>1, <3>2 DEF Inside
    <3> QED BY <1>3, <1>5, <3>1, <3>3, SubSeqIs, Zenon
  <2>2. (a + b + 2) + 1 = m /\ Len(text) = m + Len(C) - 1
    BY <1>2, <1>5
  <2> HIDE DEF m
  <2> QED BY <1>10, <2>1, <2>2
<1>14. text[Opening(text)].name = l
  BY <1>8, <1>10, Markers
<1> QED BY <1>10, <1>11, <1>12, <1>13, <1>14, Zenon DEF Found
-----------------------------------------------------------------------------
(* A flat template, loop by loop.                                          *)

FlatPart == [loop : STRING, text : Seq(Mid)]

IsLoop(part) == part.loop # ""

\* A part after its loop, if it is one, was expanded.
Half(part, data) == IF IsLoop(part) THEN Filled(part, data) ELSE part.text

\* The template after the loops among the first k parts were expanded.
Mixed(parts, data, k) ==
  [i \in 1..Len(parts) |-> IF i <= k THEN Half(parts[i], data) ELSE PartText(parts[i])]

Partial(parts, data, k, text) ==
  /\ k \in 0..Len(parts) /\ text = FlattenSeq(Mixed(parts, data, k))
  /\ \A i \in 1..k : IsLoop(parts[i]) => Filled(parts[i], data) \in Seq(Out)

LEMMA PartialParts ==
  ASSUME NEW parts, NEW data, NEW k, NEW text, Partial(parts, data, k, text)
  PROVE  k \in 0..Len(parts) /\ text = FlattenSeq(Mixed(parts, data, k))
BY Zenon DEF Partial

LEMMA PartialFilled ==
  ASSUME NEW parts, NEW data, NEW k, NEW text, Partial(parts, data, k, text),
         NEW h \in 1..k, IsLoop(parts[h])
  PROVE  Filled(parts[h], data) \in Seq(Out)
BY Zenon DEF Partial

LEMMA MixedAt ==
  ASSUME NEW parts, Len(parts) \in Nat, NEW data, NEW k, NEW h \in 1..Len(parts)
  PROVE  Mixed(parts, data, k)[h]
           = IF h <= k THEN Half(parts[h], data) ELSE PartText(parts[h])
BY DEF Mixed

LEMMA FlatPartText ==
  ASSUME NEW part \in FlatPart
  PROVE  part.text \in Seq(Mid) /\ part.text \in Seq(All) /\ part.loop \in STRING
BY KindSubsets DEF FlatPart

LEMMA SplitSeq ==
  ASSUME NEW U, NEW s \in Seq(U), NEW m \in 1..Len(s)
  PROVE  /\ SubSeq(s, 1, m - 1) \in Seq(U) /\ SubSeq(s, m + 1, Len(s)) \in Seq(U)
         /\ s[m] \in U
         /\ s = Append(SubSeq(s, 1, m - 1), s[m]) \o SubSeq(s, m + 1, Len(s))
<1>1. Append(SubSeq(s, 1, m - 1), s[m]) = SubSeq(s, 1, m)
  OBVIOUS
<1>2. SubSeq(s, 1, m) \o SubSeq(s, m + 1, Len(s)) = s
  BY ConcatAdjacentSubSeq, SubSeqFull
<1>3. SubSeq(s, 1, m - 1) \in Seq(U)
  OBVIOUS
<1>4. SubSeq(s, m + 1, Len(s)) \in Seq(U)
  OBVIOUS
<1>5. s[m] \in U
  OBVIOUS
<1>6. s = Append(SubSeq(s, 1, m - 1), s[m]) \o SubSeq(s, m + 1, Len(s))
  BY <1>1, <1>2, Zenon
<1> QED BY <1>3, <1>4, <1>5, <1>6, Zenon

\* The parts before and after one of them.
Before(s, m) == SubSeq(s, 1, m - 1)
After(s, m) == SubSeq(s, m + 1, Len(s))

LEMMA FlattenSplit ==
  ASSUME NEW T, NEW s \in Seq(Seq(T)), NEW m \in 1..Len(s)
  PROVE  /\ FlattenSeq(s) = FlattenSeq(Before(s, m)) \o s[m] \o FlattenSeq(After(s, m))
         /\ Before(s, m) \in Seq(Seq(T)) /\ After(s, m) \in Seq(Seq(T))
<1> DEFINE U == Seq(T)
           a == Before(s, m)
           c == After(s, m)
           b == Append(a, s[m])
<1>1. a \in Seq(U) /\ c \in Seq(U) /\ s[m] \in U /\ s = b \o c
  <2> HIDE DEF U
  <2>1. s \in Seq(U)
    BY DEF U
  <2> QED BY <2>1, SplitSeq, Zenon DEF Before, After
<1> HIDE DEF a, c
<1>2. b \in Seq(Seq(T)) /\ FlattenSeq(b) = FlattenSeq(a) \o s[m]
  <2>1. b \in Seq(U)
    <3> HIDE DEF U
    <3> QED BY <1>1
  <2> QED BY <1>1, <2>1, FlattenAppend
<1> HIDE DEF b
<1>3. FlattenSeq(b \o c) = FlattenSeq(b) \o FlattenSeq(c)
  BY <1>1, <1>2, FlattenConcat
<1> QED BY <1>1, <1>2, <1>3 DEF a, c

LEMMA PartTextType ==
  ASSUME NEW part \in FlatPart
  PROVE  PartText(part) \in Seq(All)
<1>1. CASE ~ IsLoop(part)
  BY <1>1, FlatPartText DEF PartText, IsLoop
<1>2. CASE IsLoop(part)
  BY <1>2, FlatPartText, LoopText DEF PartText, IsLoop
<1> QED BY <1>1, <1>2

LEMMA InRange ==
  ASSUME NEW n \in Nat, NEW k \in 0..n, NEW h \in 1..n
  PROVE  h <= k => h \in 1..k
OBVIOUS

\* What Mixed makes of a part; it holds no loop when the part does not or was expanded.
LEMMA MixedPart ==
  ASSUME NEW parts \in Seq(FlatPart), NEW data, NEW k, NEW text, Partial(parts, data, k, text),
         NEW h \in 1..Len(parts)
  PROVE  /\ Mixed(parts, data, k)[h] \in Seq(All)
         /\ h <= k \/ ~ IsLoop(parts[h]) => Mixed(parts, data, k)[h] \in Seq(Mid)
         /\ ~ IsLoop(parts[h]) => Mixed(parts, data, k)[h] = parts[h].text
         /\ h <= k /\ IsLoop(parts[h]) =>
              /\ Mixed(parts, data, k)[h] = Filled(parts[h], data)
              /\ Filled(parts[h], data) \in Seq(Out)
         /\ ~ (h <= k) => Mixed(parts, data, k)[h] = PartText(parts[h])
<1> DEFINE x == Mixed(parts, data, k)[h]
<1>1. Len(parts) \in Nat /\ parts[h] \in FlatPart
  OBVIOUS
<1>2. h <= k => h \in 1..k
  BY <1>1, PartialParts, InRange
<1>3. x = IF h <= k THEN Half(parts[h], data) ELSE PartText(parts[h])
  BY <1>1, MixedAt
<1>4. parts[h].text \in Seq(Mid) /\ parts[h].text \in Seq(All)
  BY <1>1, FlatPartText
<1> HIDE DEF x
<1>5. CASE ~ IsLoop(parts[h])
  <2>1. x = parts[h].text
    BY <1>3, <1>5 DEF Half, PartText, IsLoop
  <2>2. ~ (h <= k) => x = PartText(parts[h])
    BY <1>3
  <2> QED BY <1>4, <1>5, <2>1, <2>2 DEF x
<1>6. CASE IsLoop(parts[h]) /\ h <= k
  <2>1. x = Filled(parts[h], data)
    BY <1>3, <1>6 DEF Half
  <2>2. Filled(parts[h], data) \in Seq(Out)
    BY <1>2, <1>6, PartialFilled
  <2>3. Filled(parts[h], data) \in Seq(Mid) /\ Filled(parts[h], data) \in Seq(All)
    BY <2>2, KindSubsets
  <2> QED BY <1>6, <2>1, <2>2, <2>3 DEF x
<1>7. CASE IsLoop(parts[h]) /\ ~ (h <= k)
  <2>1. x = PartText(parts[h])
    BY <1>3, <1>7
  <2>2. x \in Seq(All)
    BY <1>1, <2>1, PartTextType
  <2> QED BY <1>7, <2>1, <2>2 DEF x
<1> QED BY <1>5, <1>6, <1>7

LEMMA MixedType ==
  ASSUME NEW parts \in Seq(FlatPart), NEW data, NEW k, NEW text, Partial(parts, data, k, text)
  PROVE  Mixed(parts, data, k) \in Seq(Seq(All)) /\ Len(Mixed(parts, data, k)) = Len(parts)
<1> DEFINE M == Mixed(parts, data, k)
           n == Len(parts)
<1>1. n \in Nat
  OBVIOUS
<1>2. M = [i \in 1..n |-> M[i]] /\ Len(M) = n
  BY <1>1 DEF Mixed
<1>3. \A h \in 1..n : M[h] \in Seq(All)
  BY MixedPart
<1> HIDE DEF M, n
<1>4. M \in Seq(Seq(All))
  BY <1>1, <1>2, <1>3
<1> QED BY <1>2, <1>4 DEF M, n

\* Part m is the first loop that is left, and the text is what precedes it, the loop, and
\* what follows.
IsFirstLoop(parts, data, k, text, m) ==
  LET M == Mixed(parts, data, k)
      A == FlattenSeq(Before(M, m))
      C == FlattenSeq(After(M, m))
  IN  /\ k < m /\ IsLoop(parts[m])
      /\ \A i \in 1..m - 1 : k < i => ~ IsLoop(parts[i])
      /\ A \in Seq(Mid) /\ C \in Seq(All)
      /\ text = A \o PartText(parts[m]) \o C

LEMMA FirstLoop ==
  ASSUME NEW parts \in Seq(FlatPart), NEW data, NEW k, NEW text, Partial(parts, data, k, text),
         NEW j \in 1..Len(parts), k < j, IsLoop(parts[j])
  PROVE  \E m \in 1..Len(parts) : IsFirstLoop(parts, data, k, text, m)
<1> DEFINE n == Len(parts)
           M == Mixed(parts, data, k)
           L == {i \in 1..n : k < i /\ IsLoop(parts[i])}
<1>1. n \in Nat /\ k \in 0..n
  BY PartialParts
<1>2. L \in SUBSET Nat /\ j \in L
  OBVIOUS
<1>3. PICK m \in L : \A i \in L : m <= i
  <2> HIDE DEF L
  <2> QED BY <1>2, LeastMember
<1>4. m \in 1..n /\ k < m /\ IsLoop(parts[m])
  OBVIOUS
<1>5. \A i \in 1..n : k < i /\ i < m => ~ IsLoop(parts[i])
  <2> SUFFICES ASSUME NEW i \in 1..n, k < i, i < m, IsLoop(parts[i])
               PROVE  FALSE
    OBVIOUS
  <2>1. i \in L
    OBVIOUS
  <2>2. m <= i
    BY <1>3, <2>1
  <2> HIDE DEF n
  <2> QED BY <1>1, <1>4, <2>2
<1>6. \A i \in 1..n : i < m => M[i] \in Seq(Mid)
  <2> SUFFICES ASSUME NEW i \in 1..n, i < m
               PROVE  M[i] \in Seq(Mid)
    OBVIOUS
  <2>1. i <= k \/ ~ IsLoop(parts[i])
    <3> HIDE DEF n, L
    <3> QED BY <1>1, <1>5
  <2> QED BY <2>1, MixedPart
<1>7. M[m] = PartText(parts[m])
  <2>1. ~ (m <= k)
    <3> HIDE DEF n, L
    <3> QED BY <1>1, <1>4
  <2> QED BY <1>4, <2>1, MixedPart
<1>8. M \in Seq(Seq(All)) /\ Len(M) = n
  BY MixedType
<1>9. text = FlattenSeq(M)
  BY PartialParts
<1> HIDE DEF L, M, n
<1>10. /\ FlattenSeq(M) = FlattenSeq(Before(M, m)) \o M[m] \o FlattenSeq(After(M, m))
       /\ After(M, m) \in Seq(Seq(All))
  BY <1>4, <1>8, FlattenSplit
<1>11. Before(M, m) \in Seq(Seq(Mid))
  <2> DEFINE V == Seq(Mid)
  <2>1. 1 \in Int /\ m - 1 \in Int
    BY <1>1, <1>4
  <2>2. \A i \in 1..m - 1 : M[i] \in V
    <3>1. \A i \in 1..m - 1 : i \in 1..n /\ i < m
      BY <1>1, <1>4
    <3> QED BY <1>6, <3>1
  <2> HIDE DEF V
  <2>3. SubSeq(M, 1, m - 1) \in Seq(V)
    BY <2>1, <2>2, SubSeqProperties
  <2> QED BY <2>3 DEF Before, V
<1>12. FlattenSeq(Before(M, m)) \in Seq(Mid) /\ FlattenSeq(After(M, m)) \in Seq(All)
  BY <1>10, <1>11, FlattenType
<1>13. text = FlattenSeq(Before(M, m)) \o PartText(parts[m]) \o FlattenSeq(After(M, m))
  BY <1>7, <1>9, <1>10
<1>14. \A i \in 1..m - 1 : k < i => ~ IsLoop(parts[i])
  <2>1. \A i \in 1..m - 1 : i \in 1..n /\ i < m
    BY <1>1, <1>4
  <2> QED BY <1>5, <2>1
<1>15. IsFirstLoop(parts, data, k, text, m)
  BY <1>4, <1>12, <1>13, <1>14, Zenon DEF IsFirstLoop, M
<1> QED BY <1>4, <1>15 DEF n

LEMMA ItemsList ==
  ASSUME NEW data, IsData(data), NEW l
  PROVE  /\ Len(Items(data, l)) \in Nat /\ DOMAIN Items(data, l) = 1..Len(Items(data, l))
         /\ \A i \in DOMAIN Items(data, l) :
              /\ l \in DOMAIN data /\ data[l].type = "list"
              /\ Items(data, l) = data[l].items
<1>1. CASE l \in DOMAIN data /\ data[l].type = "list"
  <2>1. Items(data, l) = data[l].items
    BY <1>1 DEF Items
  <2>2. Len(data[l].items) \in Nat /\ DOMAIN data[l].items = 1..Len(data[l].items)
    BY <1>1 DEF IsData
  <2> QED BY <1>1, <2>1, <2>2
<1>2. CASE ~ (l \in DOMAIN data /\ data[l].type = "list")
  <2>1. Items(data, l) = <<>>
    BY <1>2 DEF Items
  <2> QED BY <2>1
<1> QED BY <1>1, <1>2

\* A loop over the data of a part whose block the iteration does not refuse.
LEMMA FilledType ==
  ASSUME NEW data, IsData(data), PlainData(data), NEW part \in FlatPart, IsLoop(part),
         \/ Positions(part.text, "var") = {}
         \/ \A i \in DOMAIN Items(data, part.loop) :
              Items(data, part.loop)[i].type = "object"
  PROVE  Filled(part, data) \in Seq(Out)
<1> DEFINE items == Items(data, part.loop)
           copies == [i \in DOMAIN items |-> ReplaceVariables(part.text, items[i].at)]
<1>1. part.text \in Seq(Mid)
  BY FlatPartText
<1>2. Len(items) \in Nat /\ DOMAIN items = 1..Len(items)
  BY ItemsList
<1>3. ASSUME NEW i \in DOMAIN items
      PROVE  ReplaceVariables(part.text, items[i].at) \in Seq(Out)
  <2>1. CASE Positions(part.text, "var") = {}
    <3>1. \A t \in DOMAIN part.text : part.text[t].kind # "var"
      BY <2>1 DEF Positions
    <3>2. \A x \in Mid : x.kind # "var" => x \in Out
      BY DEF Mid, Out, Kind
    <3>3. part.text \in Seq(Out)
      BY <1>1, <3>1, <3>2
    <3> QED BY <3>3, ReplaceNone
  <2>2. CASE items[i].type = "object"
    <3>1. part.loop \in DOMAIN data /\ data[part.loop].type = "list"
          /\ items = data[part.loop].items
      BY ItemsList
    <3> HIDE DEF items
    <3>2. Closed(data[part.loop].items[i].at)
      BY <2>2, <3>1, PlainItems
    <3>3. Closed(items[i].at)
      BY <3>1, <3>2
    <3> QED BY <1>1, <3>3, ReplaceMid
  <2> QED BY <2>1, <2>2
<1>4. copies \in Seq(Seq(Out))
  <2> DEFINE R(i) == ReplaceVariables(part.text, items[i].at)
             V == Seq(Out)
  <2>1. \A i \in 1..Len(items) : R(i) \in V
    BY <1>2, <1>3
  <2>2. copies = [i \in 1..Len(items) |-> R(i)]
    BY <1>2
  <2> HIDE DEF R, items, V, copies
  <2>3. [i \in 1..Len(items) |-> R(i)] \in Seq(V)
    BY <1>2, <2>1
  <2> QED BY <2>2, <2>3 DEF V
<1>5. Filled(part, data) = FlattenSeq(copies)
  BY DEF Filled, IsLoop
<1> HIDE DEF copies
<1> QED BY <1>4, <1>5, FlattenType

\* As long as the search finds a loop, there is one left to expand, and where it is.
LEMMA LoopLeft ==
  ASSUME NEW parts \in Seq(FlatPart), NEW data, NEW k, NEW text, Partial(parts, data, k, text)
  PROVE  HasLoop(text) <=> \E j \in 1..Len(parts) : k < j /\ IsLoop(parts[j])
<1> DEFINE M == Mixed(parts, data, k)
           n == Len(parts)
<1>1. n \in Nat /\ k \in 0..n /\ text = FlattenSeq(M)
  BY PartialParts
<1>2. Len(M) = n /\ M \in Seq(Seq(All))
  BY MixedType
<1>3. ASSUME \A j \in 1..n : k < j => ~ IsLoop(parts[j])
      PROVE  ~ HasLoop(text)
  <2>1. \A j \in 1..n : j <= k \/ k < j
    <3> HIDE DEF n
    <3> QED BY <1>1
  <2>2. \A j \in 1..n : M[j] \in Seq(Mid)
    BY <1>3, <2>1, MixedPart
  <2> DEFINE V == Seq(Mid)
  <2> HIDE DEF M, n
  <2>3. M \in Seq(V)
    <3> HIDE DEF V
    <3>1. \A j \in 1..n : M[j] \in V
      BY <2>2 DEF V
    <3> QED BY <1>2, <3>1
  <2>4. FlattenSeq(M) \in Seq(Mid)
    BY <2>3, FlattenType DEF V
  <2> QED BY <1>1, <2>4, NoLoop
<1>4. ASSUME NEW j \in 1..n, k < j, IsLoop(parts[j])
      PROVE  HasLoop(text)
  <2>0. PICK m \in 1..n : IsFirstLoop(parts, data, k, text, m)
    BY <1>4, FirstLoop
  <2>1. /\ IsLoop(parts[m])
        /\ FlattenSeq(Before(M, m)) \in Seq(Mid) /\ FlattenSeq(After(M, m)) \in Seq(All)
        /\ text = FlattenSeq(Before(M, m)) \o PartText(parts[m]) \o FlattenSeq(After(M, m))
    BY <2>0, Zenon DEF IsFirstLoop
  <2> DEFINE A == FlattenSeq(Before(M, m))
             C == FlattenSeq(After(M, m))
             part == parts[m]
  <2>2. part \in FlatPart
    OBVIOUS
  <2>3. PartText(part) = <<For(part.loop)>> \o part.text \o <<End>>
    BY <2>1 DEF PartText, IsLoop
  <2>4. A \in Seq(Mid) /\ C \in Seq(All) /\ text = A \o PartText(part) \o C
    BY <2>1
  <2> HIDE DEF A, C, part
  <2>5. part.text \in Seq(Mid) /\ part.loop \in STRING
    BY <2>2, FlatPartText
  <2>6. IsLoopIn(text, A, part.loop, part.text, C)
    BY <2>3, <2>4, Zenon DEF IsLoopIn
  <2>7. Found(text, A, part.loop, part.text, C)
    BY <2>4, <2>5, <2>6, LoopFound
  <2> QED BY <2>7 DEF Found
<1> QED BY <1>3, <1>4

\* An iteration that does not fail expands the first loop that is left, and nothing else.
LEMMA LoopStep ==
  ASSUME NEW parts \in Seq(FlatPart), NEW data, IsData(data), PlainData(data),
         NEW k, NEW text, Partial(parts, data, k, text),
         HasLoop(text), ~ ItemRaises(text, data)
  PROVE  \E m : Partial(parts, data, m, ExpandLoop(text, data))
<1> DEFINE n == Len(parts)
           M == Mixed(parts, data, k)
<1>1. PICK j \in 1..n : k < j /\ IsLoop(parts[j])
  BY LoopLeft
<1>0. PICK m \in 1..n : IsFirstLoop(parts, data, k, text, m)
  BY <1>1, FirstLoop
<1>2. /\ k < m /\ IsLoop(parts[m])
      /\ \A i \in 1..m - 1 : k < i => ~ IsLoop(parts[i])
      /\ FlattenSeq(Before(M, m)) \in Seq(Mid)
      /\ FlattenSeq(After(M, m)) \in Seq(All)
      /\ text = FlattenSeq(Before(M, m)) \o PartText(parts[m]) \o FlattenSeq(After(M, m))
  BY <1>0, Zenon DEF IsFirstLoop
<1> DEFINE A == FlattenSeq(Before(M, m))
           C == FlattenSeq(After(M, m))
           part == parts[m]
           N == Mixed(parts, data, m)
           new == FlattenSeq(N)
<1>3. part \in FlatPart
  OBVIOUS
<1>4. IsLoop(part) /\ A \in Seq(Mid) /\ C \in Seq(All) /\ text = A \o PartText(part) \o C
  BY <1>2
<1>5. n \in Nat /\ k \in 0..n
  BY PartialParts
<1>6. \A i \in 1..n : i # m => i <= k \/ m < i \/ (k < i /\ i < m /\ ~ IsLoop(parts[i]))
  <2> HIDE DEF n
  <2>1. \A i \in 1..n : k < i /\ i < m => i \in 1..m - 1
    BY <1>5
  <2> QED BY <1>2, <1>5, <2>1
<1>7. m \in Nat /\ k < m
  <2> HIDE DEF n
  <2> QED BY <1>2, <1>5
<1> HIDE DEF A, C, part
<1>8. part.text \in Seq(Mid) /\ part.loop \in STRING
  BY <1>3, FlatPartText
<1>9. IsLoopIn(text, A, part.loop, part.text, C)
  <2>1. PartText(part) = <<For(part.loop)>> \o part.text \o <<End>>
    BY <1>4 DEF PartText, IsLoop
  <2> QED BY <1>4, <2>1, Zenon DEF IsLoopIn
<1>10. /\ Block(text) = part.text
       /\ text[Opening(text)].name = part.loop
       /\ SubSeq(text, 1, Opening(text) - 1) = A
       /\ SubSeq(text, Closing(text) + 1, Len(text)) = C
  <2>1. Found(text, A, part.loop, part.text, C)
    <3> HIDE DEF M, N, n, new
    <3> QED BY <1>4, <1>8, <1>9, LoopFound
  <2> QED BY <2>1, Zenon DEF Found
<1>11. LoopItems(text, data) = Items(data, part.loop)
  BY <1>10, Zenon DEF LoopItems
<1>12. ExpandLoop(text, data) = A \o Filled(part, data) \o C
  BY <1>4, <1>10, <1>11, Zenon DEF ExpandLoop, Filled, IsLoop
<1>13. Filled(part, data) \in Seq(Out)
  <2>1. \/ Positions(part.text, "var") = {}
        \/ \A i \in DOMAIN Items(data, part.loop) : Items(data, part.loop)[i].type = "object"
    BY <1>10, <1>11, Zenon DEF ItemRaises
  <2> QED BY <1>3, <1>4, <2>1, FilledType
<1>14. Partial(parts, data, m, new)
  <2>1. \A i \in 1..m : IsLoop(parts[i]) => Filled(parts[i], data) \in Seq(Out)
    <3> SUFFICES ASSUME NEW i \in 1..m, IsLoop(parts[i])
                 PROVE  Filled(parts[i], data) \in Seq(Out)
      OBVIOUS
    <3>1. i \in 1..n /\ (i <= k => i \in 1..k) /\ ~ (m < i)
      <4> HIDE DEF n
      <4> QED BY <1>5, <1>7
    <3>2. CASE i = m
      BY <1>13, <3>2 DEF part
    <3>3. CASE i # m
      <4>1. i <= k
        BY <1>6, <3>1, <3>3
      <4> QED BY <3>1, <4>1, PartialFilled
    <3> QED BY <3>2, <3>3
  <2>2. m \in 0..n
    <3> HIDE DEF n
    <3> QED BY <1>5
  <2> QED BY <2>1, <2>2, Zenon DEF Partial
<1>15. N \in Seq(Seq(All)) /\ Len(N) = n /\ M \in Seq(Seq(All)) /\ Len(M) = n
  BY <1>14, MixedType
<1>16. N[m] = Filled(part, data)
  <2>1. m <= m
    BY <1>7
  <2> QED BY <1>2, <1>14, <2>1, MixedPart DEF part
<1>17. \A i \in 1..n : i # m => N[i] = M[i]
  <2> SUFFICES ASSUME NEW i \in 1..n, i # m
               PROVE  N[i] = M[i]
    OBVIOUS
  <2>1. /\ N[i] = IF i <= m THEN Half(parts[i], data) ELSE PartText(parts[i])
        /\ M[i] = IF i <= k THEN Half(parts[i], data) ELSE PartText(parts[i])
    BY MixedAt, <1>5
  <2>2. ~ IsLoop(parts[i]) => Half(parts[i], data) = PartText(parts[i])
    BY DEF Half, PartText, IsLoop
  <2> HIDE DEF N, M
  <2>3. (i <= k => i <= m) /\ (m < i => ~ (i <= m) /\ ~ (i <= k))
    <3> HIDE DEF n
    <3> QED BY <1>5, <1>7
  <2> QED BY <1>6, <2>1, <2>2, <2>3
<1> HIDE DEF N, M, n
<1>18. new = FlattenSeq(Before(N, m)) \o Filled(part, data) \o FlattenSeq(After(N, m))
  BY <1>15, <1>16, FlattenSplit
<1>19. Before(N, m) = Before(M, m) /\ After(N, m) = After(M, m)
  <2> DEFINE V == Seq(All)
  <2>1. N \in Seq(V) /\ M \in Seq(V)
    BY <1>15
  <2> HIDE DEF V
  <2>2. Before(N, m) = Before(M, m)
    BY <1>15, <1>17, <2>1 DEF Before
  <2>3. After(N, m) = After(M, m)
    <3>1. \A i \in m + 1..n : i \in 1..n /\ i # m
      BY <1>7
    <3>2. \A i \in m + 1..n : N[i] = M[i]
      BY <1>17, <3>1
    <3>3. SubSeq(N, m + 1, n) = SubSeq(M, m + 1, n)
      BY <1>5, <1>7, <1>15, <2>1, <3>2
    <3> QED BY <1>15, <3>3, Zenon DEF After
  <2> QED BY <2>2, <2>3
<1>20. new = ExpandLoop(text, data)
  BY <1>12, <1>18, <1>19, Zenon DEF A, C
<1> HIDE DEF new
<1> QED BY <1>14, <1>20

\* When no loop is left, the last replacement fills what remains.
LEMMA LastStep ==
  ASSUME NEW parts \in Seq(FlatPart), NEW data, IsData(data), PlainData(data),
         NEW k, NEW text, Partial(parts, data, k, text), ~ HasLoop(text)
  PROVE  ReplaceVariables(text, data)
           = FlattenSeq([i \in DOMAIN parts |-> Filled(parts[i], data)])
<1> DEFINE n == Len(parts)
           M == Mixed(parts, data, k)
<1>1. n \in Nat /\ k \in 0..n /\ DOMAIN parts = 1..n /\ text = FlattenSeq(M)
  BY PartialParts
<1>2. \A j \in 1..n : j <= k \/ ~ IsLoop(parts[j])
  <2>1. \A j \in 1..n : j <= k \/ k < j
    <3> HIDE DEF n
    <3> QED BY <1>1
  <2> QED BY <2>1, LoopLeft
<1>3. Fits(data, Mid, Out)
  BY PlainClosed, OneOfMid DEF Fits
<1>4. ASSUME NEW i \in 1..n
      PROVE  /\ M[i] \in Seq(Mid)
             /\ ReplaceVariables(M[i], data) = Filled(parts[i], data)
  <2>1. M[i] \in Seq(Mid)
    BY <1>2, MixedPart
  <2>2. CASE ~ IsLoop(parts[i])
    <3>1. M[i] = parts[i].text
      BY <2>2, MixedPart
    <3>2. Filled(parts[i], data) = ReplaceVariables(parts[i].text, data)
      BY <2>2 DEF Filled, IsLoop
    <3> QED BY <2>1, <3>1, <3>2
  <2>3. CASE IsLoop(parts[i])
    <3>1. M[i] = Filled(parts[i], data) /\ Filled(parts[i], data) \in Seq(Out)
      BY <1>2, <2>3, MixedPart
    <3> QED BY <2>1, <3>1, ReplaceNone
  <2> QED BY <2>2, <2>3
<1>5. Len(M) = n /\ M \in Seq(Seq(All))
  BY MixedType
<1> HIDE DEF M, n
<1>6. M \in Seq(Seq(Mid))
  <2> DEFINE V == Seq(Mid)
  <2>1. \A i \in 1..n : M[i] \in V
    BY <1>4
  <2> HIDE DEF V
  <2>2. M \in Seq(V)
    BY <1>5, <2>1
  <2> QED BY <2>2 DEF V
<1>7. ReplaceVariables(FlattenSeq(M), data)
        = FlattenSeq([i \in 1..Len(M) |-> ReplaceVariables(M[i], data)])
  BY <1>3, <1>6, ReplaceFlatten
<1>8. [i \in 1..Len(M) |-> ReplaceVariables(M[i], data)]
        = [i \in DOMAIN parts |-> Filled(parts[i], data)]
  BY <1>1, <1>4, <1>5
<1> QED BY <1>1, <1>7, <1>8
-----------------------------------------------------------------------------
(* The inductive invariant.                                                *)

States == {"idle", "start", "extract", "loops", "repackage", "convert", "move"} \cup Final

TypeOK ==
  /\ \E c \in Case : job = c.job
  /\ pc \in [Run -> States] /\ DOMAIN content = Run
  /\ DOMAIN files = Dir \X Name /\ quiet \subseteq Run

\* A flat template is expanded up to one of its parts, and after the last replacement
\* filled.
Expanded(p) ==
  Flat(job[p]) /\ PlainData(job[p].data) =>
    /\ pc[p] = "loops" => \E k : Partial(job[p].parts, job[p].data, k, content[p])
    /\ pc[p] \in {"repackage", "convert", "move", "done"} =>
         content[p] = FlattenSeq([i \in DOMAIN job[p].parts |->
                                    Filled(job[p].parts[i], job[p].data)])

\* What a run that has its directory to itself finds there.
Own(p) ==
  Alone(p) /\ p \notin quiet =>
    /\ pc[p] = "move" => files[Generated(p)] = Pdf(content[p])
    /\ pc[p] = "done" => files[Output(p)] = Pdf(content[p])
    /\ pc[p] # "done" /\ job[p].name # "modified" => files[Output(p)] \in {Absent, Other}

OdtInv == TypeOK /\ \A p \in Run : Expanded(p) /\ Own(p)

LEMMA JobType ==
  ASSUME TypeOK, NEW p \in Run
  PROVE  /\ job[p].parts \in Seq([loop : STRING, text : Seq(Token)])
         /\ IsData(job[p].data)
         /\ job[p].dir \in Dir /\ job[p].name \in Name
         /\ Generated(p) \in Dir \X Name /\ Output(p) \in Dir \X Name
<1>1. PICK c \in Case : job = c.job
  BY DEF TypeOK
<1>2. /\ job[p].parts \in Seq([loop : STRING, text : Seq(Token)]) /\ IsData(job[p].data)
      /\ job[p].dir \in Dir /\ job[p].name \in Name
  BY <1>1, CaseAssumption
<1>3. Generated(p) \in Dir \X Name /\ Output(p) \in Dir \X Name
  BY <1>2, NameAssumption DEF Generated, Output
<1> QED BY <1>2, <1>3

LEMMA FlatParts ==
  ASSUME TypeOK, NEW p \in Run, Flat(job[p])
  PROVE  job[p].parts \in Seq(FlatPart)
<1> DEFINE parts == job[p].parts
           P == [loop : STRING, text : Seq(Token)]
<1>1. parts \in Seq(P)
  BY JobType
<1>2. ASSUME NEW i \in DOMAIN parts
      PROVE  parts[i] \in FlatPart
  <2>1. parts[i] \in P
    <3> HIDE DEF parts, P
    <3> QED BY <1>1
  <2>2. \A t \in DOMAIN parts[i].text : parts[i].text[t].kind \in {"word", "var"}
    BY DEF Flat
  <2> DEFINE part == parts[i]
             text == part.text
  <2>3. text \in Seq(Token) /\ part = [loop |-> part.loop, text |-> text] /\ part.loop \in STRING
    <3> HIDE DEF parts
    <3> QED BY <2>1
  <2>4. \A x \in Token : x.kind \in {"word", "var"} => x \in Mid
    BY DEF Token, Mid, Kind, Names
  <2>5. \A t \in DOMAIN text : text[t].kind \in {"word", "var"}
    BY <2>2
  <2> HIDE DEF text, part
  <2>6. text \in Seq(Mid)
    BY <2>3, <2>4, <2>5
  <2>7. part \in FlatPart
    BY <2>3, <2>6 DEF FlatPart
  <2> QED BY <2>7 DEF part
<1> HIDE DEF parts, P
<1>3. parts \in Seq(FlatPart)
  BY <1>1, <1>2
<1> QED BY <1>3 DEF parts

\* Before any loop was expanded.
LEMMA PartialStart ==
  ASSUME TypeOK, NEW p \in Run, Flat(job[p])
  PROVE  Partial(job[p].parts, job[p].data, 0, Template(job[p]))
<1> DEFINE parts == job[p].parts
           data == job[p].data
           n == Len(parts)
<1>1. parts \in Seq(FlatPart)
  BY FlatParts
<1>2. n \in Nat /\ DOMAIN parts = 1..n
  <2> HIDE DEF parts
  <2> QED BY <1>1
<1>3. Mixed(parts, data, 0) = [i \in 1..n |-> PartText(parts[i])]
  <2>1. \A i \in 1..n : ~ (i <= 0)
    <3> HIDE DEF n
    <3> QED BY <1>2
  <2> QED BY <2>1 DEF Mixed
<1>4. Template(job[p]) = FlattenSeq(Mixed(parts, data, 0))
  BY <1>2, <1>3 DEF Template
<1>5. 0 \in 0..n /\ \A i \in 1..0 : FALSE
  BY <1>2
<1> QED BY <1>4, <1>5, Zenon DEF Partial

LEMMA InitOdt == Init => OdtInv
<1> SUFFICES ASSUME Init
             PROVE  OdtInv
  OBVIOUS
<1>1. PICK c \in Case : job = c.job /\ files = c.files
  BY DEF Init
<1>2. files \in [Dir \X Name -> {Absent, Other}]
  BY <1>1, CaseAssumption
<1>3. \A p \in Run : pc[p] \in {"idle", "start"}
  BY DEF Init
<1>4. TypeOK
  BY <1>1, <1>2 DEF Init, TypeOK, States
<1>5. ASSUME NEW p \in Run
      PROVE  Expanded(p) /\ Own(p)
  <2>1. Expanded(p)
    BY <1>3 DEF Expanded
  <2>2. files[Output(p)] \in {Absent, Other}
    BY <1>2, <1>4, JobType
  <2>3. Own(p)
    BY <1>3, <2>2 DEF Own
  <2> QED BY <2>1, <2>3
<1> QED BY <1>4, <1>5 DEF OdtInv

LEMMA TypeStep ==
  ASSUME TypeOK, [Next]_vars
  PROVE  TypeOK'
<1>1. CASE UNCHANGED vars
  BY <1>1 DEF TypeOK, vars
<1>2. ASSUME NEW p \in Run, Command(p)
      PROVE  TypeOK'
  <2>1. job' = job
    BY <1>2 DEF Command, ReadData, ExtractContent, ProcessLoop, ReplaceTop, Repackage, Convert,
             StepFails, MovePdf
  <2>2. pc' \in [Run -> States]
    BY <1>2 DEF TypeOK, States, Final, Step, Command, ReadData, ExtractContent, ProcessLoop,
             ReplaceTop, Repackage, Convert, StepFails, MovePdf
  <2>3. DOMAIN content' = Run
    BY <1>2 DEF TypeOK, Command, ReadData, ExtractContent, ProcessLoop, ReplaceTop, Repackage,
             Convert, StepFails, MovePdf
  <2>4. DOMAIN files' = Dir \X Name
    BY <1>2 DEF TypeOK, Command, ReadData, ExtractContent, ProcessLoop, ReplaceTop, Repackage,
             Convert, StepFails, MovePdf
  <2>5. quiet' \subseteq Run
    BY <1>2 DEF TypeOK, Command, ReadData, ExtractContent, ProcessLoop, ReplaceTop, Repackage,
             Convert, StepFails, MovePdf
  <2> QED BY <2>1, <2>2, <2>3, <2>4, <2>5 DEF TypeOK
<1> QED BY <1>1, <1>2 DEF Next

-----------------------------------------------------------------------------
(* FlatTemplateFilled.                                                     *)

\* A step of a run does not touch another run's content.
LEMMA OthersUntouched ==
  ASSUME TypeOK, NEW q \in Run, Command(q), NEW p \in Run, p # q
  PROVE  pc'[p] = pc[p] /\ content'[p] = content[p] /\ (p \in quiet' <=> p \in quiet)
<1>1. pc'[p] = pc[p]
  BY DEF TypeOK, Step, Command, ReadData, ExtractContent, ProcessLoop, ReplaceTop, Repackage,
         Convert, StepFails, MovePdf
<1>2. content'[p] = content[p]
  BY DEF TypeOK, Command, ReadData, ExtractContent, ProcessLoop, ReplaceTop, Repackage,
         Convert, StepFails, MovePdf
<1>3. p \in quiet' <=> p \in quiet
  BY DEF TypeOK, Command, ReadData, ExtractContent, ProcessLoop, ReplaceTop, Repackage,
         Convert, StepFails, MovePdf
<1> QED BY <1>1, <1>2, <1>3

LEMMA JobStays ==
  ASSUME TypeOK, [Next]_vars
  PROVE  job' = job
BY DEF Next, vars, Command, ReadData, ExtractContent, ProcessLoop, ReplaceTop, Repackage,
       Convert, StepFails, MovePdf

LEMMA ExpandedStep ==
  ASSUME TypeOK, NEW p \in Run, Expanded(p), Command(p)
  PROVE  Expanded(p)'
<1> DEFINE parts == job[p].parts
           data == job[p].data
           full == FlattenSeq([i \in DOMAIN parts |-> Filled(parts[i], data)])
<1>1. job' = job
  <2>1. Next
    BY DEF Next
  <2> QED BY <2>1, JobStays
<1> SUFFICES ASSUME Flat(job[p]), PlainData(data)
             PROVE  /\ pc'[p] = "loops" => \E k : Partial(parts, data, k, content'[p])
                    /\ pc'[p] \in {"repackage", "convert", "move", "done"} => content'[p] = full
  BY <1>1 DEF Expanded
<1>2. parts \in Seq(FlatPart) /\ IsData(data)
  BY FlatParts, JobType
<1>3. /\ pc[p] = "loops" => \E k : Partial(parts, data, k, content[p])
      /\ pc[p] \in {"repackage", "convert", "move", "done"} => content[p] = full
  BY DEF Expanded
<1>4. Partial(parts, data, 0, Template(job[p]))
  BY PartialStart
<1> HIDE DEF parts, data, full
<1>5. p \in DOMAIN pc /\ p \in DOMAIN content
  BY DEF TypeOK
<1>6. CASE ReadData(p)
  <2>1. pc'[p] \in {"extract", "refused"}
    BY <1>5, <1>6 DEF ReadData
  <2> QED BY <2>1
<1>7. CASE ExtractContent(p)
  <2>1. pc'[p] = "loops" /\ content'[p] = Template(job[p])
    BY <1>5, <1>7 DEF ExtractContent, Step
  <2> QED BY <1>4, <2>1
<1>8. CASE ProcessLoop(p)
  <2>1. pc[p] = "loops" /\ HasLoop(content[p])
    BY <1>8 DEF ProcessLoop
  <2>2. CASE ItemRaises(content[p], job[p].data)
    <3>1. pc'[p] = "failed"
      BY <1>5, <1>8, <2>2 DEF ProcessLoop
    <3> QED BY <3>1
  <2>3. CASE ~ ItemRaises(content[p], job[p].data)
    <3>1. content'[p] = ExpandLoop(content[p], job[p].data) /\ pc'[p] = "loops"
      BY <1>5, <1>8, <2>1, <2>3 DEF ProcessLoop
    <3>2. PICK k : Partial(parts, data, k, content[p])
      BY <1>3, <2>1
    <3>3. ~ ItemRaises(content[p], data)
      BY <2>3 DEF data
    <3>4. \E m : Partial(parts, data, m, ExpandLoop(content[p], data))
      BY <1>2, <2>1, <3>2, <3>3, LoopStep
    <3>5. content'[p] = ExpandLoop(content[p], data)
      BY <3>1 DEF data
    <3> QED BY <3>1, <3>4, <3>5
  <2> QED BY <2>2, <2>3
<1>9. CASE ReplaceTop(p)
  <2>1. pc[p] = "loops" /\ ~ HasLoop(content[p]) /\ pc'[p] = "repackage"
        /\ content'[p] = ReplaceVariables(content[p], data)
    BY <1>5, <1>9 DEF ReplaceTop, Step, data
  <2>2. PICK k : Partial(parts, data, k, content[p])
    BY <1>3, <2>1
  <2>3. ReplaceVariables(content[p], data) = full
    BY <1>2, <2>1, <2>2, LastStep DEF full
  <2> QED BY <2>1, <2>3
<1>10. CASE Repackage(p)
  <2>1. pc[p] = "repackage" /\ pc'[p] = "convert" /\ content' = content
    BY <1>5, <1>10 DEF Repackage, Step
  <2> QED BY <1>3, <2>1
<1>11. CASE Convert(p)
  <2>1. pc[p] = "convert" /\ pc'[p] \in {"move", "failed"} /\ content' = content
    BY <1>5, <1>11 DEF Convert, Step
  <2> QED BY <1>3, <2>1
<1>12. CASE StepFails(p)
  <2>1. pc'[p] = "failed"
    BY <1>5, <1>12 DEF StepFails
  <2> QED BY <2>1
<1>13. CASE MovePdf(p)
  <2>1. pc[p] = "move" /\ pc'[p] \in {"failed", "done"} /\ content' = content
    BY <1>5, <1>13 DEF MovePdf
  <2> QED BY <1>3, <2>1
<1> QED BY <1>6, <1>7, <1>8, <1>9, <1>10, <1>11, <1>12, <1>13 DEF Command

-----------------------------------------------------------------------------
(* OutputIsOwn.                                                            *)

\* A run that has its directory to itself had it before: nobody changes directories, and a
\* run without a job never gets one.
LEMMA AloneBefore ==
  ASSUME TypeOK, [Next]_vars, NEW p \in Run, Alone(p)'
  PROVE  Alone(p)
<1>1. job' = job
  BY JobStays
<1>2. ASSUME NEW q \in Run, pc'[q] = "idle"
      PROVE  pc[q] = "idle"
  BY <1>2 DEF TypeOK, Next, vars, Step, Command, ReadData, ExtractContent, ProcessLoop,
            ReplaceTop, Repackage, Convert, StepFails, MovePdf
<1> QED BY <1>1, <1>2 DEF Alone

\* Nobody else's step changes a file of such a run.
LEMMA FilesOfOthers ==
  ASSUME TypeOK, NEW q \in Run, Command(q), NEW p \in Run, p # q, Alone(p)
  PROVE  files'[Generated(p)] = files[Generated(p)] /\ files'[Output(p)] = files[Output(p)]
<1>1. pc[q] # "idle"
  BY DEF Step, Command, ReadData, ExtractContent, ProcessLoop, ReplaceTop, Repackage, Convert,
         StepFails, MovePdf
<1>2. job[q].dir # job[p].dir
  BY <1>1 DEF Alone
<1> DEFINE g == Generated(q)
           o == Output(q)
<1>3. ASSUME NEW f \in {Generated(p), Output(p)}
      PROVE  f # g /\ f # o
  BY <1>2 DEF Generated, Output
<1>4. Generated(p) \in DOMAIN files /\ Output(p) \in DOMAIN files
  BY JobType DEF TypeOK
<1> HIDE DEF g, o
<1>5. ASSUME NEW f \in {Generated(p), Output(p)}
      PROVE  files'[f] = files[f]
  <2>0. f \in DOMAIN files /\ f # g /\ f # o
    BY <1>3, <1>4
  <2>1. CASE Convert(q)
    <3>1. files' = files \/ \E x : files' = [files EXCEPT ![g] = x]
      BY <2>1 DEF Convert, g
    <3> QED BY <2>0, <3>1
  <2>2. CASE MovePdf(q)
    <3>1. files' = files \/ \E x, y : files' = [files EXCEPT ![o] = x, ![g] = y]
      BY <2>2 DEF MovePdf, g, o
    <3> QED BY <2>0, <3>1
  <2>3. CASE ~ (Convert(q) \/ MovePdf(q))
    <3>1. files' = files
      BY <2>3 DEF Command, ReadData, ExtractContent, ProcessLoop, ReplaceTop, Repackage,
                  StepFails
    <3> QED BY <3>1
  <2> QED BY <2>1, <2>2, <2>3
<1> QED BY <1>5

LEMMA OwnStep ==
  ASSUME TypeOK, NEW p \in Run, Own(p), Command(p), Alone(p)
  PROVE  Own(p)'
<1> DEFINE g == Generated(p)
           o == Output(p)
<1>1. job' = job
  <2>1. Next
    BY DEF Next
  <2> QED BY <2>1, JobStays
<1>2. g' = g /\ o' = o
  BY <1>1 DEF Generated, Output
<1>3. g \in DOMAIN files /\ o \in DOMAIN files /\ p \in DOMAIN pc /\ p \in DOMAIN content
  BY JobType DEF TypeOK
<1>4. job[p].name # "modified" => g # o
  BY DEF Generated, Output
<1> SUFFICES ASSUME p \notin quiet'
             PROVE  /\ pc'[p] = "move" => files'[g] = Pdf(content'[p])
                    /\ pc'[p] = "done" => files'[o] = Pdf(content'[p])
                    /\ pc'[p] # "done" /\ job[p].name # "modified" =>
                         files'[o] \in {Absent, Other}
  BY <1>1, <1>2 DEF Own, Pdf
<1>5. p \notin quiet
  BY DEF TypeOK, Command, ReadData, ExtractContent, ProcessLoop, ReplaceTop, Repackage, Convert,
         StepFails, MovePdf
<1>6. /\ pc[p] = "move" => files[g] = Pdf(content[p])
      /\ pc[p] # "done" /\ job[p].name # "modified" => files[o] \in {Absent, Other}
  BY <1>5 DEF Own
<1> HIDE DEF g, o
<1>7. CASE Convert(p)
  <2>1. pc[p] = "convert" /\ content' = content
    BY <1>7 DEF Convert, Step
  <2>2. CASE pc'[p] = "move"
    <3>1. files' = [files EXCEPT ![g] = Pdf(content[p])]
      BY <1>3, <1>7, <2>2 DEF Convert, Step, g
    <3>2. files'[g] = Pdf(content[p])
      BY <1>3, <3>1
    <3>3. g # o => files'[o] = files[o]
      BY <1>3, <3>1
    <3> QED BY <1>4, <1>6, <2>1, <2>2, <3>2, <3>3
  <2>3. CASE pc'[p] # "move"
    <3>1. files' = files \/ files' = [files EXCEPT ![g] = Other]
      BY <1>3, <1>7, <2>3 DEF Convert, Step, g
    <3>2. g # o => files'[o] = files[o]
      BY <1>3, <3>1
    <3>3. pc'[p] = "failed"
      BY <1>3, <1>7, <2>3 DEF Convert, Step
    <3> QED BY <1>4, <1>6, <2>1, <3>2, <3>3
  <2> QED BY <2>2, <2>3
<1>8. CASE MovePdf(p)
  <2>1. pc[p] = "move" /\ content' = content
    BY <1>8 DEF MovePdf
  <2>2. CASE o # g /\ files[g] = Absent
    <3>1. pc'[p] = "failed" /\ files' = files
      BY <1>3, <1>8, <2>2 DEF MovePdf, g, o
    <3> QED BY <1>6, <2>1, <3>1
  <2>3. CASE ~ (o # g /\ files[g] = Absent)
    <3>1. /\ pc'[p] = "done"
          /\ files' = IF o = g THEN files
                      ELSE [files EXCEPT ![o] = files[g], ![g] = Absent]
      BY <1>3, <1>8, <2>3 DEF MovePdf, g, o
    <3>2. files'[o] = files[g]
      BY <1>3, <3>1
    <3> QED BY <1>6, <2>1, <3>1, <3>2
  <2> QED BY <2>2, <2>3
<1>9. CASE ~ (Convert(p) \/ MovePdf(p))
  <2>1. files' = files
    BY <1>9 DEF Command, ReadData, ExtractContent, ProcessLoop, ReplaceTop, Repackage,
                StepFails
  <2>2. pc'[p] \notin {"move", "done"} /\ pc[p] # "done"
    BY <1>3, <1>9 DEF Step, Command, ReadData, ExtractContent, ProcessLoop, ReplaceTop,
                      Repackage, StepFails
  <2> QED BY <1>6, <2>1, <2>2
<1> QED BY <1>7, <1>8, <1>9

LEMMA NextOdt == OdtInv /\ [Next]_vars => OdtInv'
<1> SUFFICES ASSUME OdtInv, [Next]_vars
             PROVE  OdtInv'
  OBVIOUS
<1>1. TypeOK /\ TypeOK' /\ job' = job
  BY TypeStep, JobStays DEF OdtInv
<1>2. CASE UNCHANGED vars
  BY <1>1, <1>2 DEF OdtInv, vars, Expanded, Own, Alone, Generated, Output
<1>3. ASSUME NEW q \in Run, Command(q), NEW p \in Run
      PROVE  Expanded(p)' /\ Own(p)'
  <2>0. Expanded(p) /\ Own(p)
    BY DEF OdtInv
  <2>1. CASE p = q
    <3>1. Expanded(p)'
      BY <1>1, <1>3, <2>0, <2>1, ExpandedStep
    <3>2. CASE Alone(p)'
      <4>1. Alone(p)
        BY <1>1, <3>2, AloneBefore
      <4> QED BY <1>1, <1>3, <2>0, <2>1, <3>1, <4>1, OwnStep
    <3>3. CASE ~ Alone(p)'
      BY <3>1, <3>3 DEF Own
    <3> QED BY <3>2, <3>3
  <2>2. CASE p # q
    <3>1. pc'[p] = pc[p] /\ content'[p] = content[p] /\ (p \in quiet' <=> p \in quiet)
      BY <1>1, <1>3, <2>2, OthersUntouched
    <3>2. Expanded(p)'
      BY <1>1, <2>0, <3>1 DEF Expanded
    <3>3. CASE Alone(p)'
      <4>1. Alone(p)
        BY <1>1, <3>3, AloneBefore
      <4>2. files'[Generated(p)] = files[Generated(p)] /\ files'[Output(p)] = files[Output(p)]
        BY <1>1, <1>3, <2>2, <4>1, FilesOfOthers
      <4>3. Generated(p)' = Generated(p) /\ Output(p)' = Output(p)
        BY <1>1 DEF Generated, Output
      <4> QED BY <1>1, <2>0, <3>1, <3>2, <4>1, <4>2, <4>3 DEF Own, Pdf
    <3>4. CASE ~ Alone(p)'
      BY <3>2, <3>4 DEF Own
    <3> QED BY <3>3, <3>4
  <2> QED BY <2>1, <2>2
<1> QED BY <1>1, <1>2, <1>3 DEF Next, OdtInv

LEMMA Odt == Spec => []OdtInv
BY InitOdt, NextOdt, PTL DEF Spec

-----------------------------------------------------------------------------

\* For every flat template, of any number of parts of any length, over lists of any length:
\* when process_loops_in_content and the last replacement are over, each part was filled by
\* itself.
THEOREM FlatTemplates == Spec => []FlatTemplateFilled
<1>1. OdtInv => FlatTemplateFilled
  BY DEF OdtInv, Expanded, FlatTemplateFilled
<1> QED BY <1>1, Odt, PTL

\* A command that has its directory to itself leaves its own document, or what was there,
\* whatever the other commands do elsewhere and whatever earlier ones left behind.
THEOREM OutputsAreOwn == Spec => []OutputIsOwn
<1>1. OdtInv => OutputIsOwn
  BY DEF OdtInv, Own, OutputIsOwn
<1> QED BY <1>1, Odt, PTL

-----------------------------------------------------------------------------
(* LoopsRunOut: any template, with nested and unbalanced markers.          *)

NoEnd == Kind({"word", "var", "for", "escaped"})

\* The opening marker the search finds, the first closing marker after it, and nothing
\* between them that closes.
Loop(text) ==
  /\ Opening(text) \in 1..Len(text) /\ Closing(text) \in 1..Len(text)
  /\ Opening(text) < Closing(text)
  /\ text[Closing(text)].kind = "end"
  /\ \A i \in Opening(text) + 1..Closing(text) - 1 : text[i].kind # "end"

LEMMA LoopIsThere ==
  ASSUME NEW text \in Seq(All), HasLoop(text)
  PROVE  Loop(text)
<1> DEFINE F == Positions(text, "for")
           E == Positions(text, "end")
<1>1. Len(text) \in Nat /\ DOMAIN text = 1..Len(text)
  OBVIOUS
<1>2. F \in SUBSET Nat /\ E \in SUBSET Nat /\ F \subseteq 1..Len(text) /\ E \subseteq 1..Len(text)
  BY <1>1 DEF Positions
<1>3. PICK i \in F, j \in E : i < j
  BY DEF HasLoop
<1>4. PICK o \in F : \A x \in F : o <= x
  BY <1>2, <1>3, LeastMember
<1>5. Opening(text) = o
  BY <1>2, <1>4, MinIs DEF Opening
<1> DEFINE L == {x \in E : x > o}
<1>6. j \in L /\ L \in SUBSET Nat
  BY <1>2, <1>3, <1>4
<1>7. PICK e \in L : \A x \in L : e <= x
  BY <1>6, LeastMember
<1>8. Closing(text) = e
  <2>1. L \in SUBSET Int
    BY <1>6
  <2>2. Closing(text) = Min(L)
    BY <1>5 DEF Closing
  <2> QED BY <1>7, <2>1, <2>2, MinIs
<1>9. o \in 1..Len(text) /\ e \in 1..Len(text) /\ o < e /\ text[e].kind = "end"
  BY <1>2, <1>4, <1>7 DEF Positions
<1>10. ASSUME NEW x \in o + 1..e - 1
       PROVE  text[x].kind # "end"
  <2>1. x \in 1..Len(text) /\ x > o /\ ~(e <= x)
    BY <1>1, <1>9
  <2> QED BY <1>1, <1>7, <2>1 DEF Positions
<1> QED BY <1>5, <1>8, <1>9, <1>10 DEF Loop

\* The part of a text from m to n, both of them in it.
Part(U, t, m, n, v) ==
  v \in Seq(U) /\ Len(v) = n - m + 1 /\ \A i \in 1..n - m + 1 : v[i] = t[m + i - 1]

LEMMA SubSeqPart ==
  ASSUME NEW U, NEW t, NEW m \in Nat, NEW n \in Nat, m <= n + 1, \A i \in m..n : t[i] \in U
  PROVE  Part(U, t, m, n, SubSeq(t, m, n))
<1> DEFINE v == SubSeq(t, m, n)
<1>1. /\ v \in Seq(U) /\ Len(v) = IF m <= n THEN n - m + 1 ELSE 0
      /\ \A i \in 1..n - m + 1 : v[i] = t[m + i - 1]
  BY SubSeqProperties
<1> HIDE DEF v
<1>2. Len(v) = n - m + 1
  BY <1>1
<1> QED BY <1>1, <1>2 DEF Part, v

\* The block of a loop and the texts before and after it.
LEMMA LoopParts ==
  ASSUME NEW text \in Seq(All), HasLoop(text)
  PROVE  /\ Part(All, text, 1, Opening(text) - 1, SubSeq(text, 1, Opening(text) - 1))
         /\ Part(NoEnd, text, Opening(text) + 1, Closing(text) - 1, Block(text))
         /\ Part(All, text, Closing(text) + 1, Len(text),
                 SubSeq(text, Closing(text) + 1, Len(text)))
<1> DEFINE n == Len(text)
           o == Opening(text)
           e == Closing(text)
<1>1. /\ n \in Nat /\ o \in 1..n /\ e \in 1..n /\ o < e
      /\ \A i \in o + 1..e - 1 : text[i].kind # "end"
  BY LoopIsThere DEF Loop
<1>2. \A i \in 1..n : text[i] \in All
  OBVIOUS
<1>3. \A x \in All : x.kind # "end" => x \in NoEnd
  BY DEF All, NoEnd, Kind
<1> HIDE DEF n, o, e
<1>4. Part(All, text, 1, o - 1, SubSeq(text, 1, o - 1))
  <2>1. \A i \in 1..o - 1 : text[i] \in All
    BY <1>1, <1>2
  <2>2. 1 \in Nat /\ o - 1 \in Nat /\ 1 <= (o - 1) + 1
    BY <1>1
  <2> QED BY <2>1, <2>2, SubSeqPart
<1>5. Part(NoEnd, text, o + 1, e - 1, SubSeq(text, o + 1, e - 1))
  <2>1. \A i \in o + 1..e - 1 : i \in 1..n
    BY <1>1
  <2>2. \A i \in o + 1..e - 1 : text[i] \in NoEnd
    BY <1>1, <1>2, <1>3, <2>1
  <2>3. o + 1 \in Nat /\ e - 1 \in Nat /\ o + 1 <= (e - 1) + 1
    BY <1>1
  <2> QED BY <2>2, <2>3, SubSeqPart
<1>6. Part(All, text, e + 1, n, SubSeq(text, e + 1, n))
  <2>1. \A i \in e + 1..n : text[i] \in All
    BY <1>1, <1>2
  <2>2. e + 1 \in Nat /\ e + 1 <= n + 1
    BY <1>1
  <2> QED BY <1>1, <2>1, <2>2, SubSeqPart
<1> QED BY <1>4, <1>5, <1>6 DEF n, o, e, Block

\* The copies of a block without closing markers have none.
LEMMA CopiesCloseNothing ==
  ASSUME NEW data, IsData(data), PlainData(data), NEW block \in Seq(NoEnd), NEW l,
         \/ Positions(block, "var") = {}
         \/ \A k \in DOMAIN Items(data, l) : Items(data, l)[k].type = "object"
  PROVE  FlattenSeq([k \in DOMAIN Items(data, l) |->
                       ReplaceVariables(block, Items(data, l)[k].at)]) \in Seq(NoEnd)
<1> DEFINE items == Items(data, l)
           R(k) == ReplaceVariables(block, items[k].at)
           copies == [k \in DOMAIN items |-> R(k)]
<1>1. Len(items) \in Nat /\ DOMAIN items = 1..Len(items)
  BY ItemsList
<1>2. Out \subseteq NoEnd /\ \A x \in NoEnd : <<x>> \in Seq(NoEnd)
  BY DEF Out, NoEnd, Kind
<1>3. Seq(Out) \subseteq Seq(NoEnd)
  BY <1>2
<1>4. ASSUME NEW k \in DOMAIN items
      PROVE  R(k) \in Seq(NoEnd)
  <2> DEFINE at == items[k].at
             bare == NoEnd \ Kind({"var"})
  <2>1. CASE Positions(block, "var") = {}
    <3>1. \A i \in DOMAIN block : block[i].kind # "var"
      BY <2>1 DEF Positions
    <3>2. ASSUME NEW i \in 1..Len(block)
          PROVE  block[i] \in bare
      <4>1. block[i] \in NoEnd /\ i \in DOMAIN block
        OBVIOUS
      <4>2. \A x \in Kind({"var"}) : x.kind = "var"
        BY DEF Kind
      <4> QED BY <3>1, <4>1, <4>2
    <3>3. block \in Seq(bare)
      BY <3>2
    <3>4. ASSUME NEW x \in bare
          PROVE  One(x, at) \in Seq(NoEnd)
      <4>1. x \in NoEnd /\ x.kind # "var"
        BY DEF NoEnd, Kind
      <4> QED BY <1>2, <4>1 DEF One
    <3>5. Fits(at, bare, NoEnd)
      BY <3>4 DEF Fits
    <3> HIDE DEF at, bare
    <3>6. ReplaceVariables(block, at) \in Seq(NoEnd)
      BY <3>3, <3>5, ReplaceType
    <3> QED BY <3>6 DEF at
  <2>2. CASE items[k].type = "object"
    <3>1. l \in DOMAIN data /\ data[l].type = "list" /\ items = data[l].items
      BY ItemsList
    <3>2. Closed(at)
      <4> HIDE DEF items
      <4> QED BY <2>2, <3>1, PlainItems
    <3> HIDE DEF at
    <3>3. ASSUME NEW x \in NoEnd
          PROVE  One(x, at) \in Seq(NoEnd)
      <4>1. CASE x.kind = "var"
        BY <1>3, <3>2, <4>1 DEF One, Closed
      <4>2. CASE x.kind # "var"
        BY <1>2, <4>2 DEF One
      <4> QED BY <4>1, <4>2
    <3>4. Fits(at, NoEnd, NoEnd)
      BY <3>3 DEF Fits
    <3>5. ReplaceVariables(block, at) \in Seq(NoEnd)
      BY <3>4, ReplaceType
    <3> QED BY <3>5 DEF at
  <2> QED BY <2>1, <2>2
<1> HIDE DEF R, items
<1>5. copies \in Seq(Seq(NoEnd))
  <2> DEFINE V == Seq(NoEnd)
  <2>1. \A k \in 1..Len(items) : R(k) \in V
    BY <1>1, <1>4
  <2>2. copies = [k \in 1..Len(items) |-> R(k)]
    BY <1>1
  <2> HIDE DEF V, copies
  <2>3. [k \in 1..Len(items) |-> R(k)] \in Seq(V)
    BY <1>1, <2>1
  <2> QED BY <2>2, <2>3 DEF V
<1>6. FlattenSeq(copies) \in Seq(NoEnd)
  <2> HIDE DEF copies
  <2> QED BY <1>5, FlattenType
<1> QED BY <1>6 DEF copies, R, items

\* A set of numbers that are those of another below one of its members, and those above it
\* moved, is the smaller one.
LEMMA ShiftedSmaller ==
  ASSUME NEW S \in SUBSET Nat, NEW T \in SUBSET Nat, IsFiniteSet(T), NEW e \in T,
         NEW a \in Nat, NEW d \in Int,
         \A i \in S : IF i <= a THEN i \in T /\ i < e ELSE i - d \in T /\ i - d > e
  PROVE  Cardinality(S) < Cardinality(T)
<1> DEFINE U == T \ {e}
           f == [i \in S |-> IF i <= a THEN i ELSE i - d]
<1>1. IsFiniteSet(U) /\ Cardinality(U) = Cardinality(T) - 1 /\ Cardinality(T) \in Nat
  BY FS_RemoveElement, FS_CardinalityType
<1>2. f \in [S -> U]
  OBVIOUS
<1>3. ASSUME NEW i \in S, NEW j \in S, f[i] = f[j]
      PROVE  i = j
  <2>1. i \in Nat /\ j \in Nat /\ e \in Nat
    OBVIOUS
  <2>2. f[i] = (IF i <= a THEN i ELSE i - d) /\ f[j] = (IF j <= a THEN j ELSE j - d)
    OBVIOUS
  <2>3. /\ (i <= a => i < e) /\ (~ (i <= a) => i - d > e)
        /\ (j <= a => j < e) /\ (~ (j <= a) => j - d > e)
    OBVIOUS
  <2>4. /\ (i <= a => f[i] = i) /\ (~ (i <= a) => f[i] = i - d)
        /\ (j <= a => f[j] = j) /\ (~ (j <= a) => f[j] = j - d)
    BY <2>2
  <2> HIDE DEF f
  <2>5. i <= a <=> j <= a
    BY <1>3, <2>1, <2>3, <2>4
  <2>6. i <= a => i = j
    BY <1>3, <2>4, <2>5
  <2>7. ~ (i <= a) => i - d = j - d
    BY <1>3, <2>4, <2>5
  <2>8. i - d = j - d => i = j
    BY <2>1
  <2> QED BY <2>6, <2>7, <2>8
<1>4. f \in Injection(S, U)
  <2> HIDE DEF f
  <2> QED BY <1>2, <1>3 DEF Injection, IsInjective
<1>5. IsFiniteSet(S) /\ Cardinality(S) <= Cardinality(U)
  <2> HIDE DEF f, U
  <2> QED BY <1>1, <1>4, FS_Injection
<1>6. Cardinality(S) \in Nat
  BY <1>5, FS_CardinalityType
<1> QED BY <1>1, <1>5, <1>6

\* An iteration that raises nothing uses up the closing marker it found.
LEMMA LoopStepCloses ==
  ASSUME NEW data, IsData(data), PlainData(data),
         NEW text \in Seq(All), HasLoop(text), ~ ItemRaises(text, data)
  PROVE  /\ ExpandLoop(text, data) \in Seq(All)
         /\ Closers(ExpandLoop(text, data)) < Closers(text)
<1> DEFINE n == Len(text)
           o == Opening(text)
           e == Closing(text)
           l == text[o].name
           block == Block(text)
           A == SubSeq(text, 1, o - 1)
           M == FlattenSeq([k \in DOMAIN Items(data, l) |->
                              ReplaceVariables(block, Items(data, l)[k].at)])
           C == SubSeq(text, e + 1, n)
           AM == A \o M
           new == AM \o C
<1>1. /\ n \in Nat /\ o \in 1..n /\ e \in 1..n /\ o < e /\ text[e].kind = "end"
  BY LoopIsThere DEF Loop
<1>2. /\ Part(All, text, 1, o - 1, A) /\ Part(NoEnd, text, o + 1, e - 1, block)
      /\ Part(All, text, e + 1, n, C)
  BY LoopParts
<1>3. M \in Seq(NoEnd)
  <2>1. block \in Seq(NoEnd)
    BY <1>2 DEF Part
  <2>2. \/ Positions(block, "var") = {}
        \/ \A k \in DOMAIN Items(data, l) : Items(data, l)[k].type = "object"
    BY DEF ItemRaises, LoopItems
  <2> HIDE DEF block, l
  <2> QED BY <2>1, <2>2, CopiesCloseNothing
<1>4. ExpandLoop(text, data) = new
  BY DEF ExpandLoop, LoopItems
<1>5. Len(M) \in Nat /\ (\A i \in 1..Len(M) : M[i].kind # "end") /\ M \in Seq(All)
  <2>1. \A x \in NoEnd : x \in All /\ x.kind # "end"
    BY DEF NoEnd, All, Kind
  <2> HIDE DEF M
  <2>2. Len(M) \in Nat /\ \A i \in 1..Len(M) : M[i] \in NoEnd
    BY <1>3
  <2>3. M \in Seq(All)
    BY <1>3, <2>1
  <2> QED BY <2>1, <2>2, <2>3
<1>6. /\ A \in Seq(All) /\ Len(A) = o - 1 /\ \A i \in 1..o - 1 : A[i] = text[i]
      /\ C \in Seq(All) /\ Len(C) = n - e /\ \A i \in 1..n - e : C[i] = text[e + i]
  <2> HIDE DEF n, o, e, A, C
  <2>1. A \in Seq(All) /\ C \in Seq(All)
    BY <1>2 DEF Part
  <2>2. Len(A) = (o - 1) - 1 + 1 /\ \A i \in 1..(o - 1) - 1 + 1 : A[i] = text[1 + i - 1]
    BY <1>2 DEF Part
  <2>3. Len(C) = n - (e + 1) + 1 /\ \A i \in 1..n - (e + 1) + 1 : C[i] = text[(e + 1) + i - 1]
    BY <1>2 DEF Part
  <2>4. Len(A) = o - 1 /\ \A i \in 1..o - 1 : A[i] = text[i]
    <3>1. (o - 1) - 1 + 1 = o - 1 /\ \A i \in 1..o - 1 : 1 + i - 1 = i
      BY <1>1
    <3> QED BY <2>2, <3>1
  <2>5. Len(C) = n - e /\ \A i \in 1..n - e : C[i] = text[e + i]
    <3>1. n - (e + 1) + 1 = n - e /\ \A i \in 1..n - e : (e + 1) + i - 1 = e + i
      BY <1>1
    <3> QED BY <2>3, <3>1
  <2> QED BY <2>1, <2>4, <2>5
<1>7. IsConcat(All, A, M, AM)
  <2> HIDE DEF A, M
  <2> QED BY <1>5, <1>6, ConcatAt
<1>8. IsConcat(All, AM, C, new)
  <2>1. AM \in Seq(All)
    <3> HIDE DEF AM
    <3> QED BY <1>7 DEF IsConcat
  <2> HIDE DEF AM, C
  <2> QED BY <1>6, <2>1, ConcatAt
<1> DEFINE m == Len(M)
<1> HIDE DEF n, o, e, l, block, A, M, C, AM, new
<1>9. /\ m \in Nat /\ Len(AM) = (o - 1) + m /\ Len(new) = ((o - 1) + m) + (n - e)
      /\ new \in Seq(All)
  BY <1>5, <1>6, <1>7, <1>8 DEF IsConcat
<1>10. \A i \in 1..o - 1 : new[i] = text[i]
  <2>1. \A i \in 1..o - 1 : i \in 1..(o - 1) + m
    BY <1>1, <1>9
  <2>2. \A i \in 1..o - 1 : new[i] = AM[i]
    BY <1>8, <1>9, <2>1 DEF IsConcat
  <2>3. \A i \in 1..o - 1 : AM[i] = A[i]
    BY <1>6, <1>7 DEF IsConcat
  <2> QED BY <1>6, <2>2, <2>3
<1>11. \A i \in 1..m : new[(o - 1) + i].kind # "end"
  <2>1. \A i \in 1..m : (o - 1) + i \in 1..(o - 1) + m
    BY <1>1, <1>9
  <2>2. \A i \in 1..(o - 1) + m : new[i] = AM[i]
    BY <1>8, <1>9 DEF IsConcat
  <2>3. \A i \in 1..m : AM[(o - 1) + i] = M[i]
    BY <1>6, <1>7 DEF IsConcat
  <2>4. \A i \in 1..m : M[i].kind # "end"
    BY <1>5
  <2>5. \A i \in 1..m : new[(o - 1) + i] = M[i]
    BY <2>1, <2>2, <2>3
  <2> QED BY <2>4, <2>5
<1>12. \A i \in 1..n - e : new[((o - 1) + m) + i] = text[e + i]
  <2>1. \A i \in 1..n - e : new[((o - 1) + m) + i] = C[i]
    BY <1>6, <1>8, <1>9 DEF IsConcat
  <2> QED BY <1>6, <2>1
<1> DEFINE S == Positions(new, "end")
           T == Positions(text, "end")
           d == ((o - 1) + m) - e
<1>13. DOMAIN new = 1..((o - 1) + m) + (n - e) /\ DOMAIN text = 1..n
  BY <1>9 DEF n
<1>14. /\ \A i \in S : i \in 1..((o - 1) + m) + (n - e) /\ new[i].kind = "end"
       /\ \A i \in 1..n : text[i].kind = "end" => i \in T
       /\ S \in SUBSET Nat /\ T \in SUBSET Nat /\ T \subseteq 1..n
  BY <1>1, <1>9, <1>13 DEF Positions
<1>15. e \in T
  BY <1>1, <1>14
<1>16. IsFiniteSet(T)
  <2> HIDE DEF T
  <2>1. IsFiniteSet(1..n)
    BY <1>1, FS_Interval
  <2> QED BY <1>14, <2>1, FS_Subset
<1> HIDE DEF S, T, m
<1>17. ASSUME NEW i \in S
       PROVE  IF i <= o - 1 THEN i \in T /\ i < e ELSE i - d \in T /\ i - d > e
  <2>1. i \in 1..((o - 1) + m) + (n - e) /\ new[i].kind = "end"
    BY <1>14
  <2>2. CASE i <= o - 1
    <3>1. i \in 1..o - 1 /\ i \in 1..n /\ i < e
      BY <1>1, <2>1, <2>2
    <3>2. text[i].kind = "end"
      BY <1>10, <2>1, <3>1
    <3>3. i \in T
      BY <1>14, <3>1, <3>2
    <3> QED BY <2>2, <3>1, <3>3
  <2>3. CASE i > o - 1 /\ i <= (o - 1) + m
    <3>1. i - (o - 1) \in 1..m /\ (o - 1) + (i - (o - 1)) = i
      BY <1>1, <1>9, <2>1, <2>3
    <3> DEFINE j == i - (o - 1)
    <3>2. new[(o - 1) + j].kind # "end"
      BY <1>11, <3>1
    <3> QED BY <2>1, <3>1, <3>2
  <2>4. CASE i > (o - 1) + m
    <3> DEFINE j == i - ((o - 1) + m)
    <3>1. j \in 1..n - e /\ ((o - 1) + m) + j = i /\ e + j = i - d /\ e + j \in 1..n /\ j > 0
      BY <1>1, <1>9, <2>1, <2>4
    <3> HIDE DEF j
    <3>2. new[((o - 1) + m) + j] = text[e + j]
      BY <1>12, <3>1
    <3>3. text[i - d].kind = "end"
      BY <2>1, <3>1, <3>2
    <3>4. i - d \in T
      BY <1>14, <3>1, <3>3
    <3>5. i - d > e /\ ~ (i <= o - 1)
      BY <1>1, <1>9, <2>1, <2>4
    <3> QED BY <3>4, <3>5
  <2>5. i <= o - 1 \/ (i > o - 1 /\ i <= (o - 1) + m) \/ i > (o - 1) + m
    BY <1>1, <1>9, <2>1
  <2> QED BY <2>2, <2>3, <2>4, <2>5
<1>18. o - 1 \in Nat /\ d \in Int
  <2>1. o \in Nat /\ 1 <= o /\ e \in Int
    BY <1>1
  <2>2. m \in Int
    BY <1>9
  <2>3. o - 1 \in Nat
    BY <2>1
  <2>4. (o - 1) + m \in Int
    BY <2>2, <2>3
  <2> QED BY <2>1, <2>3, <2>4
<1> HIDE DEF d
<1>19. Cardinality(S) < Cardinality(T)
  BY <1>14, <1>15, <1>16, <1>17, <1>18, ShiftedSmaller
<1>20. Closers(new) < Closers(text)
  BY <1>19 DEF Closers, S, T
<1> QED BY <1>4, <1>9, <1>20

-----------------------------------------------------------------------------

\* Where the loops are expanded the content is a text.
Textual(p) ==
  PlainData(job[p].data) /\ pc[p] = "loops" => content[p] \in Seq(All)

\* A template is one.
LEMMA TemplateText ==
  ASSUME TypeOK, NEW p \in Run
  PROVE  Template(job[p]) \in Seq(All)
<1> DEFINE parts == job[p].parts
           P == [loop : STRING, text : Seq(Token)]
           V == Seq(All)
           pieces == [i \in DOMAIN parts |-> PartText(parts[i])]
<1>1. parts \in Seq(P)
  BY JobType
<1>2. Token \subseteq All
  BY DEF Token, All, Kind, Names
<1>3. ASSUME NEW part \in P
      PROVE  PartText(part) \in V
  <2> DEFINE text == part.text
             f == <<For(part.loop)>>
             g == <<End>>
  <2>1. text \in V /\ part.loop \in STRING
    <3>1. Seq(Token) \subseteq Seq(All)
      BY <1>2
    <3> QED BY <3>1
  <2>2. f \in V /\ g \in V
    <3>1. For(part.loop) \in All /\ End \in All
      BY <2>1 DEF For, End, All, Kind, Names
    <3> QED BY <3>1
  <2> HIDE DEF text, f, g
  <2>3. f \o text \in V
    BY <2>1, <2>2, ConcatProperties
  <2>4. (f \o text) \o g \in V
    BY <2>2, <2>3, ConcatProperties
  <2> QED BY <2>1, <2>4 DEF PartText, text, f, g
<1> HIDE DEF P, V
<1>4. pieces \in Seq(V)
  <2>1. Len(parts) \in Nat /\ DOMAIN parts = 1..Len(parts)
        /\ \A i \in 1..Len(parts) : parts[i] \in P
    <3> HIDE DEF parts
    <3> QED BY <1>1
  <2> DEFINE G(i) == PartText(parts[i])
  <2>2. pieces = [i \in 1..Len(parts) |-> G(i)]
    BY <2>1
  <2>3. \A i \in 1..Len(parts) : G(i) \in V
    BY <1>3, <2>1
  <2> HIDE DEF G, parts, pieces
  <2>4. [i \in 1..Len(parts) |-> G(i)] \in Seq(V)
    BY <2>1, <2>3
  <2> QED BY <2>2, <2>4
<1>5. FlattenSeq(pieces) \in Seq(All)
  <2> HIDE DEF pieces
  <2> QED BY <1>4, FlattenType DEF V
<1> QED BY <1>5 DEF Template

\* What a step of the command does to its own content while loops are expanded.
LEMMA LoopsStep ==
  ASSUME TypeOK, NEW p \in Run, Textual(p), Command(p), PlainData(job[p].data),
         pc'[p] = "loops"
  PROVE  /\ content'[p] \in Seq(All)
         /\ pc[p] = "loops" => Closers(content'[p]) < Closers(content[p])
<1>1. p \in DOMAIN pc /\ p \in DOMAIN content
  BY DEF TypeOK
<1>2. CASE ExtractContent(p)
  <2>1. pc[p] = "extract" /\ content'[p] = Template(job[p])
    BY <1>1, <1>2 DEF ExtractContent, Step
  <2> QED BY <2>1, TemplateText
<1>3. CASE ProcessLoop(p)
  <2>1. pc[p] = "loops" /\ HasLoop(content[p]) /\ ~ ItemRaises(content[p], job[p].data)
    BY <1>1, <1>3 DEF ProcessLoop
  <2>2. content'[p] = ExpandLoop(content[p], job[p].data)
    BY <1>1, <1>3, <2>1 DEF ProcessLoop
  <2>3. content[p] \in Seq(All) /\ IsData(job[p].data)
    BY <2>1, JobType DEF Textual
  <2> QED BY <2>1, <2>2, <2>3, LoopStepCloses
<1>4. CASE ~ (ExtractContent(p) \/ ProcessLoop(p))
  <2>1. pc'[p] # "loops"
    BY <1>1, <1>4 DEF Step, Command, ReadData, ReplaceTop, Repackage, Convert, StepFails, MovePdf
  <2> QED BY <2>1
<1> QED BY <1>2, <1>3, <1>4

LEMMA TextualInit == Init => \A p \in Run : Textual(p)
<1> SUFFICES ASSUME Init, NEW p \in Run
             PROVE  pc[p] # "loops"
  BY DEF Textual
<1> QED BY DEF Init

LEMMA TextualStep ==
  ASSUME TypeOK, [Next]_vars, \A p \in Run : Textual(p)
  PROVE  \A p \in Run : Textual(p)'
<1> SUFFICES ASSUME NEW p \in Run, PlainData(job[p].data), pc'[p] = "loops"
             PROVE  content'[p] \in Seq(All)
  BY JobStays DEF Textual
<1>1. CASE UNCHANGED vars
  BY <1>1 DEF vars, Textual
<1>2. ASSUME NEW q \in Run, Command(q)
      PROVE  content'[p] \in Seq(All)
  <2>1. CASE p = q
    BY <1>2, <2>1, LoopsStep
  <2>2. CASE p # q
    <3>1. pc'[p] = pc[p] /\ content'[p] = content[p]
      BY <1>2, <2>2, OthersUntouched
    <3> QED BY <3>1 DEF Textual
  <2> QED BY <2>1, <2>2
<1> QED BY <1>1, <1>2 DEF Next

\* Whatever the template, of any length and with markers nested or without a partner: while
\* process_loops_in_content expands it, the closing markers left are fewer each time.
THEOREM LoopsAlwaysRunOut == Spec => LoopsRunOut
<1> DEFINE Texts == \A p \in Run : Textual(p)
           Fewer == \A p \in Run :
                      PlainData(job[p].data) /\ pc[p] = "loops" /\ pc'[p] = "loops"
                        /\ content'[p] # content[p]
                        => Closers(content'[p]) < Closers(content[p])
<1>1. OdtInv => TypeOK
  BY DEF OdtInv
<1>2. Init => Texts
  BY TextualInit
<1>3. TypeOK /\ Texts /\ [Next]_vars => Texts'
  BY TextualStep
<1>4. TypeOK /\ Texts /\ [Next]_vars => [Fewer]_vars
  <2> SUFFICES ASSUME TypeOK, Texts, Next, NEW p \in Run, PlainData(job[p].data),
                      pc[p] = "loops", pc'[p] = "loops", content'[p] # content[p]
               PROVE  Closers(content'[p]) < Closers(content[p])
    OBVIOUS
  <2>1. PICK q \in Run : Command(q)
    BY DEF Next
  <2>2. p = q
    BY <2>1, OthersUntouched
  <2> QED BY <2>1, <2>2, LoopsStep
<1> HIDE DEF Texts, Fewer
<1>5. Spec => [][Fewer]_vars
  BY <1>1, <1>2, <1>3, <1>4, Odt, PTL DEF Spec
<1> QED BY <1>5 DEF Fewer, LoopsRunOut
=============================================================================
