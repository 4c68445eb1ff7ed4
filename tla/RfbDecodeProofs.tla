-------------------------- MODULE RfbDecodeProofs ---------------------------
(***************************************************************************)
(* Lemmas about the operators RfbStream is built from, for every server    *)
(* that follows the protocol: sequences and how FlattenSeq joins them, the *)
(* display queue and what it shows, the fields a rectangle is written as   *)
(* and the pieces of picture it draws, and that each decoder, given its    *)
(* next field, reads that field and draws those pieces.                    *)
(*                                                                         *)
(* The recursive functions the model uses - FlattenSeq and FoldLeft - are  *)
(* reasoned about by induction over sets of natural numbers: the library   *)
(* theorem WFMin, that a set has a least element, takes no operator.       *)
(***************************************************************************)
EXTENDS RfbStream, SequenceTheorems, FiniteSetTheorems, TLAPS

-----------------------------------------------------------------------------
(* Induction. *)

LEMMA Least ==
  ASSUME NEW T, T \subseteq Nat, T # {}
  PROVE  \E m \in T : \A k \in T : m <= k
<1>. DEFINE R0 == OpToRel(<, Nat)
<1>1. IsWellFoundedOn(R0, Nat)
  BY NatLessThanWellFounded
<1>2. \A x, y \in Nat : x < y => <<x, y>> \in R0
  BY DEF OpToRel
<1>. HIDE DEF R0
<1>3. PICK x \in T : \A y \in T : ~ (<<y, x>> \in R0)
  BY <1>1, WFMin
<1>4. \A k \in T : x <= k
  <2>1. TAKE k \in T
  <2>2. x \in Nat /\ k \in Nat
    OBVIOUS
  <2>3. ~ (k < x)
    BY <1>2, <1>3, <2>2
  <2>. QED  BY <2>2, <2>3
<1>. QED  BY <1>4

LEMMA Induct ==
  ASSUME NEW T, 0 \in T, \A n \in Nat : n \in T => n + 1 \in T
  PROVE  Nat \subseteq T
<1>. DEFINE U == Nat \ T
<1>1. SUFFICES ASSUME U # {} PROVE FALSE
  OBVIOUS
<1>2. PICK m \in U : \A k \in U : m <= k
  BY <1>1, Least
<1>3. m - 1 \in Nat /\ m - 1 \in T
  BY <1>2
<1>. QED  BY <1>3

-----------------------------------------------------------------------------
(***************************************************************************)
(* Sequences, of whatever elements.                                        *)
(***************************************************************************)
IsSeq(s) == \E S : s \in Seq(S)

LEMMA SeqFacts ==
  ASSUME NEW s, IsSeq(s)
  PROVE  Len(s) \in Nat /\ DOMAIN s = 1 .. Len(s)
BY DEF IsSeq

LEMMA EmptyIsSeq == IsSeq(<<>>) /\ Len(<<>>) = 0
BY DEF IsSeq

LEMMA BothSeqs ==
  ASSUME NEW s, NEW t, IsSeq(s), IsSeq(t)
  PROVE  \E S : s \in Seq(S) /\ t \in Seq(S)
<1>1. PICK S : s \in Seq(S)
  BY DEF IsSeq
<1>2. PICK T : t \in Seq(T)
  BY DEF IsSeq
<1>3. s \in Seq(S \cup T) /\ t \in Seq(S \cup T)
  BY <1>1, <1>2, SeqMonotonic
<1>. QED  BY <1>3

\* Concatenation, as an operator the provers need not look into.
Glue(s, t) == s \o t

LEMMA Joined ==
  ASSUME NEW s, NEW t, IsSeq(s), IsSeq(t)
  PROVE  /\ IsSeq(Glue(s, t)) /\ Len(Glue(s, t)) = Len(s) + Len(t)
         /\ \A i \in 1 .. Len(s) : Glue(s, t)[i] = s[i]
         /\ \A i \in 1 .. Len(t) : Glue(s, t)[Len(s) + i] = t[i]
<1>1. PICK S : s \in Seq(S) /\ t \in Seq(S)
  BY BothSeqs
<1>. QED  BY <1>1 DEF IsSeq, Glue

LEMMA JoinEmpty ==
  ASSUME NEW s, IsSeq(s)
  PROVE  Glue(s, <<>>) = s /\ Glue(<<>>, s) = s
BY ConcatEmptySeq DEF IsSeq, Glue

LEMMA JoinAssoc ==
  ASSUME NEW s, NEW t, NEW u, IsSeq(s), IsSeq(t), IsSeq(u)
  PROVE  Glue(Glue(s, t), u) = Glue(s, Glue(t, u))
<1>1. PICK S : s \in Seq(S) /\ t \in Seq(S)
  BY BothSeqs
<1>2. PICK T : u \in Seq(T)
  BY DEF IsSeq
<1>3. s \in Seq(S \cup T) /\ t \in Seq(S \cup T) /\ u \in Seq(S \cup T)
  BY <1>1, <1>2, SeqMonotonic
<1>. QED  BY <1>3, ConcatAssociative DEF Glue

LEMMA SameSeq ==
  ASSUME NEW s, NEW t, IsSeq(s), IsSeq(t), Len(s) = Len(t), \A i \in 1 .. Len(s) : s[i] = t[i]
  PROVE  s = t
<1>1. PICK S : s \in Seq(S) /\ t \in Seq(S)
  BY BothSeqs
<1>. QED  BY <1>1, SeqEqual

LEMMA Appended ==
  ASSUME NEW s, IsSeq(s), NEW e
  PROVE  /\ IsSeq(Append(s, e)) /\ Append(s, e) = Glue(s, <<e>>) /\ Len(Append(s, e)) = Len(s) + 1
         /\ IsSeq(<<e>>) /\ Len(<<e>>) = 1
         /\ \A i \in 1 .. Len(s) : Append(s, e)[i] = s[i]
         /\ Append(s, e)[Len(s) + 1] = e
<1>1. PICK S : s \in Seq(S)
  BY DEF IsSeq
<1>2. s \in Seq(S \cup {e}) /\ <<e>> \in Seq(S \cup {e})
  BY <1>1, SeqMonotonic
<1>. QED  BY <1>2, AppendProperties, AppendIsConcat DEF IsSeq, Glue

LEMMA AppendedTo ==
  ASSUME NEW s, NEW n \in Nat, IsSeq(s), Len(s) = n, NEW e
  PROVE  /\ IsSeq(Append(s, e)) /\ Len(Append(s, e)) = n + 1
         /\ \A i \in 1 .. n : Append(s, e)[i] = s[i]
         /\ Append(s, e)[n + 1] = e
BY ZenonT(40), Appended

LEMMA Cut ==
  ASSUME NEW s, IsSeq(s), NEW i \in 0 .. Len(s), NEW j \in i .. Len(s)
  PROVE  /\ IsSeq(SubSeq(s, i + 1, j)) /\ Len(SubSeq(s, i + 1, j)) = j - i
         /\ \A k \in 1 .. j - i : SubSeq(s, i + 1, j)[k] = s[i + k]
<1>1. PICK S : s \in Seq(S)
  BY DEF IsSeq
<1>2. \A k \in i + 1 .. j : s[k] \in S
  BY <1>1
<1>3. /\ SubSeq(s, i + 1, j) \in Seq(S)
      /\ Len(SubSeq(s, i + 1, j)) = (IF i + 1 <= j THEN j - (i + 1) + 1 ELSE 0)
      /\ \A k \in 1 .. j - (i + 1) + 1 : SubSeq(s, i + 1, j)[k] = s[(i + 1) + k - 1]
  BY <1>1, <1>2, SubSeqProperties
<1>4. Len(s) \in Nat
  BY <1>1
<1>. DEFINE c == SubSeq(s, i + 1, j)
<1>5. Len(c) = j - i
  BY <1>3, <1>4
<1>6. \A k \in 1 .. j - i : c[k] = s[i + k]
  <2>1. TAKE k \in 1 .. j - i
  <2>2. k \in 1 .. j - (i + 1) + 1 /\ (i + 1) + k - 1 = i + k
    BY <1>4
  <2>. QED  BY <1>3, <2>2
<1>7. IsSeq(c)
  BY <1>3 DEF IsSeq
<1>. QED  BY <1>5, <1>6, <1>7

LEMMA FunIsSeq ==
  ASSUME NEW n \in Nat, NEW f, f = [k \in 1 .. n |-> f[k]]
  PROVE  IsSeq(f) /\ Len(f) = n
<1>. DEFINE S == {f[k] : k \in 1 .. n}
<1>1. f \in [1 .. n -> S]
  OBVIOUS
<1>2. f \in Seq(S)
  BY <1>1, SeqDef
<1>3. Len(f) = n
  BY <1>1, <1>2, LenProperties
<1>. QED  BY <1>2, <1>3 DEF IsSeq

-----------------------------------------------------------------------------
(***************************************************************************)
(* FlattenSeq joins the sequences of a sequence.                           *)
(***************************************************************************)
Seqs(s) == IsSeq(s) /\ \A k \in 1 .. Len(s) : IsSeq(s[k])

\* f[i] joins the first i sequences of s, for i from 1 to n.
Joins(f, s, n) ==
  f = [i \in 1 .. n |-> IF i = 1 THEN s[i] ELSE Glue(f[i - 1], s[i])]

LEMMA JoinsStep ==
  ASSUME NEW s, NEW n \in Nat, NEW f, Joins(f, s, n), NEW i \in 1 .. n
  PROVE  /\ i = 1 => f[i] = s[i]
         /\ i # 1 => f[i] = Glue(f[i - 1], s[i])
BY DEF Joins

LEMMA JoinsExist ==
  ASSUME NEW s, NEW n \in Nat
  PROVE  \E f : Joins(f, s, n)
<1>. DEFINE T == {k \in Nat : \E f : Joins(f, s, k)}
<1>1. 0 \in T
  <2>. DEFINE f == [i \in 1 .. 0 |-> s]
  <2>1. Joins(f, s, 0)
    BY DEF Joins
  <2>. QED  BY <2>1
<1>2. ASSUME NEW k \in Nat, k \in T PROVE k + 1 \in T
  <2>1. PICK f : Joins(f, s, k)
    BY <1>2
  <2>. DEFINE g == [i \in 1 .. k + 1 |->
                      IF i <= k THEN f[i] ELSE IF i = 1 THEN s[i] ELSE Glue(f[k], s[i])]
  <2>2. g = [i \in 1 .. k + 1 |-> IF i = 1 THEN s[i] ELSE Glue(g[i - 1], s[i])]
    <3>1. ASSUME NEW i \in 1 .. k + 1
          PROVE  g[i] = IF i = 1 THEN s[i] ELSE Glue(g[i - 1], s[i])
      <4>1. CASE i <= k
        <5>1. i \in 1 .. k
          BY <4>1
        <5>2. f[i] = IF i = 1 THEN s[i] ELSE Glue(f[i - 1], s[i])
          BY <2>1, <5>1 DEF Joins
        <5>3. i # 1 => g[i - 1] = f[i - 1]
          BY <5>1
        <5>. QED  BY <4>1, <5>2, <5>3
      <4>2. CASE i = k + 1
        <5>1. i # 1 => g[i - 1] = f[k]
          BY <4>2
        <5>. QED  BY <4>2, <5>1
      <4>. QED  BY <4>1, <4>2
    <3>. QED  BY <3>1
  <2>3. Joins(g, s, k + 1)
    BY <2>2 DEF Joins
  <2>. QED  BY <2>3
<1>3. Nat \subseteq T
  <2>. HIDE DEF T
  <2>. QED  BY <1>1, <1>2, Induct
<1>. QED  BY <1>3

LEMMA JoinsUnique ==
  ASSUME NEW s, NEW n \in Nat, NEW m \in Nat, NEW f, NEW g, Joins(f, s, n), Joins(g, s, m),
         NEW i \in 1 .. n, i <= m
  PROVE  f[i] = g[i]
<1>. DEFINE T == {k \in Nat : k \in 1 .. n /\ k <= m => f[k] = g[k]}
<1>1. 0 \in T
  OBVIOUS
<1>2. ASSUME NEW k \in Nat, k \in T PROVE k + 1 \in T
  <2>. SUFFICES ASSUME k + 1 \in 1 .. n, k + 1 <= m PROVE f[k + 1] = g[k + 1]
    OBVIOUS
  <2>1. k + 1 \in 1 .. m
    OBVIOUS
  <2>2. f[k + 1] = IF k + 1 = 1 THEN s[k + 1] ELSE Glue(f[(k + 1) - 1], s[k + 1])
    BY DEF Joins
  <2>3. g[k + 1] = IF k + 1 = 1 THEN s[k + 1] ELSE Glue(g[(k + 1) - 1], s[k + 1])
    BY <2>1 DEF Joins
  <2>4. k + 1 # 1 => f[k] = g[k] /\ (k + 1) - 1 = k
    BY <1>2
  <2>. QED  BY <2>2, <2>3, <2>4
<1>3. Nat \subseteq T
  <2>. HIDE DEF T
  <2>. QED  BY <1>1, <1>2, Induct
<1>. QED  BY <1>3

LEMMA JoinsAreSeqs ==
  ASSUME NEW s, Seqs(s), NEW f, Joins(f, s, Len(s)), NEW i \in 1 .. Len(s)
  PROVE  IsSeq(f[i])
<1>. DEFINE n == Len(s)
            T == {k \in Nat : k \in 1 .. n => IsSeq(f[k])}
<1>0. n \in Nat
  BY SeqFacts DEF Seqs
<1>1. 0 \in T
  BY <1>0
<1>2. ASSUME NEW k \in Nat, k \in T PROVE k + 1 \in T
  <2>. SUFFICES ASSUME k + 1 \in 1 .. n PROVE IsSeq(f[k + 1])
    OBVIOUS
  <2>1. f[k + 1] = IF k + 1 = 1 THEN s[k + 1] ELSE Glue(f[(k + 1) - 1], s[k + 1])
    BY DEF Joins
  <2>2. IsSeq(s[k + 1])
    BY DEF Seqs
  <2>3. CASE k = 0
    BY <2>1, <2>2, <2>3
  <2>4. CASE k # 0
    <3>1. IsSeq(f[k]) /\ (k + 1) - 1 = k /\ k + 1 # 1
      BY <1>2, <2>4, <1>0
    <3>2. f[k + 1] = Glue(f[k], s[k + 1])
      BY <2>1, <3>1
    <3>. QED  BY <2>2, <3>1, <3>2, Joined
  <2>. QED  BY <2>3, <2>4
<1>3. Nat \subseteq T
  <2>. HIDE DEF T
  <2>. QED  BY <1>1, <1>2, Induct
<1>. QED  BY <1>0, <1>3

LEMMA FlattenIs ==
  ASSUME NEW s, Seqs(s), Len(s) # 0, NEW f, Joins(f, s, Len(s))
  PROVE  FlattenSeq(s) = f[Len(s)] /\ IsSeq(FlattenSeq(s))
<1>. DEFINE n == Len(s)
            g == CHOOSE g : g = [i \in 1 .. n |-> IF i = 1 THEN s[i] ELSE Glue(g[i - 1], s[i])]
<1>1. n \in Nat /\ n \in 1 .. n
  <2>1. n \in Nat
    BY SeqFacts DEF Seqs
  <2>. QED  BY <2>1
<1>2. Joins(g, s, n)
  BY Zenon DEF Joins, Glue
<1>3. FlattenSeq(s) = g[n]
  BY DEF FlattenSeq, Glue
<1>. HIDE DEF g, n
<1>4. g[n] = f[n]
  BY <1>1, <1>2, JoinsUnique DEF n
<1>5. IsSeq(f[n])
  BY <1>1, JoinsAreSeqs DEF n
<1>. QED  BY <1>3, <1>4, <1>5 DEF n

LEMMA FlattenEmpty == FlattenSeq(<<>>) = <<>>
BY EmptyIsSeq DEF FlattenSeq

LEMMA FlattenIsSeq ==
  ASSUME NEW s, Seqs(s)
  PROVE  IsSeq(FlattenSeq(s))
<1>1. Len(s) \in Nat
  BY SeqFacts DEF Seqs
<1>2. CASE Len(s) = 0
  <2>1. FlattenSeq(s) = s
    BY <1>2 DEF FlattenSeq
  <2>. QED  BY <2>1 DEF Seqs
<1>3. CASE Len(s) # 0
  <2>1. PICK f : Joins(f, s, Len(s))
    BY <1>1, JoinsExist
  <2>. QED  BY <1>3, <2>1, FlattenIs
<1>. QED  BY <1>2, <1>3

LEMMA NoElements ==
  ASSUME NEW s, IsSeq(s), Len(s) = 0
  PROVE  s = <<>>
BY EmptySeq DEF IsSeq

LEMMA FlattenAppend ==
  ASSUME NEW s, Seqs(s), NEW x, IsSeq(x)
  PROVE  Seqs(Append(s, x)) /\ FlattenSeq(Append(s, x)) = Glue(FlattenSeq(s), x)
<1>. DEFINE n == Len(s)
            t == Append(s, x)
<1>0. n \in Nat /\ IsSeq(s)
  BY SeqFacts DEF Seqs
<1>1. /\ IsSeq(t) /\ Len(t) = n + 1
      /\ \A i \in 1 .. n : t[i] = s[i]
      /\ t[n + 1] = x
  BY ZenonT(40), <1>0, Appended
<1>. HIDE DEF t
<1>2. Seqs(t)
  <2>1. ASSUME NEW k \in 1 .. n + 1 PROVE IsSeq(t[k])
    <3>1. CASE k \in 1 .. n
      BY <1>1, <3>1 DEF Seqs
    <3>2. CASE k = n + 1
      BY <1>1, <3>2
    <3>. QED  BY <1>0, <3>1, <3>2
  <2>. QED  BY <1>1, <2>1 DEF Seqs
<1>3. PICK f : Joins(f, t, n + 1)
  BY <1>0, JoinsExist
<1>4. Joins(f, t, Len(t)) /\ Len(t) # 0
  BY <1>0, <1>1, <1>3
<1>5. FlattenSeq(t) = f[n + 1]
  BY <1>1, <1>2, <1>4, FlattenIs
<1>6. /\ n + 1 = 1 => f[n + 1] = t[n + 1]
      /\ n + 1 # 1 => f[n + 1] = Glue(f[(n + 1) - 1], t[n + 1])
  <2>. HIDE DEF n
  <2>1. n + 1 \in Nat /\ n + 1 \in 1 .. n + 1
    BY <1>0
  <2>. QED  BY <1>3, <2>1, JoinsStep
<1>7. CASE n = 0
  <2>1. s = <<>>
    BY <1>0, <1>7, NoElements
  <2>2. Glue(FlattenSeq(s), x) = x
    BY <2>1, FlattenEmpty, JoinEmpty
  <2>3. f[n + 1] = x
    BY <1>1, <1>6, <1>7
  <2>. QED  BY <1>2, <1>5, <2>2, <2>3 DEF t
<1>8. CASE n # 0
  <2>1. PICK g : Joins(g, s, n)
    BY <1>0, JoinsExist
  <2>2. FlattenSeq(s) = g[n]
    BY <1>8, <2>1, FlattenIs
  <2>. DEFINE h == [i \in 1 .. n |-> f[i]]
  <2>3. Joins(h, s, n)
    <3>1. ASSUME NEW i \in 1 .. n
          PROVE  h[i] = IF i = 1 THEN s[i] ELSE Glue(h[i - 1], s[i])
      <4>1. /\ i = 1 => f[i] = t[i]
            /\ i # 1 => f[i] = Glue(f[i - 1], t[i])
        <5>. HIDE DEF n
        <5>1. n + 1 \in Nat /\ i \in 1 .. n + 1
          BY <1>0
        <5>. QED  BY <1>3, <5>1, JoinsStep
      <4>2. t[i] = s[i]
        BY <1>1
      <4>3. i # 1 => h[i - 1] = f[i - 1]
        BY <1>0
      <4>. QED  BY <4>1, <4>2, <4>3
    <3>2. h = [i \in 1 .. n |-> h[i]]
      OBVIOUS
    <3>. HIDE DEF h
    <3>. QED  BY <3>1, <3>2 DEF Joins
  <2>4. h[n] = f[n] /\ n \in 1 .. n
    BY <1>0, <1>8
  <2>. HIDE DEF h
  <2>5. g[n] = h[n]
    BY <1>0, <2>1, <2>3, <2>4, JoinsUnique
  <2>6. (n + 1) - 1 = n /\ n + 1 # 1
    BY <1>0, <1>8
  <2>7. f[n + 1] = Glue(f[n], x)
    BY <1>1, <1>6, <2>6
  <2>. QED  BY <1>2, <1>5, <2>2, <2>4, <2>5, <2>7 DEF t
<1>. QED  BY <1>7, <1>8

\* From(s, i) joins the sequences of s after the first i.
From(s, i) == FlattenSeq([k \in 1 .. Len(s) - i |-> s[i + k]])

LEMMA RestIsSeqs ==
  ASSUME NEW s, Seqs(s), NEW i \in 0 .. Len(s)
  PROVE  LET t == [k \in 1 .. Len(s) - i |-> s[i + k]]
         IN Seqs(t) /\ Len(t) = Len(s) - i /\ Len(s) \in Nat
<1>. DEFINE n == Len(s)
            t == [k \in 1 .. n - i |-> s[i + k]]
<1>1. n \in Nat
  BY SeqFacts DEF Seqs
<1>2. n - i \in Nat
  BY <1>1
<1>3. t = [k \in 1 .. n - i |-> t[k]]
  OBVIOUS
<1>4. \A k \in 1 .. n - i : t[k] = s[i + k]
  OBVIOUS
<1>. HIDE DEF t
<1>5. IsSeq(t) /\ Len(t) = n - i
  BY <1>2, <1>3, FunIsSeq
<1>6. ASSUME NEW k \in 1 .. n - i PROVE IsSeq(t[k])
  <2>1. i + k \in 1 .. n
    BY <1>1
  <2>. QED  BY <1>4, <2>1 DEF Seqs
<1>. QED  BY <1>1, <1>5, <1>6 DEF Seqs, t

LEMMA FromIsSeq ==
  ASSUME NEW s, Seqs(s), NEW i \in 0 .. Len(s)
  PROVE  IsSeq(From(s, i))
BY RestIsSeqs, FlattenIsSeq DEF From

LEMMA FromAll ==
  ASSUME NEW s, Seqs(s)
  PROVE  From(s, 0) = FlattenSeq(s)
<1>. DEFINE n == Len(s)
            t == [k \in 1 .. n - 0 |-> s[0 + k]]
<1>1. n \in Nat /\ 0 \in 0 .. n /\ IsSeq(s)
  BY SeqFacts DEF Seqs
<1>2. Seqs(t) /\ Len(t) = n - 0
  BY <1>1, RestIsSeqs
<1>3. \A k \in 1 .. n : t[k] = s[k]
  BY <1>1
<1>4. From(s, 0) = FlattenSeq(t)
  BY DEF From
<1>. HIDE DEF t
<1>5. t = s
  <2>1. IsSeq(t) /\ Len(t) = n
    BY <1>1, <1>2 DEF Seqs
  <2>. QED  BY <1>1, <1>3, <2>1, SameSeq
<1>. QED  BY <1>4, <1>5

LEMMA FromNone ==
  ASSUME NEW s, Seqs(s)
  PROVE  From(s, Len(s)) = <<>>
<1>. DEFINE n == Len(s)
            t == [k \in 1 .. n - n |-> s[n + k]]
<1>1. n \in Nat /\ n \in 0 .. n
  <2>1. n \in Nat
    BY SeqFacts DEF Seqs
  <2>. QED  BY <2>1
<1>2. Seqs(t) /\ Len(t) = n - n
  BY <1>1, RestIsSeqs
<1>3. From(s, n) = FlattenSeq(t)
  BY DEF From
<1>. HIDE DEF t
<1>4. t = <<>>
  <2>1. IsSeq(t) /\ Len(t) = 0
    BY <1>1, <1>2 DEF Seqs
  <2>. QED  BY <2>1, NoElements
<1>. QED  BY <1>3, <1>4, FlattenEmpty

LEMMA FlattenFirst ==
  ASSUME NEW s, Seqs(s), Len(s) # 0
  PROVE  FlattenSeq(s) = Glue(s[1], From(s, 1))
<1>0. PICK n \in Nat : n = Len(s)
  BY SeqFacts DEF Seqs
<1>. DEFINE t == [k \in 1 .. n - 1 |-> s[1 + k]]
<1>1. n \in Nat /\ n # 0 /\ 1 \in 0 .. n /\ 1 \in 1 .. n
  BY <1>0
<1>2. Seqs(t) /\ Len(t) = n - 1
  BY <1>0, <1>1, RestIsSeqs
<1>3. From(s, 1) = FlattenSeq(t)
  BY <1>0 DEF From
<1>4. \A k \in 1 .. n - 1 : t[k] = s[1 + k]
  OBVIOUS
<1>5. \A k \in 1 .. n : IsSeq(s[k])
  BY <1>0 DEF Seqs
<1>. HIDE DEF t
<1>6. PICK h : Joins(h, t, n - 1)
  BY <1>1, JoinsExist
<1>7. \A k \in 1 .. n - 1 : IsSeq(h[k])
  BY <1>2, <1>6, JoinsAreSeqs
<1>. DEFINE f == [i \in 1 .. n |-> IF i = 1 THEN s[1] ELSE Glue(s[1], h[i - 1])]
<1>8. Joins(f, s, n)
  <2>1. ASSUME NEW i \in 1 .. n
        PROVE  f[i] = IF i = 1 THEN s[i] ELSE Glue(f[i - 1], s[i])
    <3>1. CASE i = 1
      BY <3>1
    <3>2. CASE i = 2
      <4>1. f[2] = Glue(s[1], h[1]) /\ f[1] = s[1]
        <5>1. 2 \in 1 .. n /\ 1 \in 1 .. n
          BY <1>1, <3>2
        <5>. QED  BY <5>1
      <4>2. n - 1 \in Nat /\ 1 \in 1 .. n - 1
        BY <1>1, <3>2
      <4>3. h[1] = t[1]
        <5>1. \A k \in 1 .. n - 1 : k = 1 => h[k] = t[k]
          BY <1>1, <1>6, <4>2, JoinsStep
        <5>. QED  BY <4>2, <5>1
      <4>4. t[1] = s[2]
        BY <1>4, <4>2
      <4>. QED  BY <3>2, <4>1, <4>3, <4>4
    <3>3. CASE i > 2
      <4>1. /\ n - 1 \in Nat /\ i - 1 \in 1 .. n - 1 /\ i - 1 # 1 /\ (i - 1) - 1 = i - 2
            /\ i - 2 \in 1 .. n - 1 /\ i - 1 \in 1 .. n /\ 1 + (i - 1) = i
        BY <1>1, <3>3
      <4>2. h[i - 1] = Glue(h[i - 2], t[i - 1])
        <5>. DEFINE k == i - 1
        <5>1. k \in 1 .. n - 1 /\ k # 1 /\ n - 1 \in Nat
          BY <4>1
        <5>2. h[k] = Glue(h[k - 1], t[k])
          <6>. HIDE DEF k
          <6>. QED  BY <1>1, <1>6, <5>1, JoinsStep
        <5>. QED  BY <4>1, <5>2
      <4>3. t[i - 1] = s[i]
        BY <1>4, <4>1
      <4>4. IsSeq(s[1]) /\ IsSeq(h[i - 2]) /\ IsSeq(s[i])
        BY <1>1, <1>5, <1>7, <4>1
      <4>5. f[i] = Glue(s[1], Glue(h[i - 2], s[i]))
        <5>1. f[i] = Glue(s[1], h[i - 1])
          BY <3>3
        <5>2. h[i - 1] = Glue(h[i - 2], s[i])
          BY <4>2, <4>3
        <5>. QED  BY <5>1, <5>2
      <4>6. f[i - 1] = Glue(s[1], h[i - 2])
        BY <4>1
      <4>7. Glue(s[1], Glue(h[i - 2], s[i])) = Glue(Glue(s[1], h[i - 2]), s[i])
        BY <4>4, JoinAssoc
      <4>. QED  BY <3>3, <4>5, <4>6, <4>7
    <3>. QED  BY <3>1, <3>2, <3>3
  <2>2. f = [i \in 1 .. n |-> f[i]]
    OBVIOUS
  <2>. HIDE DEF f
  <2>. QED  BY <2>1, <2>2 DEF Joins
<1>9. f[n] = IF n = 1 THEN s[1] ELSE Glue(s[1], h[n - 1])
  <2>1. n \in 1 .. n
    BY <1>1
  <2>. QED  BY <2>1
<1>. HIDE DEF f
<1>10. FlattenSeq(s) = f[n]
  BY <1>0, <1>1, <1>8, FlattenIs
<1>11. CASE n = 1
  <2>1. t = <<>>
    <3>1. Len(t) = 0 /\ IsSeq(t)
      BY <1>2, <1>11 DEF Seqs
    <3>. QED  BY <3>1, NoElements
  <2>2. From(s, 1) = <<>>
    BY <1>3, <2>1, FlattenEmpty
  <2>3. Glue(s[1], <<>>) = s[1]
    BY <1>1, <1>5, JoinEmpty
  <2>. QED  BY <1>9, <1>10, <1>11, <2>2, <2>3
<1>12. CASE n # 1
  <2>1. Len(t) # 0
    BY <1>1, <1>2, <1>12
  <2>2. FlattenSeq(t) = h[n - 1]
    BY <1>2, <1>6, <2>1, FlattenIs
  <2>. QED  BY <1>3, <1>9, <1>10, <1>12, <2>2
<1>. QED  BY <1>11, <1>12

LEMMA FromStep ==
  ASSUME NEW s, Seqs(s), NEW i \in 0 .. Len(s), i # Len(s)
  PROVE  /\ From(s, i) = Glue(s[i + 1], From(s, i + 1))
         /\ i + 1 \in 1 .. Len(s) /\ i + 1 \in 0 .. Len(s) /\ IsSeq(s[i + 1])
<1>. DEFINE n == Len(s)
            t == [k \in 1 .. n - i |-> s[i + k]]
            u == [k \in 1 .. Len(t) - 1 |-> t[1 + k]]
            v == [k \in 1 .. n - (i + 1) |-> s[i + 1 + k]]
<1>1. n \in Nat
  BY SeqFacts DEF Seqs
<1>2. i + 1 \in 1 .. n /\ i + 1 \in 0 .. n /\ IsSeq(s[i + 1])
  <2>1. i + 1 \in 1 .. n /\ i + 1 \in 0 .. n
    BY <1>1
  <2>. QED  BY <2>1 DEF Seqs
<1>3. Seqs(t) /\ Len(t) = n - i
  BY RestIsSeqs
<1>4. From(s, i) = FlattenSeq(t) /\ From(t, 1) = FlattenSeq(u) /\ From(s, i + 1) = FlattenSeq(v)
  BY DEF From
<1>5. \A k \in 1 .. n - i : t[k] = s[i + k]
  OBVIOUS
<1>. HIDE DEF t
<1>6. t[1] = s[i + 1]
  BY <1>1, <1>5
<1>7. u = v
  <2>1. Len(t) - 1 = n - (i + 1)
    BY <1>1, <1>3
  <2>2. ASSUME NEW k \in 1 .. n - (i + 1) PROVE t[1 + k] = s[i + 1 + k]
    <3>1. 1 + k \in 1 .. n - i /\ i + (1 + k) = i + 1 + k
      BY <1>1
    <3>. QED  BY <1>5, <3>1
  <2>. QED  BY <2>1, <2>2
<1>. HIDE DEF u, v
<1>8. FlattenSeq(t) = Glue(t[1], From(t, 1))
  <2>1. Len(t) # 0
    BY <1>1, <1>3
  <2>. QED  BY <1>3, <2>1, FlattenFirst
<1>. QED  BY <1>2, <1>4, <1>6, <1>7, <1>8

LEMMA FromAppend ==
  ASSUME NEW s, Seqs(s), NEW i \in 0 .. Len(s), NEW x, IsSeq(x)
  PROVE  From(Append(s, x), i) = Glue(From(s, i), x)
<1>. DEFINE n == Len(s)
            t == [k \in 1 .. n - i |-> s[i + k]]
            a == Append(s, x)
            u == [k \in 1 .. Len(a) - i |-> a[i + k]]
<1>1. n \in Nat /\ IsSeq(s)
  BY SeqFacts DEF Seqs
<1>2. Seqs(t) /\ Len(t) = n - i
  BY RestIsSeqs
<1>3. /\ Seqs(a) /\ Len(a) = n + 1
      /\ \A k \in 1 .. n : a[k] = s[k]
      /\ a[n + 1] = x
  BY <1>1, FlattenAppend, Appended
<1>. HIDE DEF a
<1>4. i \in 0 .. Len(a)
  BY <1>1, <1>3
<1>5. Seqs(u) /\ Len(u) = n + 1 - i
  BY <1>3, <1>4, RestIsSeqs
<1>6. From(s, i) = FlattenSeq(t) /\ From(a, i) = FlattenSeq(u)
  BY DEF From
<1>7. \A k \in 1 .. n - i : t[k] = s[i + k]
  OBVIOUS
<1>8. \A k \in 1 .. n + 1 - i : u[k] = a[i + k]
  BY <1>3
<1>. HIDE DEF t, u
<1>9. u = Append(t, x)
  <2>0. IsSeq(t)
    BY <1>2 DEF Seqs
  <2>1. /\ IsSeq(Append(t, x)) /\ Len(Append(t, x)) = (n - i) + 1
        /\ \A k \in 1 .. n - i : Append(t, x)[k] = t[k]
        /\ Append(t, x)[(n - i) + 1] = x
    <3>1. /\ IsSeq(Append(t, x)) /\ Len(Append(t, x)) = Len(t) + 1
          /\ \A k \in 1 .. Len(t) : Append(t, x)[k] = t[k]
          /\ Append(t, x)[Len(t) + 1] = x
      BY ZenonT(40), <2>0, Appended
    <3>2. Len(t) = n - i
      BY <1>2
    <3>. QED  BY <3>1, <3>2
  <2>. DEFINE b == Append(t, x)
  <2>. HIDE DEF b
  <2>2. ASSUME NEW k \in 1 .. n + 1 - i PROVE u[k] = b[k]
    <3>. HIDE DEF n
    <3>1. CASE k \in 1 .. n - i
      <4>1. i + k \in 1 .. n
        BY <1>1, <3>1
      <4>. QED  BY <1>3, <1>7, <1>8, <2>1, <3>1, <4>1 DEF b
    <3>2. CASE k = (n - i) + 1
      <4>1. i + k = n + 1
        BY <1>1, <3>2
      <4>. QED  BY <1>3, <1>8, <2>1, <3>2, <4>1 DEF b
    <3>. QED  BY <1>1, <3>1, <3>2
  <2>3. IsSeq(u) /\ Len(u) = n + 1 - i /\ IsSeq(b) /\ Len(b) = n + 1 - i
    <3>1. (n - i) + 1 = n + 1 - i
      BY <1>1
    <3>. QED  BY <1>5, <2>1, <3>1 DEF Seqs, b
  <2>4. u = b
    BY <2>2, <2>3, SameSeq
  <2>. QED  BY <2>4 DEF b
<1>. QED  BY <1>2, <1>6, <1>9, FlattenAppend DEF a

-----------------------------------------------------------------------------
(***************************************************************************)
(* FoldLeft, of the two operators the screen folds over its queue.         *)
(***************************************************************************)
Step(how, d, op) == IF how = "perform" THEN Perform(d, op) ELSE Submit(d, op)

\* f[S] folds the elements of q at the places in S, the greatest last.
Folds(f, how, d, q, n) ==
  f = [S \in SUBSET (1 .. n) |->
         IF S = {} THEN d ELSE Step(how, f[S \ {Max(S)}], q[Max(S)])]

LEMMA Greatest ==
  ASSUME NEW k \in Nat, NEW S \in SUBSET (1 .. k + 1), k + 1 \in S
  PROVE  Max(S) = k + 1
<1>1. \A y \in S : k + 1 >= y
  OBVIOUS
<1>2. \A x \in S : (\A y \in S : x >= y) => x = k + 1
  OBVIOUS
<1>. QED  BY <1>1, <1>2 DEF Max

LEMMA GreatestIn ==
  ASSUME NEW k \in Nat, NEW S \in SUBSET (1 .. k), S # {}
  PROVE  Max(S) \in S
<1>. DEFINE U == {k - x : x \in S}
<1>1. U \subseteq Nat /\ U # {}
  <2>1. \A x \in S : k - x \in Nat
    OBVIOUS
  <2>2. PICK x \in S : TRUE
    OBVIOUS
  <2>3. k - x \in U
    OBVIOUS
  <2>. QED  BY <2>1, <2>3
<1>2. PICK m \in U : \A y \in U : m <= y
  BY <1>1, Least
<1>3. PICK x \in S : m = k - x
  BY <1>2
<1>4. \A y \in S : x >= y
  <2>1. TAKE y \in S
  <2>2. k - y \in U
    OBVIOUS
  <2>3. m <= k - y
    BY <1>2, <2>2
  <2>. QED  BY <1>3, <2>3
<1>. QED  BY <1>4 DEF Max

LEMMA FoldsExist ==
  ASSUME NEW how, NEW d, NEW q, NEW n \in Nat
  PROVE  \E f : Folds(f, how, d, q, n)
<1>. DEFINE T == {k \in Nat : \E f : Folds(f, how, d, q, k)}
<1>1. 0 \in T
  <2>. DEFINE f == [S \in SUBSET (1 .. 0) |-> d]
  <2>1. ASSUME NEW S \in SUBSET (1 .. 0) PROVE S = {}
    OBVIOUS
  <2>2. f = [S \in SUBSET (1 .. 0) |->
               IF S = {} THEN d ELSE Step(how, f[S \ {Max(S)}], q[Max(S)])]
    BY <2>1
  <2>. HIDE DEF f
  <2>3. Folds(f, how, d, q, 0)
    BY <2>2 DEF Folds
  <2>. QED  BY <2>3
<1>2. ASSUME NEW k \in Nat, k \in T PROVE k + 1 \in T
  <2>1. PICK f : Folds(f, how, d, q, k)
    BY <1>2
  <2>. DEFINE g == [S \in SUBSET (1 .. k + 1) |->
                      IF k + 1 \in S THEN Step(how, f[S \ {k + 1}], q[k + 1]) ELSE f[S]]
  <2>2. ASSUME NEW S \in SUBSET (1 .. k + 1)
        PROVE  g[S] = IF S = {} THEN d ELSE Step(how, g[S \ {Max(S)}], q[Max(S)])
    <3>1. CASE k + 1 \in S
      <4>1. Max(S) = k + 1
        BY <3>1, Greatest
      <4>2. g[S] = Step(how, f[S \ {k + 1}], q[k + 1])
        BY <3>1
      <4>3. g[S \ {k + 1}] = f[S \ {k + 1}]
        OBVIOUS
      <4>. HIDE DEF g
      <4>. QED  BY <3>1, <4>1, <4>2, <4>3
    <3>2. CASE k + 1 \notin S
      <4>1. S \in SUBSET (1 .. k)
        BY <3>2
      <4>2. g[S] = f[S]
        BY <3>2
      <4>3. g[S \ {Max(S)}] = f[S \ {Max(S)}]
        BY <3>2
      <4>4. f[S] = IF S = {} THEN d ELSE Step(how, f[S \ {Max(S)}], q[Max(S)])
        BY <2>1, <4>1 DEF Folds
      <4>. HIDE DEF g
      <4>. QED  BY <4>2, <4>3, <4>4
    <3>. QED  BY <3>1, <3>2
  <2>3. g = [S \in SUBSET (1 .. k + 1) |-> g[S]]
    OBVIOUS
  <2>. HIDE DEF g
  <2>4. Folds(g, how, d, q, k + 1)
    BY <2>2, <2>3 DEF Folds
  <2>. QED  BY <2>4
<1>3. Nat \subseteq T
  <2>. HIDE DEF T
  <2>. QED  BY <1>1, <1>2, Induct
<1>. QED  BY <1>3

\* g[i] has folded the first i elements of q, for i up to n.
Steps(g, how, d, q, n) ==
  /\ g[0] = d
  /\ \A i \in 1 .. n : g[i] = Step(how, g[i - 1], q[i])

LEMMA FoldsStep ==
  ASSUME NEW how, NEW d, NEW q, NEW n \in Nat, NEW f, Folds(f, how, d, q, n)
  PROVE  \E g : Steps(g, how, d, q, n) /\ g[n] = f[1 .. n]
<1>. DEFINE g == [i \in 0 .. n |-> f[1 .. i]]
<1>1. \A S \in SUBSET (1 .. n) :
        f[S] = IF S = {} THEN d ELSE Step(how, f[S \ {Max(S)}], q[Max(S)])
  BY DEF Folds
<1>2. g[0] = d
  <2>1. 1 .. 0 = {} /\ g[0] = f[1 .. 0]
    OBVIOUS
  <2>. HIDE DEF g
  <2>. QED  BY <1>1, <2>1
<1>3. ASSUME NEW i \in 1 .. n PROVE g[i] = Step(how, g[i - 1], q[i])
  <2>1. g[i] = f[1 .. i] /\ g[i - 1] = f[1 .. i - 1]
    OBVIOUS
  <2>2. Max(1 .. i) = i
    <3>1. i - 1 \in Nat /\ (i - 1) + 1 = i /\ 1 .. i \in SUBSET (1 .. i) /\ i \in 1 .. i
      OBVIOUS
    <3>. DEFINE k == i - 1
                S == 1 .. i
    <3>2. k \in Nat /\ k + 1 = i /\ S \in SUBSET (1 .. k + 1) /\ k + 1 \in S
      BY <3>1
    <3>. HIDE DEF k, S
    <3>3. Max(S) = k + 1
      BY <3>2, Greatest
    <3>. QED  BY <3>2, <3>3 DEF S
  <2>3. (1 .. i) \ {i} = 1 .. i - 1
    OBVIOUS
  <2>4. 1 .. i \in SUBSET (1 .. n) /\ 1 .. i # {}
    OBVIOUS
  <2>. HIDE DEF g
  <2>5. f[1 .. i] = Step(how, f[(1 .. i) \ {i}], q[i])
    BY <1>1, <2>2, <2>4
  <2>. QED  BY <2>1, <2>3, <2>5
<1>4. g[n] = f[1 .. n]
  OBVIOUS
<1>. HIDE DEF g
<1>5. Steps(g, how, d, q, n)
  BY <1>2, <1>3 DEF Steps
<1>. QED  BY <1>4, <1>5

LEMMA PerformSteps ==
  ASSUME NEW d, NEW q, IsSeq(q)
  PROVE  \E g : Steps(g, "perform", d, q, Len(q)) /\ g[Len(q)] = FoldLeft(Perform, d, q)
<1>1. PICK n \in Nat : n = Len(q) /\ DOMAIN q = 1 .. n
  BY SeqFacts
<1>. DEFINE F == CHOOSE f : f = [S \in SUBSET (1 .. n) |->
                                   IF S = {} THEN d ELSE Perform(f[S \ {Max(S)}], q[Max(S)])]
<1>2. FoldLeft(Perform, d, q) = F[1 .. n]
  BY <1>1 DEF FoldLeft, MapThenFoldSet
<1>0. PICK how : how = "perform"
  OBVIOUS
<1>3. PICK f : Folds(f, how, d, q, n)
  BY FoldsExist
<1>4. f = [S \in SUBSET (1 .. n) |->
             IF S = {} THEN d ELSE Perform(f[S \ {Max(S)}], q[Max(S)])]
  BY <1>0, <1>3 DEF Folds, Step
<1>5. F = [S \in SUBSET (1 .. n) |->
             IF S = {} THEN d ELSE Perform(F[S \ {Max(S)}], q[Max(S)])]
  BY <1>4, Zenon
<1>. HIDE DEF F
<1>6. Folds(F, how, d, q, n)
  BY <1>0, <1>5 DEF Folds, Step
<1>7. PICK g : Steps(g, how, d, q, n) /\ g[n] = F[1 .. n]
  BY <1>6, FoldsStep
<1>. QED  BY <1>0, <1>1, <1>2, <1>7

LEMMA SubmitSteps ==
  ASSUME NEW d, NEW q, IsSeq(q)
  PROVE  \E g : Steps(g, "submit", d, q, Len(q)) /\ g[Len(q)] = FoldLeft(Submit, d, q)
<1>1. PICK n \in Nat : n = Len(q) /\ DOMAIN q = 1 .. n
  BY SeqFacts
<1>. DEFINE F == CHOOSE f : f = [S \in SUBSET (1 .. n) |->
                                   IF S = {} THEN d ELSE Submit(f[S \ {Max(S)}], q[Max(S)])]
<1>2. FoldLeft(Submit, d, q) = F[1 .. n]
  BY <1>1 DEF FoldLeft, MapThenFoldSet
<1>0. PICK how : how = "submit"
  OBVIOUS
<1>3. PICK f : Folds(f, how, d, q, n)
  BY FoldsExist
<1>4. f = [S \in SUBSET (1 .. n) |->
             IF S = {} THEN d ELSE Submit(f[S \ {Max(S)}], q[Max(S)])]
  BY <1>0, <1>3 DEF Folds, Step
<1>5. F = [S \in SUBSET (1 .. n) |->
             IF S = {} THEN d ELSE Submit(F[S \ {Max(S)}], q[Max(S)])]
  BY <1>4, Zenon
<1>. HIDE DEF F
<1>6. Folds(F, how, d, q, n)
  BY <1>0, <1>5 DEF Folds, Step
<1>7. PICK g : Steps(g, how, d, q, n) /\ g[n] = F[1 .. n]
  BY <1>6, FoldsStep
<1>. QED  BY <1>0, <1>1, <1>2, <1>7

-----------------------------------------------------------------------------
(***************************************************************************)
(* The screen.  What is drawn followed by what waits to be drawn is what   *)
(* was given to it.                                                        *)
(***************************************************************************)
OpOK(op) == DOMAIN op = {"type", "piece", "state", "good", "heard", "smeared"}

Shows(op) == IF op.type = "flip" THEN <<>> ELSE <<op.piece>>
AllShow(q) == [i \in 1 .. Len(q) |-> Shows(q[i])]
Queued(q) == FlattenSeq(AllShow(q))
Shown(d) == Glue(d.drawn, Queued(d.queue))

QueueOK(q) ==
  /\ IsSeq(q)
  /\ \A i \in 1 .. Len(q) : OpOK(q[i]) /\ (q[i].heard => i = 1)

DrawnOK(d) ==
  /\ DOMAIN d = {"size", "queue", "drawn", "visible", "flushing", "smeared"}
  /\ IsSeq(d.drawn)
  /\ d.visible \in 0 .. Len(d.drawn)

ScreenOK(d) == DrawnOK(d) /\ QueueOK(d.queue)

\* Screen e has been given the pieces p more than screen d.
Draws(d, e, p) ==
  /\ ScreenOK(e)
  /\ Shown(e) = Glue(Shown(d), p)
  /\ e.flushing = d.flushing

LEMMA ShowsIsSeq ==
  ASSUME NEW op
  PROVE  IsSeq(Shows(op))
<1>1. IsSeq(<<op.piece>>)
  BY EmptyIsSeq, Appended
<1>. QED  BY <1>1, EmptyIsSeq DEF Shows

LEMMA AllShowSeqs ==
  ASSUME NEW q, IsSeq(q)
  PROVE  /\ Seqs(AllShow(q)) /\ Len(AllShow(q)) = Len(q)
         /\ \A i \in 1 .. Len(q) : AllShow(q)[i] = Shows(q[i])
<1>1. Len(q) \in Nat
  BY SeqFacts
<1>. DEFINE a == AllShow(q)
<1>2. a = [i \in 1 .. Len(q) |-> a[i]] /\ \A i \in 1 .. Len(q) : a[i] = Shows(q[i])
  BY DEF AllShow
<1>. HIDE DEF a
<1>3. IsSeq(a) /\ Len(a) = Len(q)
  BY <1>1, <1>2, FunIsSeq
<1>. QED  BY <1>2, <1>3, ShowsIsSeq DEF Seqs, a

LEMMA QueuedIsSeq ==
  ASSUME NEW q, IsSeq(q)
  PROVE  IsSeq(Queued(q))
BY AllShowSeqs, FlattenIsSeq DEF Queued

LEMMA QueuedAppend ==
  ASSUME NEW q, IsSeq(q), NEW op
  PROVE  Queued(Append(q, op)) = Glue(Queued(q), Shows(op))
<1>. DEFINE b == Append(q, op)
            a == AllShow(q)
            c == AllShow(b)
            e == Append(a, Shows(op))
<1>1. PICK n \in Nat : n = Len(q)
  BY SeqFacts
<1>2. /\ IsSeq(b) /\ Len(b) = n + 1 /\ b[n + 1] = op
      /\ \A i \in 1 .. n : b[i] = q[i]
  BY ZenonT(40), <1>1, Appended
<1>3. Seqs(a) /\ IsSeq(a) /\ Len(a) = n /\ \A i \in 1 .. n : a[i] = Shows(q[i])
  BY <1>1, AllShowSeqs DEF Seqs
<1>. HIDE DEF b
<1>4. IsSeq(c) /\ Len(c) = n + 1 /\ \A i \in 1 .. n + 1 : c[i] = Shows(b[i])
  BY <1>2, AllShowSeqs DEF Seqs
<1>. HIDE DEF a, c
<1>5. /\ IsSeq(e) /\ Len(e) = n + 1 /\ e[n + 1] = Shows(op)
      /\ \A i \in 1 .. n : e[i] = a[i]
  BY <1>3, AppendedTo
<1>. HIDE DEF e
<1>6. \A i \in 1 .. n + 1 : c[i] = e[i]
  <2>1. \A i \in 1 .. n : c[i] = e[i]
    BY <1>2, <1>3, <1>4, <1>5
  <2>2. c[n + 1] = e[n + 1]
    BY <1>2, <1>4, <1>5
  <2>. QED  BY <2>1, <2>2
<1>7. c = e
  BY <1>4, <1>5, <1>6, SameSeq
<1>8. FlattenSeq(e) = Glue(FlattenSeq(a), Shows(op))
  BY <1>3, ShowsIsSeq, FlattenAppend DEF e
<1>. QED  BY <1>7, <1>8 DEF Queued, a, b, c

LEMMA QueuedSame ==
  ASSUME NEW q, NEW r, IsSeq(q), IsSeq(r), Len(q) = Len(r),
         \A i \in 1 .. Len(q) : Shows(q[i]) = Shows(r[i])
  PROVE  Queued(q) = Queued(r)
<1>1. /\ IsSeq(AllShow(q)) /\ IsSeq(AllShow(r))
      /\ Len(AllShow(q)) = Len(q) /\ Len(AllShow(r)) = Len(q)
      /\ \A i \in 1 .. Len(q) : AllShow(q)[i] = AllShow(r)[i]
  BY AllShowSeqs DEF Seqs
<1>2. AllShow(q) = AllShow(r)
  BY <1>1, SameSeq
<1>. QED  BY <1>2 DEF Queued

LEMMA QueuedRest ==
  ASSUME NEW q, IsSeq(q), NEW i \in 0 .. Len(q)
  PROVE  From(AllShow(q), i) = Queued(SubSeq(q, i + 1, Len(q)))
<1>1. PICK n \in Nat : n = Len(q)
  BY SeqFacts
<1>. DEFINE r == SubSeq(q, i + 1, n)
            a == AllShow(q)
<1>2. IsSeq(r) /\ Len(r) = n - i /\ \A k \in 1 .. n - i : r[k] = q[i + k]
  <2>1. n \in i .. Len(q)
    BY <1>1
  <2>. QED  BY <1>1, <2>1, Cut
<1>3. Len(a) = n /\ \A k \in 1 .. n : a[k] = Shows(q[k])
  BY <1>1, AllShowSeqs
<1>4. From(a, i) = FlattenSeq([k \in 1 .. n - i |-> a[i + k]])
  BY <1>3 DEF From
<1>. HIDE DEF a
<1>5. \A k \in 1 .. n - i : a[i + k] = Shows(q[i + k])
  <2>1. TAKE k \in 1 .. n - i
  <2>2. i + k \in 1 .. n
    BY <1>1
  <2>. QED  BY <1>3, <2>2
<1>6. [k \in 1 .. n - i |-> a[i + k]] = [k \in 1 .. n - i |-> Shows(r[k])]
  <2>. HIDE DEF r
  <2>. QED  BY <1>2, <1>5
<1>7. AllShow(r) = [k \in 1 .. n - i |-> Shows(r[k])]
  <2>. HIDE DEF r
  <2>. QED  BY <1>2 DEF AllShow
<1>. QED  BY <1>1, <1>4, <1>6, <1>7 DEF Queued, a

LEMMA PerformShows ==
  ASSUME NEW d, DrawnOK(d), NEW op
  PROVE  LET e == Perform(d, op)
         IN /\ DrawnOK(e) /\ e.drawn = Glue(d.drawn, Shows(op))
            /\ e.queue = d.queue /\ e.flushing = d.flushing
<1>. DEFINE e == Perform(d, op)
<1>1. IsSeq(d.drawn) /\ Len(d.drawn) \in Nat
  BY SeqFacts DEF DrawnOK
<1>2. CASE op.type = "flip"
  <2>1. e = [d EXCEPT !.visible = Len(d.drawn)]
    BY <1>2 DEF Perform
  <2>2. /\ DOMAIN e = DOMAIN d /\ e.drawn = d.drawn /\ e.queue = d.queue
        /\ e.flushing = d.flushing /\ e.visible = Len(d.drawn)
    BY <2>1 DEF DrawnOK
  <2>3. Glue(d.drawn, Shows(op)) = d.drawn
    BY <1>1, <1>2, JoinEmpty DEF Shows
  <2>. HIDE DEF e
  <2>. QED  BY <1>1, <2>2, <2>3 DEF DrawnOK, e
<1>3. CASE op.type # "flip"
  <2>1. PICK b, m : b = Append(d.drawn, op.piece)
                    /\ m = d.smeared \cup (IF op.smeared THEN {op.piece} ELSE {})
    OBVIOUS
  <2>2. e = [d EXCEPT !.drawn = b, !.smeared = m]
    BY <1>3, <2>1 DEF Perform
  <2>3. /\ DOMAIN e = DOMAIN d /\ e.drawn = b /\ e.queue = d.queue
        /\ e.flushing = d.flushing /\ e.visible = d.visible
    BY <2>2 DEF DrawnOK
  <2>4. Glue(d.drawn, Shows(op)) = b /\ IsSeq(b) /\ Len(b) = Len(d.drawn) + 1
    BY <1>1, <1>3, <2>1, Appended DEF Shows
  <2>5. d.visible \in 0 .. Len(b)
    BY <1>1, <2>4 DEF DrawnOK
  <2>. HIDE DEF e
  <2>. QED  BY <2>3, <2>4, <2>5 DEF DrawnOK, e
<1>. QED  BY <1>2, <1>3

LEMMA ShownIsSeq ==
  ASSUME NEW d, ScreenOK(d)
  PROVE  IsSeq(Shown(d)) /\ IsSeq(d.drawn) /\ IsSeq(Queued(d.queue))
<1>1. IsSeq(d.drawn) /\ IsSeq(d.queue)
  BY DEF ScreenOK, DrawnOK, QueueOK
<1>. QED  BY <1>1, QueuedIsSeq, Joined DEF Shown

LEMMA NothingQueued == Queued(<<>>) = <<>>
<1>1. AllShow(<<>>) = <<>>
  <2>1. IsSeq(AllShow(<<>>)) /\ Len(AllShow(<<>>)) = 0
    BY EmptyIsSeq, AllShowSeqs DEF Seqs
  <2>. QED  BY <2>1, NoElements
<1>. QED  BY <1>1, FlattenEmpty DEF Queued

\* An operation put at the end of the queue.
LEMMA QueueShows ==
  ASSUME NEW d, ScreenOK(d), NEW op, OpOK(op), op.heard = FALSE
  PROVE  LET e == [d EXCEPT !.queue = Append(@, op)]
         IN /\ Draws(d, e, Shows(op)) /\ Len(e.queue) = Len(d.queue) + 1
            /\ e.queue[Len(d.queue) + 1] = op /\ e.drawn = d.drawn
<1>. DEFINE e == [d EXCEPT !.queue = Append(@, op)]
<1>1. PICK q : q = d.queue
  OBVIOUS
<1>2. PICK n \in Nat : n = Len(q)
  BY <1>1, SeqFacts DEF ScreenOK, QueueOK
<1>3. PICK b : b = Append(q, op)
  OBVIOUS
<1>4. /\ DOMAIN e = DOMAIN d /\ e.queue = b /\ e.drawn = d.drawn
      /\ e.visible = d.visible /\ e.flushing = d.flushing
  BY <1>1, <1>3 DEF ScreenOK, DrawnOK
<1>. HIDE DEF e
<1>5. IsSeq(q) /\ \A i \in 1 .. n : OpOK(q[i]) /\ (q[i].heard => i = 1)
  BY <1>1, <1>2 DEF ScreenOK, QueueOK
<1>6. /\ IsSeq(b) /\ Len(b) = n + 1
      /\ \A i \in 1 .. n : b[i] = q[i]
      /\ b[n + 1] = op
  BY <1>2, <1>3, <1>5, AppendedTo
<1>7. QueueOK(b)
  <2>1. ASSUME NEW i \in 1 .. n + 1 PROVE OpOK(b[i]) /\ (b[i].heard => i = 1)
    <3>1. CASE i \in 1 .. n
      BY <1>5, <1>6, <3>1
    <3>2. CASE i = n + 1
      BY <1>6, <3>2
    <3>. QED  BY <3>1, <3>2
  <2>. QED  BY <1>6, <2>1 DEF QueueOK
<1>8. ScreenOK(e)
  BY <1>4, <1>7 DEF ScreenOK, DrawnOK
<1>9. Shown(e) = Glue(Shown(d), Shows(op))
  <2>1. Queued(b) = Glue(Queued(q), Shows(op))
    BY <1>3, <1>5, QueuedAppend
  <2>2. IsSeq(d.drawn) /\ IsSeq(Queued(q)) /\ IsSeq(Shows(op))
    BY <1>1, ShownIsSeq, ShowsIsSeq
  <2>3. Glue(Glue(d.drawn, Queued(q)), Shows(op)) = Glue(d.drawn, Glue(Queued(q), Shows(op)))
    BY <2>2, JoinAssoc
  <2>. QED  BY <1>1, <1>4, <2>1, <2>3 DEF Shown
<1>. QED  BY <1>1, <1>2, <1>4, <1>6, <1>8, <1>9 DEF Draws, e

LEMMA SubmitShows ==
  ASSUME NEW d, ScreenOK(d), NEW op, OpOK(op), op.heard = FALSE
  PROVE  LET e == Submit(d, op)
         IN Draws(d, e, Shows(op)) /\ (Pending(d) => Pending(e))
<1>. DEFINE e == Submit(d, op)
<1>1. CASE Pending(d)
  <2>. DEFINE c == [d EXCEPT !.queue = Append(@, op)]
  <2>1. e = c
    BY <1>1 DEF Submit
  <2>2. Draws(d, c, Shows(op)) /\ Len(c.queue) = Len(d.queue) + 1
    BY QueueShows
  <2>. HIDE DEF e, c
  <2>3. Len(d.queue) \in Nat
    BY SeqFacts DEF ScreenOK, QueueOK
  <2>4. Len(c.queue) # 0
    BY <2>2, <2>3
  <2>5. Pending(c)
    BY <2>4, EmptyIsSeq DEF Pending
  <2>. QED  BY <2>1, <2>2, <2>5 DEF e
<1>2. CASE ~Pending(d)
  <2>. DEFINE c == Perform(d, op)
  <2>1. e = c
    BY <1>2 DEF Submit
  <2>2. /\ DrawnOK(c) /\ c.drawn = Glue(d.drawn, Shows(op))
        /\ c.queue = d.queue /\ c.flushing = d.flushing
    BY PerformShows DEF ScreenOK
  <2>. HIDE DEF e, c
  <2>3. d.queue = <<>> /\ Queued(d.queue) = <<>>
    BY <1>2, NothingQueued DEF Pending
  <2>4. Shown(d) = d.drawn /\ Shown(c) = c.drawn
    <3>1. IsSeq(d.drawn) /\ IsSeq(c.drawn)
      BY <2>2 DEF ScreenOK, DrawnOK
    <3>. QED  BY <2>2, <2>3, <3>1, JoinEmpty DEF Shown
  <2>. QED  BY <1>2, <2>1, <2>2, <2>4 DEF e, Draws, ScreenOK
<1>. QED  BY <1>1, <1>2

IsReplaced(t, s, i, x) == t = [s EXCEPT ![i] = x]

LEMMA Replaced ==
  ASSUME NEW s, IsSeq(s), NEW n \in Nat, Len(s) = n, NEW i \in 1 .. n, NEW x,
         NEW t, IsReplaced(t, s, i, x)
  PROVE  /\ IsSeq(t) /\ Len(t) = n /\ t[i] = x
         /\ \A k \in 1 .. n : k # i => t[k] = s[k]
<1>1. DOMAIN s = 1 .. n
  BY SeqFacts
<1>2. PICK S : s \in Seq(S)
  BY DEF IsSeq
<1>3. s \in [1 .. n -> S \cup {x}]
  BY <1>1, <1>2
<1>4. t \in [1 .. n -> S \cup {x}]
  BY <1>3 DEF IsReplaced
<1>5. t = [k \in 1 .. n |-> t[k]] /\ t[i] = x /\ \A k \in 1 .. n : k # i => t[k] = s[k]
  BY <1>1 DEF IsReplaced
<1>6. IsSeq(t) /\ Len(t) = n
  BY <1>5, FunIsSeq
<1>. QED  BY <1>5, <1>6

\* A change of an entry of the queue that shows the same.
LEMMA Changed ==
  ASSUME NEW q, QueueOK(q), NEW n \in Nat, Len(q) = n, NEW i \in 1 .. n, NEW op,
         OpOK(op), op.type = q[i].type, op.piece = q[i].piece, op.heard => i = 1,
         NEW r, IsReplaced(r, q, i, op)
  PROVE  QueueOK(r) /\ Queued(r) = Queued(q) /\ Len(r) = n
<1>1. IsSeq(q) /\ \A k \in 1 .. n : OpOK(q[k]) /\ (q[k].heard => k = 1)
  BY DEF QueueOK
<1>2. IsSeq(r) /\ Len(r) = n /\ r[i] = op /\ \A k \in 1 .. n : k # i => r[k] = q[k]
  BY <1>1, Replaced
<1>3. \A k \in 1 .. n : OpOK(r[k]) /\ (r[k].heard => k = 1) /\ Shows(r[k]) = Shows(q[k])
  <2>1. TAKE k \in 1 .. n
  <2>2. CASE k = i
    BY <1>2, <2>2 DEF Shows
  <2>3. CASE k # i
    BY <1>1, <1>2, <2>3
  <2>. QED  BY <2>2, <2>3
<1>4. QueueOK(r)
  BY <1>2, <1>3 DEF QueueOK
<1>5. Queued(q) = Queued(r)
  BY <1>1, <1>2, <1>3, QueuedSame
<1>. QED  BY <1>2, <1>4, <1>5

LEMMA PerformedShows ==
  ASSUME NEW d, ScreenOK(d), NEW f \in 0 .. Len(d.queue)
  PROVE  LET c == FoldLeft(Perform, d, SubSeq(d.queue, 1, f))
         IN /\ DrawnOK(c) /\ c.queue = d.queue /\ c.flushing = d.flushing
            /\ Glue(c.drawn, Queued(SubSeq(d.queue, f + 1, Len(d.queue)))) = Shown(d)
<1>. DEFINE q == d.queue
            a == AllShow(q)
            s == SubSeq(q, 1, f)
<1>1. PICK n \in Nat : n = Len(q)
  BY SeqFacts DEF ScreenOK, QueueOK
<1>2. IsSeq(q) /\ DrawnOK(d)
  BY DEF ScreenOK, QueueOK
<1>3. IsSeq(s) /\ Len(s) = f /\ \A k \in 1 .. f : s[k] = q[k]
  <2>1. 0 \in 0 .. Len(q) /\ f \in 0 .. Len(q) /\ 0 + 1 = 1 /\ f - 0 = f
    BY <1>1
  <2>2. /\ IsSeq(SubSeq(q, 0 + 1, f)) /\ Len(SubSeq(q, 0 + 1, f)) = f - 0
        /\ \A k \in 1 .. f - 0 : SubSeq(q, 0 + 1, f)[k] = q[0 + k]
    BY <1>2, <2>1, Cut
  <2>3. \A k \in 1 .. f : 0 + k = k
    OBVIOUS
  <2>. QED  BY <2>1, <2>2, <2>3
<1>4. Seqs(a) /\ Len(a) = n /\ \A k \in 1 .. n : a[k] = Shows(q[k])
  BY <1>1, <1>2, AllShowSeqs
<1>. HIDE DEF s, a
<1>5. PICK g : Steps(g, "perform", d, s, Len(s)) /\ g[Len(s)] = FoldLeft(Perform, d, s)
  BY <1>3, PerformSteps
<1>6. g[0] = d /\ \A k \in 1 .. f : g[k] = Perform(g[k - 1], q[k])
  BY <1>3, <1>5 DEF Steps, Step
<1>. DEFINE P(k) == /\ DrawnOK(g[k]) /\ g[k].queue = q /\ g[k].flushing = d.flushing
                    /\ Glue(g[k].drawn, From(a, k)) = Shown(d)
            T == {k \in Nat : k <= f => P(k)}
<1>7. 0 \in T
  <2>1. From(a, 0) = Queued(q)
    BY <1>4, FromAll DEF Queued, a
  <2>2. P(0)
    BY <1>2, <1>6, <2>1 DEF Shown
  <2>. HIDE DEF P
  <2>. QED  BY <2>2
<1>8. ASSUME NEW k \in Nat, k \in T PROVE k + 1 \in T
  <2>. SUFFICES ASSUME k + 1 <= f PROVE P(k + 1)
    OBVIOUS
  <2>1. k \in 0 .. n /\ k # n /\ k + 1 \in 1 .. n /\ k + 1 \in 1 .. f /\ (k + 1) - 1 = k /\ k <= f
    BY <1>1
  <2>2. P(k)
    BY <1>8, <2>1
  <2>3. g[k + 1] = Perform(g[k], q[k + 1])
    BY <1>6, <2>1
  <2>4. /\ DrawnOK(g[k + 1]) /\ g[k + 1].drawn = Glue(g[k].drawn, Shows(q[k + 1]))
        /\ g[k + 1].queue = g[k].queue /\ g[k + 1].flushing = g[k].flushing
    BY <2>2, <2>3, PerformShows
  <2>5. From(a, k) = Glue(a[k + 1], From(a, k + 1)) /\ IsSeq(a[k + 1]) /\ IsSeq(From(a, k + 1))
    <3>1. k \in 0 .. Len(a) /\ k # Len(a)
      BY <1>4, <2>1
    <3>. QED  BY <1>4, <3>1, FromStep, FromIsSeq
  <2>6. a[k + 1] = Shows(q[k + 1])
    BY <1>4, <2>1
  <2>7. IsSeq(g[k].drawn)
    BY <2>2 DEF DrawnOK
  <2>8. Glue(Glue(g[k].drawn, a[k + 1]), From(a, k + 1)) = Glue(g[k].drawn, Glue(a[k + 1], From(a, k + 1)))
    BY <2>5, <2>7, JoinAssoc
  <2>. QED  BY <2>2, <2>4, <2>5, <2>6, <2>8
<1>9. Nat \subseteq T
  <2>. HIDE DEF T
  <2>. QED  BY <1>7, <1>8, Induct
<1>10. P(f)
  BY <1>1, <1>9
<1>11. From(a, f) = Queued(SubSeq(q, f + 1, Len(q)))
  BY <1>2, QueuedRest DEF a
<1>. QED  BY <1>3, <1>5, <1>10, <1>11 DEF s

LEMMA ScanShows ==
  ASSUME NEW d, ScreenOK(d)
  PROVE  Draws(d, Scan(d), <<>>)
<1>. DEFINE q == d.queue
            waiting == {i \in DOMAIN q : q[i].state # "ready"}
            first == IF waiting = {} THEN Len(q) + 1
                     ELSE CHOOSE i \in waiting : \A j \in waiting : i <= j
            f == first - 1
            c == FoldLeft(Perform, d, SubSeq(q, 1, first - 1))
            rest == SubSeq(q, first, Len(q))
            e == Scan(d)
<1>1. PICK n \in Nat : n = Len(q) /\ DOMAIN q = 1 .. n
  BY SeqFacts DEF ScreenOK, QueueOK
<1>2. first \in 1 .. n + 1
  <2>1. CASE waiting = {}
    BY <1>1, <2>1
  <2>2. CASE waiting # {}
    <3>1. waiting \subseteq Nat /\ waiting \subseteq 1 .. n
      BY <1>1
    <3>2. \E i \in waiting : \A j \in waiting : i <= j
      BY <2>2, <3>1, Least
    <3>3. first \in waiting
      BY <2>2, <3>2
    <3>. HIDE DEF first, waiting
    <3>. QED  BY <3>1, <3>3
  <2>. QED  BY <2>1, <2>2
<1>3. e = [c EXCEPT !.queue = IF rest # <<>> /\ rest[1].state = "loading"
                              THEN [rest EXCEPT ![1].heard = TRUE] ELSE rest]
  BY DEF Scan
<1>. HIDE DEF first
<1>4. f \in 0 .. n /\ f + 1 = first
  BY <1>2
<1>5. /\ DrawnOK(c) /\ c.queue = q /\ c.flushing = d.flushing
      /\ Glue(c.drawn, Queued(rest)) = Shown(d)
  BY <1>1, <1>4, PerformedShows
<1>6. IsSeq(q) /\ \A k \in 1 .. n : OpOK(q[k]) /\ (q[k].heard => k = 1)
  BY <1>1 DEF ScreenOK, QueueOK
<1>. DEFINE m == n - f
<1>7. IsSeq(rest) /\ Len(rest) = m /\ m \in Nat /\ \A k \in 1 .. m : rest[k] = q[f + k]
  <2>1. n \in f .. Len(q) /\ f \in 0 .. Len(q)
    BY <1>1, <1>4
  <2>2. /\ IsSeq(SubSeq(q, f + 1, n)) /\ Len(SubSeq(q, f + 1, n)) = n - f
        /\ \A k \in 1 .. n - f : SubSeq(q, f + 1, n)[k] = q[f + k]
    BY <1>6, <2>1, Cut
  <2>3. n - f \in Nat
    BY <1>4
  <2>. QED  BY <1>1, <1>4, <2>2, <2>3
<1>. HIDE DEF c, rest, e, f, q
<1>8. QueueOK(rest)
  <2>1. ASSUME NEW k \in 1 .. m PROVE OpOK(rest[k]) /\ (rest[k].heard => k = 1)
    <3>1. f + k \in 1 .. n /\ (f + k = 1 => k = 1)
      BY <1>4
    <3>. QED  BY <1>6, <1>7, <3>1
  <2>. HIDE DEF m
  <2>. QED  BY <1>7, <2>1 DEF QueueOK
<1>9. PICK r : e = [c EXCEPT !.queue = r] /\ QueueOK(r) /\ Queued(r) = Queued(rest)
  <2>1. CASE rest # <<>> /\ rest[1].state = "loading"
    <3>1. PICK op : op = [rest[1] EXCEPT !.heard = TRUE]
      OBVIOUS
    <3>2. PICK r : r = [rest EXCEPT ![1] = op]
      OBVIOUS
    <3>3. e = [c EXCEPT !.queue = r]
      BY <1>3, <2>1, <3>1, <3>2
    <3>4. 1 \in 1 .. m
      <4>1. m # 0
        BY <1>7, <2>1, NoElements
      <4>. QED  BY <1>7, <4>1
    <3>5. OpOK(rest[1])
      BY <1>7, <1>8, <3>4 DEF QueueOK
    <3>6. OpOK(op) /\ op.type = rest[1].type /\ op.piece = rest[1].piece
      BY <3>1, <3>5 DEF OpOK
    <3>7. IsReplaced(r, rest, 1, op)
      BY <3>2 DEF IsReplaced
    <3>8. QueueOK(r) /\ Queued(r) = Queued(rest)
      <4>. HIDE DEF m
      <4>. QED  BY <1>7, <1>8, <3>4, <3>6, <3>7, Changed
    <3>. QED  BY <3>3, <3>8
  <2>2. CASE ~(rest # <<>> /\ rest[1].state = "loading")
    BY <1>3, <1>8, <2>2
  <2>. QED  BY <2>1, <2>2
<1>10. /\ DOMAIN e = DOMAIN c /\ e.queue = r /\ e.drawn = c.drawn
       /\ e.visible = c.visible /\ e.flushing = c.flushing
  BY <1>5, <1>9 DEF DrawnOK
<1>11. ScreenOK(e)
  BY <1>5, <1>9, <1>10 DEF ScreenOK, DrawnOK
<1>12. Shown(e) = Shown(d)
  BY <1>5, <1>9, <1>10 DEF Shown
<1>13. Glue(Shown(d), <<>>) = Shown(d)
  BY ShownIsSeq, JoinEmpty
<1>. QED  BY <1>5, <1>10, <1>11, <1>12, <1>13 DEF Draws, e

LEMMA PushShows ==
  ASSUME NEW d, ScreenOK(d), NEW op, OpOK(op), op.heard = FALSE, op.state = "loading"
  PROVE  LET e == Push(d, op)
         IN Draws(d, e, Shows(op)) /\ (Pending(d) => Pending(e))
<1>. DEFINE c == [d EXCEPT !.queue = Append(@, op)]
            e == Push(d, op)
<1>1. PICK n \in Nat : n = Len(d.queue) /\ IsSeq(d.queue)
  BY SeqFacts DEF ScreenOK, QueueOK
<1>2. Draws(d, c, Shows(op)) /\ Len(c.queue) = n + 1
  BY <1>1, QueueShows
<1>3. e = IF Len(c.queue) = 1 THEN Scan(c) ELSE c
  BY DEF Push
<1>. HIDE DEF c, e
<1>4. ScreenOK(c) /\ IsSeq(Shown(d)) /\ IsSeq(Shows(op))
  BY <1>2, ShownIsSeq, ShowsIsSeq DEF Draws
<1>5. CASE Len(c.queue) = 1
  <2>1. Draws(c, e, <<>>)
    BY <1>3, <1>4, <1>5, ScanShows
  <2>2. Glue(Shown(c), <<>>) = Shown(c)
    BY <1>4, ShownIsSeq, JoinEmpty
  <2>3. Draws(d, e, Shows(op))
    BY <1>2, <2>1, <2>2 DEF Draws
  <2>4. ~Pending(d)
    <3>0. n + 1 = 1
      BY <1>2, <1>5, Zenon
    <3>1. n = 0
      BY <3>0
    <3>. QED  BY <1>1, <3>1, NoElements DEF Pending
  <2>. QED  BY <2>3, <2>4 DEF e
<1>6. CASE Len(c.queue) # 1
  <2>1. e = c
    BY <1>3, <1>6
  <2>2. Len(c.queue) # 0
    BY <1>1, <1>2
  <2>3. Pending(c)
    BY <2>2, EmptyIsSeq DEF Pending
  <2>. QED  BY <1>2, <2>1, <2>3 DEF e
<1>. QED  BY <1>5, <1>6

\* The screen operations of the decoders.
Adds(d, e, p) == Draws(d, e, p) /\ (Pending(d) => Pending(e))

LEMMA OpsAreOK ==
  ASSUME NEW type, NEW piece, type # "flip"
  PROVE  /\ OpOK(Op(type, piece)) /\ Op(type, piece).heard = FALSE
         /\ Shows(Op(type, piece)) = <<piece>>
BY DEF OpOK, Op, Shows

LEMMA NothingDrawn ==
  ASSUME NEW d, ScreenOK(d)
  PROVE  Adds(d, d, <<>>)
BY ShownIsSeq, JoinEmpty DEF Adds, Draws

LEMMA OpDraws ==
  ASSUME NEW d, ScreenOK(d), NEW type, NEW piece, type # "flip"
  PROVE  Adds(d, Submit(d, Op(type, piece)), <<piece>>)
<1>1. /\ OpOK(Op(type, piece)) /\ Op(type, piece).heard = FALSE
      /\ Shows(Op(type, piece)) = <<piece>>
  BY OpsAreOK
<1>. QED  BY <1>1, SubmitShows DEF Adds

LEMMA FlipDraws ==
  ASSUME NEW d, ScreenOK(d)
  PROVE  Adds(d, Submit(d, Flip), <<>>)
<1>1. OpOK(Flip) /\ Flip.heard = FALSE /\ Shows(Flip) = <<>>
  BY DEF OpOK, Op, Shows, Flip
<1>. QED  BY <1>1, SubmitShows DEF Adds

LEMMA BlitDraws ==
  ASSUME NEW d, ScreenOK(d), NEW piece, NEW view
  PROVE  Adds(d, Blit(d, piece, view), <<piece>>)
<1>. DEFINE op == [Op("blit", piece) EXCEPT !.smeared = view /\ Pending(d)]
<1>1. OpOK(op) /\ op.heard = FALSE /\ Shows(op) = <<piece>>
  BY DEF OpOK, Op, Shows
<1>2. Blit(d, piece, view) = Submit(d, op)
  BY DEF Blit
<1>. HIDE DEF op
<1>. QED  BY <1>1, <1>2, SubmitShows DEF Adds

LEMMA PictureDraws ==
  ASSUME NEW d, ScreenOK(d), NEW piece, NEW good
  PROVE  /\ Adds(d, ImageRect(d, piece, FALSE, good), <<piece>>)
         /\ Adds(d, ImageRect(d, piece, TRUE, good), <<>>)
         /\ Adds(d, VideoFrame(d, piece, good), <<piece>>)
<1>1. ASSUME NEW type, type # "flip"
      PROVE  Adds(d, Push(d, Picture(type, piece, good)), <<piece>>)
  <2>1. LET op == Picture(type, piece, good)
        IN OpOK(op) /\ op.heard = FALSE /\ op.state = "loading" /\ Shows(op) = <<piece>>
    BY <1>1 DEF OpOK, Op, Shows, Picture
  <2>. QED  BY <2>1, PushShows DEF Adds
<1>2. ImageRect(d, piece, FALSE, good) = Push(d, Picture("img", piece, good))
  BY DEF ImageRect
<1>3. ImageRect(d, piece, TRUE, good) = d
  BY DEF ImageRect
<1>4. VideoFrame(d, piece, good) = Push(d, Picture("frame", piece, good))
  BY DEF VideoFrame
<1>. QED  BY <1>1, <1>2, <1>3, <1>4, NothingDrawn

LEMMA ResizeDraws ==
  ASSUME NEW d, ScreenOK(d), NEW size
  PROVE  Adds(d, Resize(d, size), <<>>)
<1>1. CASE d.size = size
  BY <1>1, NothingDrawn DEF Resize
<1>2. CASE d.size # size
  <2>. DEFINE c == [d EXCEPT !.size = size, !.visible = 0]
  <2>1. Resize(d, size) = Submit(c, Flip)
    BY <1>2 DEF Resize
  <2>2. /\ DOMAIN c = DOMAIN d /\ c.queue = d.queue /\ c.drawn = d.drawn
        /\ c.visible = 0 /\ c.flushing = d.flushing
    BY DEF ScreenOK, DrawnOK
  <2>. HIDE DEF c
  <2>3. Len(c.drawn) \in Nat
    BY <2>2, SeqFacts DEF ScreenOK, DrawnOK
  <2>4. ScreenOK(c) /\ Shown(c) = Shown(d) /\ (Pending(d) => Pending(c))
    BY <2>2, <2>3 DEF ScreenOK, DrawnOK, Shown, Pending
  <2>5. Adds(c, Submit(c, Flip), <<>>)
    BY <2>4, FlipDraws
  <2>. QED  BY <2>1, <2>2, <2>4, <2>5 DEF Adds, Draws
<1>. QED  BY <1>1, <1>2

LEMMA DecodedDraws ==
  ASSUME NEW d, ScreenOK(d), NEW i \in DOMAIN d.queue
  PROVE  Draws(d, Decoded(d, i), <<>>)
<1>. DEFINE q == d.queue
            op == [q[i] EXCEPT !.state = IF q[i].good THEN "ready" ELSE "broken"]
            r == [q EXCEPT ![i] = op]
            known == [d EXCEPT !.queue = r]
            e == Decoded(d, i)
<1>1. PICK n \in Nat : n = Len(q) /\ DOMAIN q = 1 .. n
  BY SeqFacts DEF ScreenOK, QueueOK
<1>2. e = IF q[i].good /\ q[i].heard THEN Scan(known) ELSE known
  <2>1. known = [d EXCEPT !.queue[i].state = IF q[i].good THEN "ready" ELSE "broken"]
    BY DEF ScreenOK, DrawnOK
  <2>. QED  BY <2>1 DEF Decoded
<1>3. /\ DOMAIN known = DOMAIN d /\ known.queue = r /\ known.drawn = d.drawn
      /\ known.visible = d.visible /\ known.flushing = d.flushing
  BY DEF ScreenOK, DrawnOK
<1>4. OpOK(q[i]) /\ (q[i].heard => i = 1)
  BY <1>1 DEF ScreenOK, QueueOK
<1>5. OpOK(op) /\ op.type = q[i].type /\ op.piece = q[i].piece /\ op.heard = q[i].heard
  BY <1>4 DEF OpOK
<1>6. IsReplaced(r, q, i, op)
  BY DEF IsReplaced
<1>. HIDE DEF known, r, op, e
<1>7. QueueOK(r) /\ Queued(r) = Queued(q)
  <2>1. QueueOK(q)
    BY DEF ScreenOK
  <2>. QED  BY <1>1, <1>4, <1>5, <1>6, <2>1, Changed
<1>8. ScreenOK(known) /\ Shown(known) = Shown(d)
  BY <1>3, <1>7 DEF ScreenOK, DrawnOK, Shown
<1>9. Draws(d, known, <<>>)
  BY <1>3, <1>8, ShownIsSeq, JoinEmpty DEF Draws
<1>10. Draws(known, Scan(known), <<>>)
  BY <1>8, ScanShows
<1>11. Draws(d, Scan(known), <<>>)
  BY <1>3, <1>8, <1>10 DEF Draws
<1>. QED  BY <1>2, <1>9, <1>11 DEF e

-----------------------------------------------------------------------------
(***************************************************************************)
(* Reading from the front.                                                 *)
(***************************************************************************)
\* g is s, of length n, and then t, of length m.
Joint(g, s, n, t, m) ==
  /\ IsSeq(g) /\ Len(g) = n + m
  /\ \A k \in 1 .. n : g[k] = s[k]
  /\ \A k \in 1 .. m : g[n + k] = t[k]

LEMMA GlueAt ==
  ASSUME NEW s, NEW t, IsSeq(s), IsSeq(t), NEW n \in Nat, NEW m \in Nat, Len(s) = n, Len(t) = m
  PROVE  Joint(Glue(s, t), s, n, t, m)
<1>. DEFINE g == Glue(s, t)
<1>1. PICK S : s \in Seq(S) /\ t \in Seq(S)
  BY BothSeqs
<1>2. g \in Seq(S)
  BY <1>1, ConcatProperties DEF Glue
<1>3. Len(g) = n + m
  BY <1>1, ConcatProperties DEF Glue
<1>4. /\ \A k \in 1 .. n : g[k] = s[k]
      /\ \A k \in 1 .. m : g[n + k] = t[k]
  BY <1>1 DEF Glue
<1>. HIDE DEF g
<1>. QED  BY <1>2, <1>3, <1>4 DEF IsSeq, Joint, g

LEMMA Cancel ==
  ASSUME NEW s, NEW t, NEW u, NEW v, IsSeq(s), IsSeq(t), IsSeq(u), IsSeq(v),
         Len(s) = Len(u), Glue(s, t) = Glue(u, v)
  PROVE  s = u /\ t = v
<1>1. PICK n \in Nat, m \in Nat, p \in Nat : n = Len(s) /\ m = Len(t) /\ p = Len(v)
  BY SeqFacts
<1>2. PICK g : g = Glue(s, t)
  OBVIOUS
<1>3. /\ Len(g) = n + m
      /\ \A k \in 1 .. n : g[k] = s[k]
      /\ \A k \in 1 .. m : g[n + k] = t[k]
  <2>1. Len(s) = n /\ Len(t) = m
    BY <1>1
  <2>2. Joint(g, s, n, t, m)
    BY <2>1, <1>2, GlueAt
  <2>. QED  BY <2>2 DEF Joint
<1>4. /\ Len(g) = n + p
      /\ \A k \in 1 .. n : g[k] = u[k]
      /\ \A k \in 1 .. p : g[n + k] = v[k]
  <2>1. Len(u) = n /\ Len(v) = p
    BY <1>1
  <2>2. Joint(g, u, n, v, p)
    BY <2>1, <1>2, GlueAt
  <2>. QED  BY <2>2 DEF Joint
<1>5. n + m = n + p
  BY <1>3, <1>4, Zenon
<1>6. m = p
  BY <1>5
<1>7. \A k \in 1 .. n : s[k] = u[k]
  BY <1>3, <1>4
<1>8. \A k \in 1 .. m : t[k] = v[k]
  BY <1>3, <1>4, <1>6
<1>9. s = u
  BY <1>1, <1>7, SameSeq
<1>10. t = v
  BY <1>1, <1>6, <1>8, SameSeq
<1>. QED  BY <1>9, <1>10

\* s, of length n, after i: what is there up to j, and then the rest.
CutAt(s, i, j, n) ==
  /\ SubSeq(s, i + 1, n) = Glue(SubSeq(s, i + 1, j), SubSeq(s, j + 1, n))
  /\ IsSeq(SubSeq(s, i + 1, n)) /\ Len(SubSeq(s, i + 1, n)) = n - i
  /\ IsSeq(SubSeq(s, i + 1, j)) /\ Len(SubSeq(s, i + 1, j)) = j - i
  /\ IsSeq(SubSeq(s, j + 1, n)) /\ Len(SubSeq(s, j + 1, n)) = n - j

LEMMA CutTwice ==
  ASSUME NEW s, IsSeq(s), NEW n \in Nat, Len(s) = n, NEW i \in 0 .. n, NEW j \in i .. n
  PROVE  CutAt(s, i, j, n)
<1>1. PICK a, b, c : a = SubSeq(s, i + 1, n) /\ b = SubSeq(s, i + 1, j) /\ c = SubSeq(s, j + 1, n)
  OBVIOUS
<1>2. n \in i .. Len(s) /\ n \in j .. Len(s) /\ j \in i .. Len(s) /\ i \in 0 .. Len(s) /\ j \in 0 .. Len(s)
  OBVIOUS
<1>3. IsSeq(a) /\ Len(a) = n - i /\ \A k \in 1 .. n - i : a[k] = s[i + k]
  BY <1>1, <1>2, Cut
<1>4. IsSeq(b) /\ Len(b) = j - i /\ \A k \in 1 .. j - i : b[k] = s[i + k]
  BY <1>1, <1>2, Cut
<1>5. IsSeq(c) /\ Len(c) = n - j /\ \A k \in 1 .. n - j : c[k] = s[j + k]
  BY <1>1, <1>2, Cut
<1>6. PICK g : g = Glue(b, c)
  OBVIOUS
<1>7. PICK x \in Nat, y \in Nat : x = j - i /\ y = n - j
  OBVIOUS
<1>8. /\ IsSeq(g) /\ Len(g) = x + y
      /\ \A k \in 1 .. x : g[k] = b[k]
      /\ \A k \in 1 .. y : g[x + k] = c[k]
  <2>1. Len(b) = x /\ Len(c) = y
    BY <1>4, <1>5, <1>7
  <2>2. Joint(g, b, x, c, y)
    BY <2>1, <1>4, <1>5, <1>6, GlueAt
  <2>. QED  BY <2>2 DEF Joint
<1>9. x + y = n - i
  BY <1>7
<1>10. \A k \in 1 .. n - i : a[k] = g[k]
  <2>1. TAKE k \in 1 .. n - i
  <2>2. CASE k <= x
    BY <1>3, <1>4, <1>7, <1>8, <2>2
  <2>3. CASE k > x
    <3>1. PICK l \in Int : l = k - x
      OBVIOUS
    <3>2. l \in 1 .. y /\ k = x + l /\ i + k = j + l
      BY <1>7, <2>3, <3>1
    <3>3. g[k] = c[l]
      BY <1>8, <3>2
    <3>4. c[l] = s[j + l]
      BY <1>5, <1>7, <3>2
    <3>5. a[k] = s[i + k]
      BY <1>3
    <3>. QED  BY <3>2, <3>3, <3>4, <3>5
  <2>. QED  BY <2>2, <2>3
<1>11. a = g
  BY <1>3, <1>8, <1>9, <1>10, SameSeq
<1>. QED  BY <1>1, <1>3, <1>4, <1>5, <1>6, <1>11 DEF CutAt

\* n cells of f are read from queue q at i; what follows is on wire w.
LEMMA ReadOff ==
  ASSUME NEW q, IsSeq(q), NEW l \in Nat, Len(q) = l, NEW i \in 0 .. l, NEW w, IsSeq(w),
         NEW f, IsSeq(f), NEW n \in Nat, Len(f) = n, NEW b, IsSeq(b),
         Glue(SubSeq(q, i + 1, l), w) = Glue(f, b), l - i >= n
  PROVE  /\ i + n \in 0 .. l
         /\ Glue(SubSeq(q, i + n + 1, l), w) = b
<1>1. PICK j \in Nat : j = i + n
  OBVIOUS
<1>2. j \in i .. l
  BY <1>1
<1>3. PICK u, v, x : u = SubSeq(q, i + 1, j) /\ v = SubSeq(q, j + 1, l) /\ x = SubSeq(q, i + 1, l)
  OBVIOUS
<1>4. x = Glue(u, v) /\ IsSeq(u) /\ IsSeq(v) /\ Len(u) = j - i
  <2>1. CutAt(q, i, j, l)
    BY <1>2, CutTwice
  <2>. QED  BY <2>1, <1>3 DEF CutAt
<1>5. Glue(x, w) = Glue(u, Glue(v, w)) /\ IsSeq(Glue(v, w))
  BY <1>4, JoinAssoc, Joined
<1>6. Len(u) = Len(f)
  BY <1>1, <1>4
<1>7. Glue(u, Glue(v, w)) = Glue(f, b)
  BY <1>3, <1>5
<1>8. Glue(v, w) = b
  BY <1>4, <1>5, <1>6, <1>7, Cancel
<1>. QED  BY <1>1, <1>2, <1>3, <1>8

LEMMA FirstCell ==
  ASSUME NEW q, IsSeq(q), NEW l \in Nat, Len(q) = l, NEW i \in 0 .. l, i < l, NEW w, IsSeq(w),
         NEW f, IsSeq(f), NEW n \in Nat, Len(f) = n, n > 0, NEW b, IsSeq(b),
         Glue(SubSeq(q, i + 1, l), w) = Glue(f, b)
  PROVE  q[i + 1] = f[1]
<1>1. PICK u : u = SubSeq(q, i + 1, l)
  OBVIOUS
<1>2. IsSeq(u) /\ Len(u) = l - i /\ u[1] = q[i + 1]
  <2>1. l \in i .. Len(q) /\ i \in 0 .. Len(q) /\ 1 \in 1 .. l - i
    OBVIOUS
  <2>2. \A k \in 1 .. l - i : u[k] = q[i + k]
    BY <1>1, <2>1, Cut
  <2>3. IsSeq(u) /\ Len(u) = l - i
    BY <1>1, <2>1, Cut
  <2>. QED  BY <2>1, <2>2, <2>3
<1>3. PICK m \in Nat, p \in Nat, k \in Nat : m = Len(w) /\ p = Len(b) /\ k = l - i
  BY SeqFacts
<1>4. 1 \in 1 .. k /\ 1 \in 1 .. n
  BY <1>3
<1>5. Glue(u, w)[1] = u[1]
  <2>1. Len(u) = k /\ Len(w) = m
    BY <1>2, <1>3
  <2>2. Joint(Glue(u, w), u, k, w, m)
    BY <2>1, <1>2, GlueAt
  <2>. QED  BY <2>2, <1>4 DEF Joint
<1>6. Glue(f, b)[1] = f[1]
  <2>1. Len(b) = p
    BY <1>3
  <2>2. Joint(Glue(f, b), f, n, b, p)
    BY <2>1, GlueAt
  <2>. QED  BY <2>2, <1>4 DEF Joint
<1>. QED  BY <1>1, <1>2, <1>5, <1>6

\* k cells of the wire arrive.
LEMMA Moved ==
  ASSUME NEW u, IsSeq(u), NEW w, IsSeq(w), NEW n \in Nat, Len(w) = n, NEW k \in 1 .. n
  PROVE  LET q == u \o SubSeq(w, 1, k)
             v == SubSeq(w, k + 1, n)
         IN /\ IsSeq(q) /\ Len(q) > 0 /\ Len(q) \in Nat /\ IsSeq(v)
            /\ Glue(SubSeq(q, 0 + 1, Len(q)), v) = Glue(u, w)
<1>1. PICK x, v, q : x = SubSeq(w, 1, k) /\ v = SubSeq(w, k + 1, n) /\ q = Glue(u, x)
  OBVIOUS
<1>2. SubSeq(w, 1, n) = Glue(x, v) /\ IsSeq(x) /\ IsSeq(v) /\ Len(x) = k
  <2>1. 0 \in 0 .. n /\ k \in 0 .. n /\ 0 + 1 = 1 /\ k - 0 = k
    OBVIOUS
  <2>2. /\ SubSeq(w, 0 + 1, n) = Glue(SubSeq(w, 0 + 1, k), SubSeq(w, k + 1, n))
        /\ IsSeq(SubSeq(w, 0 + 1, k)) /\ Len(SubSeq(w, 0 + 1, k)) = k - 0
        /\ IsSeq(SubSeq(w, k + 1, n))
    <3>1. CutAt(w, 0, k, n)
      BY <2>1, CutTwice
    <3>. QED  BY <3>1 DEF CutAt
  <2>. QED  BY <1>1, <2>1, <2>2
<1>3. ASSUME NEW s, IsSeq(s), NEW m \in Nat, Len(s) = m PROVE SubSeq(s, 1, m) = s
  <2>1. PICK t : t = SubSeq(s, 0 + 1, m)
    OBVIOUS
  <2>2. 0 \in 0 .. Len(s) /\ m \in 0 .. Len(s)
    BY <1>3
  <2>3. IsSeq(t) /\ Len(t) = m - 0 /\ \A i \in 1 .. m - 0 : t[i] = s[0 + i]
    BY <1>3, <2>1, <2>2, Cut
  <2>4. \A i \in 1 .. m : t[i] = s[i]
    BY <2>3
  <2>5. t = s
    BY <1>3, <2>3, <2>4, SameSeq
  <2>. QED  BY <2>1, <2>5
<1>4. w = Glue(x, v)
  BY <1>2, <1>3
<1>5. PICK m \in Nat : m = Len(u)
  BY SeqFacts
<1>6. IsSeq(q) /\ Len(q) = m + k
  <2>1. Len(u) = m /\ Len(x) = k /\ k \in Nat
    BY <1>2, <1>5
  <2>2. Joint(q, u, m, x, k)
    <3>1. IsSeq(x) /\ q = Glue(u, x)
      BY <1>1, <1>2
    <3>. QED  BY <2>1, <3>1, GlueAt
  <2>. QED  BY <2>2 DEF Joint
<1>7. SubSeq(q, 1, m + k) = q
  BY <1>3, <1>6
<1>8. Glue(q, v) = Glue(u, w)
  BY <1>1, <1>2, <1>4, JoinAssoc
<1>9. q = u \o SubSeq(w, 1, k)
  BY <1>1 DEF Glue
<1>10. m + k > 0 /\ m + k \in Nat /\ 0 + 1 = 1
  OBVIOUS
<1>. QED  BY <1>1, <1>2, <1>6, <1>7, <1>8, <1>9, <1>10

-----------------------------------------------------------------------------
(***************************************************************************)
(* Fields, and how long they are.                                          *)
(***************************************************************************)
LEMMA FieldFacts ==
  ASSUME NEW cell, NEW n \in Nat
  PROVE  /\ IsSeq(Field(cell, n)) /\ Len(Field(cell, n)) = n
         /\ n > 0 => Field(cell, n)[1] = cell
         /\ \A k \in 2 .. n : Field(cell, n)[k] = Rest
<1>. DEFINE f == Field(cell, n)
<1>1. f = [i \in 1 .. n |-> f[i]] /\ \A i \in 1 .. n : f[i] = IF i = 1 THEN cell ELSE Rest
  BY DEF Field
<1>. HIDE DEF f
<1>2. IsSeq(f) /\ Len(f) = n
  BY <1>1, FunIsSeq
<1>. QED  BY <1>1, <1>2 DEF f

LEMMA PlainFacts ==
  ASSUME NEW kind, NEW n \in Nat
  PROVE  /\ IsSeq(Plain(kind, n)) /\ Len(Plain(kind, n)) = n
         /\ n > 0 => Plain(kind, n)[1].kind = kind
         /\ n = 0 => Plain(kind, n) = <<>>
         /\ \A k \in 2 .. n : Plain(kind, n)[k].kind = "rest"
<1>1. /\ IsSeq(Plain(kind, n)) /\ Len(Plain(kind, n)) = n
      /\ n > 0 => Plain(kind, n)[1] = [kind |-> kind]
      /\ \A k \in 2 .. n : Plain(kind, n)[k] = Rest
  BY FieldFacts, Zenon DEF Plain
<1>2. n = 0 => Plain(kind, n) = <<>>
  BY <1>1, NoElements
<1>. QED  BY <1>1, <1>2 DEF Rest

LEMMA PlainSize ==
  ASSUME NEW kind, NEW n \in Nat
  PROVE  IsSeq(Plain(kind, n)) /\ Len(Plain(kind, n)) = n
BY PlainFacts

LEMMA RepeatIsSeqs ==
  ASSUME NEW f, IsSeq(f), NEW n \in Nat, NEW s, s = [i \in 1 .. n |-> f]
  PROVE  Seqs(s) /\ Len(s) = n /\ Repeat(f, n) = FlattenSeq(s)
<1>1. s = [i \in 1 .. n |-> s[i]] /\ \A i \in 1 .. n : s[i] = f
  OBVIOUS
<1>2. IsSeq(s) /\ Len(s) = n
  BY <1>1, FunIsSeq
<1>. QED  BY <1>1, <1>2 DEF Seqs, Repeat

LEMMA RepeatFacts ==
  ASSUME NEW f, IsSeq(f), NEW n \in Nat
  PROVE  /\ IsSeq(Repeat(f, n))
         /\ Repeat(f, 0) = <<>>
         /\ Repeat(f, n + 1) = Glue(f, Repeat(f, n))
<1>1. IsSeq(Repeat(f, n))
  <2>1. PICK s : s = [i \in 1 .. n |-> f]
    OBVIOUS
  <2>. QED  BY <2>1, RepeatIsSeqs, FlattenIsSeq
<1>2. Repeat(f, 0) = <<>>
  <2>1. PICK s : s = [i \in 1 .. 0 |-> f]
    OBVIOUS
  <2>2. Seqs(s) /\ Len(s) = 0 /\ Repeat(f, 0) = FlattenSeq(s)
    BY ZenonT(40), <2>1, RepeatIsSeqs
  <2>3. s = <<>>
    BY <2>2, NoElements DEF Seqs
  <2>. QED  BY <2>2, <2>3, FlattenEmpty
<1>3. Repeat(f, n + 1) = Glue(f, Repeat(f, n))
  <2>1. PICK s : s = [i \in 1 .. n + 1 |-> f]
    OBVIOUS
  <2>2. PICK m \in Nat : m = n + 1
    OBVIOUS
  <2>3. Seqs(s) /\ Len(s) = m /\ Repeat(f, m) = FlattenSeq(s)
    BY <2>1, <2>2, RepeatIsSeqs
  <2>4. m # 0 /\ m - 1 = n
    BY <2>2
  <2>5. FlattenSeq(s) = Glue(s[1], From(s, 1))
    <3>1. Len(s) # 0
      BY <2>3, <2>4
    <3>. QED  BY <2>3, <3>1, FlattenFirst, Zenon
  <2>6. s[1] = f
    BY <2>1
  <2>7. From(s, 1) = Repeat(f, n)
    <3>1. From(s, 1) = FlattenSeq([k \in 1 .. m - 1 |-> s[1 + k]])
      BY <2>3 DEF From
    <3>2. [k \in 1 .. m - 1 |-> s[1 + k]] = [k \in 1 .. n |-> f]
      BY <2>1, <2>4
    <3>. QED  BY <3>1, <3>2 DEF Repeat
  <2>. QED  BY <2>2, <2>3, <2>5, <2>6, <2>7
<1>. QED  BY <1>1, <1>2, <1>3

LEMMA RepeatNothing ==
  ASSUME NEW n \in Nat
  PROVE  Repeat(<<>>, n) = <<>>
<1>. DEFINE T == {k \in Nat : Repeat(<<>>, k) = <<>>}
<1>1. 0 \in T
  BY EmptyIsSeq, RepeatFacts
<1>2. ASSUME NEW k \in Nat, k \in T PROVE k + 1 \in T
  <2>1. Repeat(<<>>, k + 1) = Glue(<<>>, Repeat(<<>>, k))
    BY EmptyIsSeq, RepeatFacts
  <2>2. Glue(<<>>, <<>>) = <<>>
    BY EmptyIsSeq, JoinEmpty
  <2>. QED  BY <1>2, <2>1, <2>2
<1>. HIDE DEF T
<1>3. Nat \subseteq T
  BY <1>1, <1>2, Induct
<1>. QED  BY <1>3 DEF T

LEMMA RepeatDown ==
  ASSUME NEW f, IsSeq(f), NEW n \in Nat, n # 0
  PROVE  Repeat(f, n) = Glue(f, Repeat(f, n - 1)) /\ IsSeq(Repeat(f, n - 1))
<1>1. PICK m \in Nat : m = n - 1
  OBVIOUS
<1>2. n = m + 1
  BY <1>1
<1>. QED  BY <1>1, <1>2, RepeatFacts

LEMMA Product ==
  ASSUME NEW a \in Nat, NEW b \in Nat
  PROVE  /\ a * b \in Nat
         /\ a * b = 0 <=> a = 0 \/ b = 0
OBVIOUS

LEMMA Quotient ==
  ASSUME NEW a \in Nat, NEW b \in Nat, NEW c \in Nat, a < b * c
  PROVE  a \div b \in 0 .. c - 1 /\ a % b \in 0 .. b - 1
<1>1. b > 0
  BY Product
<1>2. PICK q \in Int, r \in Int : q = a \div b /\ r = a % b
  BY <1>1
<1>3. a = b * q + r /\ r \in 0 .. b - 1
  BY <1>1, <1>2
<1>4. q >= 0
  BY <1>1, <1>3
<1>5. q < c
  <2>1. SUFFICES ASSUME q >= c PROVE FALSE
    BY <1>2, <1>3
  <2>2. b * q >= b * c
    BY <1>1, <2>1
  <2>. QED  BY <1>3, <2>2
<1>. QED  BY <1>2, <1>3, <1>4, <1>5

LEMMA CeilDivs ==
  ASSUME NEW a \in Nat
  PROVE  /\ CeilDiv(a, 16) \in Nat /\ CeilDiv(a, 8) \in Nat
         /\ \A k \in Nat : k < CeilDiv(a, 16) => 16 * k < a
BY DEF CeilDiv

LEMMA TilesArePositive ==
  ASSUME NEW r, r.w \in Nat, r.h \in Nat, NEW k \in 1 .. TileTotal(r)
  PROVE  TileArea(r, k) \in Nat
<1>1. PICK a \in Nat, b \in Nat : a = CeilDiv(r.w, 16) /\ b = CeilDiv(r.h, 16)
  BY CeilDivs
<1>2. PICK p \in Nat : p = a * b
  BY Product
<1>3. TileTotal(r) = p
  BY <1>1, <1>2 DEF TileTotal, TilesX
<1>4. PICK l \in Nat : l = k - 1
  BY <1>3
<1>5. l < a * b
  BY <1>2, <1>3, <1>4
<1>6. PICK x, y : x = l % a /\ y = l \div a
  OBVIOUS
<1>7. x \in 0 .. a - 1 /\ y \in 0 .. b - 1
  BY <1>5, <1>6, Quotient
<1>8. 16 * x < r.w /\ 16 * y < r.h
  <2>1. x \in Nat /\ x < a /\ y \in Nat /\ y < b
    BY <1>7
  <2>. QED  BY <1>1, <2>1, CeilDivs
<1>. DEFINE Side(room) == IF room < 16 THEN room ELSE 16
<1>9. TileArea(r, k) = Side(r.w - x * 16) * Side(r.h - y * 16)
  BY <1>1, <1>4, <1>6 DEF TileArea, TilesX
<1>10. PICK u \in Nat, v \in Nat : u = Side(r.w - x * 16) /\ v = Side(r.h - y * 16)
  <2>1. x \in Nat /\ y \in Nat
    BY <1>7
  <2>2. Side(r.w - x * 16) \in Nat /\ Side(r.h - y * 16) \in Nat
    BY <1>8, <2>1
  <2>. QED  BY <2>2
<1>. QED  BY <1>9, <1>10, Product

LEMMA TileBytesPositive ==
  ASSUME NEW t, t.subrects \in Nat, NEW area \in Nat
  PROVE  TileBytes(t, area) \in Nat /\ TileBytes(t, area) > 0
BY DEF TileBytes

\* Every tile and every segment is a field.
TileFields(r) ==
  [k \in 1 .. TileTotal(r) |-> Plain("tile", TileBytes(r.tiles[k], TileArea(r, k)))]

SegmentFields(r) ==
  [k \in 1 .. Len(r.segments) |->
     Field([kind |-> "segment", s |-> r.segments[k]], SegmentBytes(r.segments[k]))]

LEMMA TileFieldsAreSeqs ==
  ASSUME NEW r, r.w \in Nat, r.h \in Nat, HextileOK(r)
  PROVE  /\ Seqs(TileFields(r)) /\ TileTotal(r) \in Nat /\ Len(TileFields(r)) = TileTotal(r)
         /\ \A k \in 1 .. TileTotal(r) :
              LET n == TileBytes(r.tiles[k], TileArea(r, k))
              IN n \in Nat /\ n > 0 /\ TileFields(r)[k] = Plain("tile", n)
<1>1. PICK n \in Nat : n = TileTotal(r)
  BY CeilDivs, Product DEF TileTotal, TilesX
<1>2. PICK s : s = TileFields(r)
  OBVIOUS
<1>3. /\ s = [k \in 1 .. n |-> s[k]]
      /\ \A k \in 1 .. n : s[k] = Plain("tile", TileBytes(r.tiles[k], TileArea(r, k)))
  BY <1>1, <1>2 DEF TileFields
<1>4. \A k \in 1 .. n : LET b == TileBytes(r.tiles[k], TileArea(r, k)) IN b \in Nat /\ b > 0
  <2>1. TAKE k \in 1 .. n
  <2>2. TileArea(r, k) \in Nat
    BY <1>1, TilesArePositive
  <2>3. r.tiles[k].subrects \in Nat
    BY <1>1 DEF HextileOK
  <2>. QED  BY <2>2, <2>3, TileBytesPositive
<1>5. IsSeq(s) /\ Len(s) = n
  BY <1>3, FunIsSeq
<1>6. \A k \in 1 .. n : IsSeq(s[k])
  BY <1>3, <1>4, PlainFacts
<1>. QED  BY <1>1, <1>2, <1>3, <1>4, <1>5, <1>6 DEF Seqs

LEMMA SegmentSizes ==
  ASSUME NEW r, JpegOK(r), NEW k \in 1 .. Len(r.segments)
  PROVE  LET s == r.segments[k] IN SegmentBytes(s) \in Nat /\ SegmentBytes(s) > 0
BY DEF JpegOK, SegmentBytes

LEMMA SegmentFieldsAreSeqs ==
  ASSUME NEW r, JpegOK(r)
  PROVE  /\ Seqs(SegmentFields(r)) /\ Len(SegmentFields(r)) = Len(r.segments)
         /\ \A k \in 1 .. Len(r.segments) :
              LET n == SegmentBytes(r.segments[k])
              IN n \in Nat /\ n > 0 /\ IsSeq(SegmentFields(r)[k]) /\ Len(SegmentFields(r)[k]) = n
                 /\ SegmentFields(r)[k][1] = [kind |-> "segment", s |-> r.segments[k]]
<1>1. PICK n \in Nat : n = Len(r.segments)
  BY DEF JpegOK
<1>2. PICK f : f = SegmentFields(r)
  OBVIOUS
<1>3. /\ f = [k \in 1 .. n |-> f[k]]
      /\ \A k \in 1 .. n : f[k] = Field([kind |-> "segment", s |-> r.segments[k]],
                                        SegmentBytes(r.segments[k]))
  BY <1>1, <1>2 DEF SegmentFields
<1>4. \A k \in 1 .. n : SegmentBytes(r.segments[k]) \in Nat /\ SegmentBytes(r.segments[k]) > 0
  BY <1>1, SegmentSizes
<1>5. \A k \in 1 .. n : /\ IsSeq(f[k]) /\ Len(f[k]) = SegmentBytes(r.segments[k])
                        /\ f[k][1] = [kind |-> "segment", s |-> r.segments[k]]
  <2>1. TAKE k \in 1 .. n
  <2>2. PICK cell, b : cell = [kind |-> "segment", s |-> r.segments[k]] /\ b = SegmentBytes(r.segments[k])
    OBVIOUS
  <2>3. b \in Nat /\ b > 0 /\ f[k] = Field(cell, b)
    BY <1>3, <1>4, <2>2
  <2>. QED  BY <2>2, <2>3, FieldFacts
<1>6. IsSeq(f) /\ Len(f) = n
  BY <1>3, FunIsSeq
<1>. QED  BY <1>1, <1>2, <1>4, <1>5, <1>6 DEF Seqs

-----------------------------------------------------------------------------
(***************************************************************************)
(* What a decoder still has to read, and the pieces it still has to draw.  *)
(***************************************************************************)
\* of with i + 1, i + 2, up to i + c after it.
Run(of, i, c) == [p \in 1 .. c |-> Append(of, i + p)]

LEMMA RunFacts ==
  ASSUME NEW of, NEW i \in Nat, NEW c \in Nat
  PROVE  /\ IsSeq(Run(of, i, c)) /\ Len(Run(of, i, c)) = c
         /\ \A p \in 1 .. c : Run(of, i, c)[p] = Append(of, i + p)
         /\ c = 0 => Run(of, i, c) = <<>>
<1>. DEFINE f == Run(of, i, c)
<1>1. f = [p \in 1 .. c |-> f[p]] /\ \A p \in 1 .. c : f[p] = Append(of, i + p)
  BY DEF Run
<1>. HIDE DEF f
<1>2. IsSeq(f) /\ Len(f) = c
  BY <1>1, FunIsSeq
<1>3. c = 0 => f = <<>>
  BY <1>2, NoElements
<1>. QED  BY <1>1, <1>2, <1>3 DEF f

LEMMA One ==
  ASSUME NEW e
  PROVE  IsSeq(<<e>>) /\ Len(<<e>>) = 1 /\ <<e>>[1] = e
<1>1. <<e>> \in Seq({e})
  OBVIOUS
<1>. QED  BY <1>1 DEF IsSeq

LEMMA RunFirst ==
  ASSUME NEW of, NEW i \in Nat, NEW c \in Nat, c # 0
  PROVE  Run(of, i, c) = Glue(<<Append(of, i + 1)>>, Run(of, i + 1, c - 1))
<1>1. PICK e : e = Append(of, i + 1)
  OBVIOUS
<1>2. PICK j \in Nat, m \in Nat : j = i + 1 /\ m = c - 1
  OBVIOUS
<1>3. PICK s, t, u : s = Run(of, i, c) /\ t = Run(of, j, m) /\ u = <<e>>
  OBVIOUS
<1>4. IsSeq(s) /\ Len(s) = c /\ \A p \in 1 .. c : s[p] = Append(of, i + p)
  BY <1>3, RunFacts
<1>5. IsSeq(t) /\ Len(t) = m /\ \A p \in 1 .. m : t[p] = Append(of, j + p)
  BY <1>3, RunFacts
<1>6. IsSeq(u) /\ Len(u) = 1 /\ u[1] = e
  BY <1>3, One
<1>7. PICK g : g = Glue(u, t)
  OBVIOUS
<1>8. Joint(g, u, 1, t, m)
  BY <1>5, <1>6, <1>7, GlueAt
<1>9. /\ IsSeq(g) /\ Len(g) = 1 + m
      /\ \A k \in 1 .. 1 : g[k] = u[k]
      /\ \A k \in 1 .. m : g[1 + k] = t[k]
  BY <1>8 DEF Joint
<1>10. \A k \in 1 .. c : s[k] = g[k]
  <2>1. TAKE k \in 1 .. c
  <2>2. CASE k = 1
    <3>1. g[1] = e
      BY <1>6, <1>9
    <3>2. s[1] = Append(of, i + 1)
      BY <1>4
    <3>. QED  BY <1>1, <2>2, <3>1, <3>2
  <2>3. CASE k # 1
    <3>1. PICK l \in Int : l = k - 1
      OBVIOUS
    <3>2. l \in 1 .. m /\ k = 1 + l /\ i + k = j + l
      BY <1>2, <2>3, <3>1
    <3>3. g[k] = Append(of, j + l)
      BY <1>5, <1>9, <3>2
    <3>. QED  BY <1>4, <3>2, <3>3
  <2>. QED  BY <2>2, <2>3
<1>11. 1 + m = c
  BY <1>2
<1>12. s = g
  BY <1>4, <1>9, <1>10, <1>11, SameSeq
<1>. QED  BY <1>1, <1>2, <1>3, <1>7, <1>12

LEMMA RunLast ==
  ASSUME NEW of, NEW i \in Nat, NEW c \in Nat
  PROVE  Run(of, i, c + 1) = Glue(Run(of, i, c), <<Append(of, i + c + 1)>>)
<1>1. PICK e : e = Append(of, i + c + 1)
  OBVIOUS
<1>2. PICK m \in Nat : m = c + 1
  OBVIOUS
<1>3. PICK s, t, u : s = Run(of, i, m) /\ t = Run(of, i, c) /\ u = <<e>>
  OBVIOUS
<1>4. IsSeq(s) /\ Len(s) = m /\ \A p \in 1 .. m : s[p] = Append(of, i + p)
  BY <1>3, RunFacts
<1>5. IsSeq(t) /\ Len(t) = c /\ \A p \in 1 .. c : t[p] = Append(of, i + p)
  BY <1>3, RunFacts
<1>6. IsSeq(u) /\ Len(u) = 1 /\ u[1] = e
  BY <1>3, One
<1>7. PICK g : g = Glue(t, u)
  OBVIOUS
<1>8. Joint(g, t, c, u, 1)
  BY <1>5, <1>6, <1>7, GlueAt
<1>9. /\ IsSeq(g) /\ Len(g) = c + 1
      /\ \A k \in 1 .. c : g[k] = t[k]
      /\ \A k \in 1 .. 1 : g[c + k] = u[k]
  BY <1>8 DEF Joint
<1>10. \A k \in 1 .. m : s[k] = g[k]
  <2>1. TAKE k \in 1 .. m
  <2>2. CASE k = m
    <3>1. g[c + 1] = e
      BY <1>6, <1>9
    <3>2. s[m] = Append(of, i + m)
      BY <1>2, <1>4
    <3>3. i + m = i + c + 1
      BY <1>2
    <3>. QED  BY <1>1, <1>2, <2>2, <3>1, <3>2, <3>3
  <2>3. CASE k # m
    <3>1. k \in 1 .. c
      BY <1>2, <2>3
    <3>. QED  BY <1>4, <1>5, <1>9, <3>1
  <2>. QED  BY <2>2, <2>3
<1>12. s = g
  BY <1>2, <1>4, <1>9, <1>10, SameSeq
<1>. QED  BY <1>1, <1>2, <1>3, <1>7, <1>12

\* What the decoder of rectangle r makes of its state d.
Lines(r, d) == IF d.lines = 0 THEN r.h ELSE d.lines
Subrects(r, d) == IF d.subrects = 0 THEN 1 + r.subrects ELSE d.subrects
Tiles(r, d) == IF d.tiles = 0 THEN TileTotal(r) ELSE d.tiles
TightSize(r) == PixelBytes(r, r.filter, r.colours)

PaletteLeft(r) == IF r.filter = "palette" THEN Plain("palette", 1 + 3 * r.colours) ELSE <<>>
PixelsLeft(r, d) == IF d.len # 0 THEN Plain("data", r.len) ELSE TightData(r, TightSize(r))
FilterLeft(r, d) ==
  IF d.filter = None
  THEN Glue(IF r.explicit THEN Plain("filter", 1) ELSE <<>>, Glue(PaletteLeft(r), PixelsLeft(r, d)))
  ELSE IF r.filter = "palette" /\ d.colours = 0 THEN Glue(PaletteLeft(r), PixelsLeft(r, d))
  ELSE PixelsLeft(r, d)

TightLeft(r, d) ==
  IF d.control = None THEN TightBody(r)
  ELSE IF d.control = "fill" THEN Plain("colour", 3)
  ELSE IF d.control \in {"jpeg", "png"} THEN IF d.len # 0 THEN Plain("data", r.len) ELSE Compact(r)
  ELSE IF d.control = "basic" THEN FilterLeft(r, d)
  ELSE <<>>

BodyLeft(r, d) ==
  IF r.enc = "raw" THEN Repeat(Plain("line", 4 * r.w), Lines(r, d))
  ELSE IF r.enc = "rre"
  THEN IF d.subrects = 0 THEN Body(r) ELSE Repeat(Plain("subrect", 12), d.subrects)
  ELSE IF r.enc = "hextile" THEN From(TileFields(r), TileTotal(r) - Tiles(r, d))
  ELSE IF r.enc \in {"zlib", "zrle"}
  THEN IF d.length = 0 THEN Body(r) ELSE Plain("data", r.len)
  ELSE IF r.enc \in {"tight", "tightpng"} THEN TightLeft(r, d)
  ELSE IF r.enc = "jpeg" THEN From(SegmentFields(r), Len(d.segments))
  ELSE Body(r)

\* How many pieces are still to be drawn.
Undrawn(r, d) ==
  IF r.enc = "raw" THEN IF r.w = 0 THEN 0 ELSE Lines(r, d)
  ELSE IF r.enc = "rre" THEN Subrects(r, d)
  ELSE IF r.enc = "hextile" THEN Tiles(r, d)
  ELSE PieceCount(r)

PiecesLeft(of, r, d) == Run(of, PieceCount(r) - Undrawn(r, d), Undrawn(r, d))

DecFields == {"lines", "subrects", "tiles", "lastRaw", "length", "control", "filter", "colours",
              "len", "segments", "tables", "contexts"}

\* The state between two rectangles.
Fresh(d) ==
  /\ DOMAIN d = DecFields
  /\ d.lines = 0 /\ d.subrects = 0 /\ d.tiles = 0 /\ d.length = 0
  /\ d.control = None /\ d.filter = None /\ d.colours = 0 /\ d.len = 0 /\ d.segments = <<>>

\* A state of the decoder of rectangle r.
TightStateOK(r, d) ==
  /\ d.control # None => r.enc \in {"tight", "tightpng"} /\ d.control = r.control
  /\ d.filter # None => d.control = "basic" /\ d.filter = r.filter
  /\ d.colours # 0 => d.filter = "palette" /\ d.colours = r.colours
  /\ d.len # 0 =>
       /\ d.control \in {"jpeg", "png", "basic"} /\ d.len = r.len
       /\ d.control = "basic" =>
            /\ TightSize(r) >= Small
            /\ d.filter # None /\ (d.filter = "palette" => d.colours # 0)

HextileStateOK(r, d) ==
  d.tiles # 0 =>
    /\ r.enc = "hextile" /\ d.tiles \in 1 .. TileTotal(r)
    /\ d.tiles # TileTotal(r) => d.lastRaw = r.tiles[TileTotal(r) - d.tiles].raw

DecOK(r, d) ==
  /\ DOMAIN d = DecFields
  /\ d.lines # 0 => r.enc = "raw" /\ d.lines \in 1 .. r.h /\ r.w # 0
  /\ d.subrects # 0 => r.enc = "rre" /\ d.subrects \in 1 .. r.subrects
  /\ HextileStateOK(r, d)
  /\ d.length # 0 => r.enc \in {"zlib", "zrle"} /\ d.length = r.len
  /\ TightStateOK(r, d)
  /\ IsSeq(d.segments)
  /\ d.segments # <<>> => r.enc = "jpeg" /\ Len(d.segments) < Len(r.segments)

\* After n bytes and the pieces p decoder is the state of rectangle r.
Progress(of, r, d, n, p, decoder) ==
  /\ \E f : IsSeq(f) /\ Len(f) = n /\ BodyLeft(r, d) = Glue(f, BodyLeft(r, decoder))
  /\ IsSeq(BodyLeft(r, decoder))
  /\ IsSeq(p) /\ PiecesLeft(of, r, d) = Glue(p, PiecesLeft(of, r, decoder))
  /\ DecOK(r, decoder)

\* With n bytes and the pieces p rectangle r is complete.
Finish(of, r, d, n, p) ==
  /\ IsSeq(BodyLeft(r, d)) /\ Len(BodyLeft(r, d)) = n
  /\ PiecesLeft(of, r, d) = p

\* The next byte is the first of a field of this kind.
Starts(s, kind) == IsSeq(s) /\ Len(s) > 0 /\ s[1].kind = kind

LEMMA PieceCounts ==
  ASSUME NEW r, RectOK(r)
  PROVE  PieceCount(r) \in Nat
<1>1. CASE r.enc \in {"raw", "rre", "zrle", "h264"}
  BY <1>1 DEF PieceCount, RectOK
<1>2. CASE r.enc = "hextile"
  <2>1. PieceCount(r) = TileTotal(r)
    BY <1>2 DEF PieceCount
  <2>2. r.w \in Nat /\ r.h \in Nat /\ HextileOK(r)
    BY <1>2 DEF RectOK
  <2>. QED  BY <2>1, <2>2, TileFieldsAreSeqs
<1>3. CASE r.enc \notin {"raw", "rre", "zrle", "h264", "hextile"}
  BY <1>3 DEF PieceCount
<1>. QED  BY <1>1, <1>2, <1>3

LEMMA UndrawnBounds ==
  ASSUME NEW r, RectOK(r), NEW d, DecOK(r, d)
  PROVE  Undrawn(r, d) \in 0 .. PieceCount(r)
<1>1. PieceCount(r) \in Nat
  BY PieceCounts
<1>2. CASE r.enc = "raw"
  BY <1>2 DEF Undrawn, PieceCount, Lines, DecOK, RectOK
<1>3. CASE r.enc = "rre"
  BY <1>3 DEF Undrawn, PieceCount, Subrects, DecOK, RectOK
<1>4. CASE r.enc = "hextile"
  <2>1. PieceCount(r) = TileTotal(r) /\ Undrawn(r, d) = Tiles(r, d)
    BY <1>4 DEF PieceCount, Undrawn
  <2>2. d.tiles # 0 => d.tiles \in 1 .. TileTotal(r)
    BY DEF DecOK, HextileStateOK
  <2>. QED  BY <1>1, <2>1, <2>2 DEF Tiles
<1>5. CASE r.enc \notin {"raw", "rre", "hextile"}
  BY <1>1, <1>5 DEF Undrawn
<1>. QED  BY <1>2, <1>3, <1>4, <1>5

LEMMA PiecesLeftIsSeq ==
  ASSUME NEW of, NEW r, RectOK(r), NEW d, DecOK(r, d)
  PROVE  IsSeq(PiecesLeft(of, r, d))
<1>1. PICK n \in Nat, u \in Nat : n = PieceCount(r) /\ u = Undrawn(r, d) /\ u <= n
  BY UndrawnBounds, PieceCounts
<1>2. n - u \in Nat /\ u \in Nat
  BY <1>1
<1>3. PiecesLeft(of, r, d) = Run(of, n - u, u)
  BY <1>1 DEF PiecesLeft
<1>. QED  BY <1>2, <1>3, RunFacts

LEMMA SamePieces ==
  ASSUME NEW of, NEW r, NEW d, NEW e, Undrawn(r, e) = Undrawn(r, d)
  PROVE  PiecesLeft(of, r, e) = PiecesLeft(of, r, d)
BY DEF PiecesLeft

\* One more piece.
LEMMA NextPiece ==
  ASSUME NEW of, NEW r, RectOK(r), NEW d, DecOK(r, d), NEW e,
         Undrawn(r, d) # 0, Undrawn(r, e) = Undrawn(r, d) - 1
  PROVE  PiecesLeft(of, r, d) = Glue(<<Append(of, PieceCount(r) - Undrawn(r, d) + 1)>>,
                                     PiecesLeft(of, r, e))
<1>1. PICK n \in Nat, u \in Nat : n = PieceCount(r) /\ u = Undrawn(r, d) /\ u <= n
  BY UndrawnBounds, PieceCounts
<1>2. PICK i \in Nat, c \in Nat : i = n - u /\ c = u
  BY <1>1
<1>3. c # 0
  BY <1>1, <1>2
<1>4. Run(of, i, c) = Glue(<<Append(of, i + 1)>>, Run(of, i + 1, c - 1))
  BY <1>3, RunFirst
<1>5. i + 1 = n - (u - 1)
  BY <1>2
<1>. QED  BY <1>1, <1>2, <1>4, <1>5 DEF PiecesLeft

\* The last piece.
LEMMA LastPiece ==
  ASSUME NEW of, NEW r, PieceCount(r) \in Nat, NEW d, Undrawn(r, d) = 1
  PROVE  PiecesLeft(of, r, d) = <<Append(of, PieceCount(r))>>
<1>1. PICK n \in Nat : n = PieceCount(r)
  OBVIOUS
<1>2. PiecesLeft(of, r, d) = Run(of, n - 1, 1)
  BY <1>1 DEF PiecesLeft
<1>3. Run(of, n - 1, 1) = [p \in 1 .. 1 |-> Append(of, n)]
  <2>1. \A p \in 1 .. 1 : (n - 1) + p = n
    OBVIOUS
  <2>. QED  BY <2>1 DEF Run
<1>4. PICK f : f = Run(of, n - 1, 1)
  OBVIOUS
<1>5. f = [p \in 1 .. 1 |-> f[p]] /\ f[1] = Append(of, n)
  BY <1>3, <1>4
<1>6. IsSeq(f) /\ Len(f) = 1
  BY <1>5, FunIsSeq
<1>7. f = <<Append(of, n)>>
  <2>1. PICK e : e = Append(of, n)
    OBVIOUS
  <2>2. PICK u : u = <<e>>
    OBVIOUS
  <2>3. IsSeq(u) /\ Len(u) = 1 /\ u[1] = e
    BY <2>2, One
  <2>4. \A k \in 1 .. 1 : f[k] = u[k]
    BY <1>5, <2>1, <2>3
  <2>5. f = u
    BY <1>6, <2>3, <2>4, SameSeq
  <2>. QED  BY <2>1, <2>2, <2>5
<1>. QED  BY <1>1, <1>2, <1>4, <1>7

LEMMA NoPieces ==
  ASSUME NEW of, NEW r, PieceCount(r) \in Nat, NEW d, Undrawn(r, d) = 0
  PROVE  PiecesLeft(of, r, d) = <<>>
<1>1. PICK n \in Nat : n = PieceCount(r)
  OBVIOUS
<1>2. PiecesLeft(of, r, d) = Run(of, n, 0)
  BY <1>1 DEF PiecesLeft
<1>. QED  BY <1>2, RunFacts

-----------------------------------------------------------------------------
(***************************************************************************)
(* The bodies of rectangles, by encoding.                                  *)
(***************************************************************************)
Nothing(r) == r.enc \notin {"raw", "copyrect", "rre", "hextile", "zlib", "zrle", "tight",
                            "tightpng", "jpeg", "h264", "cursor", "vmwarecursor", "name", "led",
                            "extsize"}

LEMMA BodyIs ==
  ASSUME NEW r
  PROVE  /\ r.enc = "raw" => Body(r) = Repeat(Plain("line", 4 * r.w), r.h)
         /\ r.enc = "copyrect" => Body(r) = Plain("source", 4)
         /\ r.enc = "rre" => Body(r) = Glue(Plain("rre", 8), Repeat(Plain("subrect", 12), r.subrects))
         /\ r.enc = "hextile" => Body(r) = FlattenSeq(TileFields(r))
         /\ r.enc \in {"zlib", "zrle"} => Body(r) = Glue(Plain("length", 4), Plain("data", r.len))
         /\ r.enc \in {"tight", "tightpng"} => Body(r) = TightBody(r)
         /\ r.enc = "jpeg" => Body(r) = FlattenSeq(SegmentFields(r))
         /\ r.enc = "h264" => Body(r) = Glue(Plain("h264", 8), Plain("data", r.len))
         /\ r.enc = "cursor" =>
              Body(r) = Glue(Plain("pixels", 4 * r.w * r.h), Plain("mask", CeilDiv(r.w, 8) * r.h))
         /\ r.enc = "vmwarecursor" =>
              Body(r) = Glue(Plain("vmware", 2),
                             Plain("pixels", (IF r.classic THEN 8 ELSE 4) * r.w * r.h))
         /\ r.enc = "name" => Body(r) = Glue(Plain("length", 4), Plain("name", r.len))
         /\ r.enc = "led" => Body(r) = Plain("led", 1)
         /\ r.enc = "extsize" =>
              Body(r) = Glue(Plain("screens", 4), Repeat(Plain("screen", 16), r.screens))
         /\ Nothing(r) => Body(r) = <<>>
<1>1. r.enc = "raw" => Body(r) = Repeat(Plain("line", 4 * r.w), r.h)
  BY DEF Body
<1>2. r.enc = "copyrect" => Body(r) = Plain("source", 4)
  BY DEF Body
<1>3. r.enc = "rre" => Body(r) = Glue(Plain("rre", 8), Repeat(Plain("subrect", 12), r.subrects))
  BY DEF Body, Glue
<1>4. r.enc = "hextile" => Body(r) = FlattenSeq(TileFields(r))
  BY DEF Body, TileFields
<1>5. r.enc \in {"zlib", "zrle"} => Body(r) = Glue(Plain("length", 4), Plain("data", r.len))
  BY DEF Body, Glue
<1>6. r.enc \in {"tight", "tightpng"} => Body(r) = TightBody(r)
  BY DEF Body
<1>7. r.enc = "jpeg" => Body(r) = FlattenSeq(SegmentFields(r))
  BY DEF Body, SegmentFields
<1>8. r.enc = "h264" => Body(r) = Glue(Plain("h264", 8), Plain("data", r.len))
  BY DEF Body, Glue
<1>9. r.enc = "cursor" =>
        Body(r) = Glue(Plain("pixels", 4 * r.w * r.h), Plain("mask", CeilDiv(r.w, 8) * r.h))
  BY DEF Body, Glue
<1>10. r.enc = "vmwarecursor" =>
         Body(r) = Glue(Plain("vmware", 2),
                        Plain("pixels", (IF r.classic THEN 8 ELSE 4) * r.w * r.h))
  BY DEF Body, Glue
<1>11. r.enc = "name" => Body(r) = Glue(Plain("length", 4), Plain("name", r.len))
  BY DEF Body, Glue
<1>12. r.enc = "led" => Body(r) = Plain("led", 1)
  BY DEF Body
<1>13. r.enc = "extsize" =>
         Body(r) = Glue(Plain("screens", 4), Repeat(Plain("screen", 16), r.screens))
  BY DEF Body, Glue
<1>14. Nothing(r) => Body(r) = <<>>
  BY DEF Body, Nothing
<1>. QED
  BY <1>1, <1>2, <1>3, <1>4, <1>5, <1>6, <1>7, <1>8, <1>9, <1>10, <1>11, <1>12, <1>13, <1>14

\* A field followed by something else.
LEMMA Headed ==
  ASSUME NEW kind, NEW n \in Nat, NEW t, IsSeq(t)
  PROVE  /\ IsSeq(Glue(Plain(kind, n), t))
         /\ n > 0 => Starts(Glue(Plain(kind, n), t), kind)
<1>1. PICK f : f = Plain(kind, n)
  OBVIOUS
<1>2. IsSeq(f) /\ Len(f) = n /\ (n > 0 => f[1].kind = kind)
  BY <1>1, PlainFacts
<1>3. PICK m \in Nat : m = Len(t)
  BY SeqFacts
<1>4. Joint(Glue(f, t), f, n, t, m)
  BY <1>2, <1>3, GlueAt
<1>5. /\ IsSeq(Glue(f, t)) /\ Len(Glue(f, t)) = n + m
      /\ \A k \in 1 .. n : Glue(f, t)[k] = f[k]
  BY <1>4 DEF Joint
<1>6. n > 0 => 1 \in 1 .. n /\ n + m > 0
  OBVIOUS
<1>7. n > 0 => Starts(Glue(f, t), kind)
  BY <1>2, <1>5, <1>6 DEF Starts
<1>. QED  BY <1>1, <1>5, <1>7

LEMMA PlainStarts ==
  ASSUME NEW kind, NEW n \in Nat, n > 0
  PROVE  Starts(Plain(kind, n), kind)
BY PlainFacts DEF Starts

LEMMA GlueLength ==
  ASSUME NEW s, NEW t, IsSeq(s), IsSeq(t), NEW n \in Nat, NEW m \in Nat, Len(s) = n, Len(t) = m
  PROVE  IsSeq(Glue(s, t)) /\ Len(Glue(s, t)) = n + m
BY GlueAt DEF Joint

\* Two fields.
LEMMA TwoFields ==
  ASSUME NEW k, NEW l, NEW n \in Nat, NEW m \in Nat
  PROVE  LET s == Glue(Plain(k, n), Plain(l, m)) IN IsSeq(s) /\ Len(s) = n + m
BY PlainFacts, GlueLength

(* Tight. *)
LEMMA Eighths ==
  ASSUME NEW a \in Nat
  PROVE  /\ (a + 7) \div 8 \in Nat
         /\ a > 0 => (a + 7) \div 8 > 0
OBVIOUS

LEMMA TightSizes ==
  ASSUME NEW r, r.w \in Nat, r.h \in Nat, TightOK(r), r.control = "basic"
  PROVE  /\ TightSize(r) \in Nat
         /\ TightSize(r) = 0 <=> r.w * r.h = 0
<1>1. CASE r.filter = "palette"
  <2>1. r.w > 0 /\ r.h > 0
    BY <1>1 DEF TightOK, Positive
  <2>2. PICK b \in Nat : b = (IF r.colours <= 2 THEN 1 ELSE 8) /\ b > 0
    OBVIOUS
  <2>3. PICK a \in Nat : a = r.w * b /\ a > 0
    BY <2>1, <2>2, Product
  <2>4. PICK c \in Nat : c = (a + 7) \div 8 /\ c > 0
    BY <2>3, Eighths
  <2>5. TightSize(r) = c * r.h
    BY <1>1, <2>2, <2>3, <2>4 DEF TightSize, PixelBytes
  <2>6. c * r.h \in Nat /\ c * r.h # 0 /\ r.w * r.h # 0
    BY <2>1, <2>4, Product
  <2>. QED  BY <2>5, <2>6
<1>2. CASE r.filter # "palette"
  <2>1. PICK a \in Nat : a = r.w * r.h
    BY Product
  <2>2. TightSize(r) = a * 3
    BY <1>2, <2>1 DEF TightSize, PixelBytes
  <2>. QED  BY <2>1, <2>2
<1>. QED  BY <1>1, <1>2

LEMMA CompactIsSeq ==
  ASSUME NEW r, r.lenBytes \in 1 .. 3, r.len \in Positive
  PROVE  /\ Compact(r) = Glue(Plain("length", r.lenBytes), Plain("data", r.len))
         /\ IsSeq(Compact(r))
         /\ IsSeq(Plain("data", r.len)) /\ Len(Plain("data", r.len)) = r.len
<1>1. Compact(r) = Glue(Plain("length", r.lenBytes), Plain("data", r.len))
  BY DEF Compact, Glue
<1>2. r.lenBytes \in Nat /\ r.len \in Nat
  BY DEF Positive
<1>. QED  BY <1>1, <1>2, TwoFields, PlainFacts

LEMMA PixelsAreSeq ==
  ASSUME NEW r, r.w \in Nat, r.h \in Nat, TightOK(r), r.control = "basic", NEW d
  PROVE  /\ IsSeq(PixelsLeft(r, d)) /\ IsSeq(PaletteLeft(r))
         /\ IsSeq(Glue(PaletteLeft(r), PixelsLeft(r, d)))
         /\ IsSeq(FilterLeft(r, d))
<1>1. r.lenBytes \in 1 .. 3 /\ r.len \in Positive
  BY DEF TightOK
<1>2. TightSize(r) \in Nat
  BY TightSizes
<1>3. IsSeq(PixelsLeft(r, d))
  <2>1. IsSeq(Plain("data", TightSize(r)))
    BY <1>2, PlainFacts
  <2>2. IsSeq(Compact(r)) /\ IsSeq(Plain("data", r.len))
    BY <1>1, CompactIsSeq
  <2>. QED  BY <2>1, <2>2 DEF PixelsLeft, TightData
<1>4. IsSeq(PaletteLeft(r))
  <2>1. CASE r.filter = "palette"
    <3>1. 1 + 3 * r.colours \in Nat
      BY <2>1 DEF TightOK, Positive
    <3>. QED  BY <2>1, <3>1, PlainFacts DEF PaletteLeft
  <2>2. CASE r.filter # "palette"
    BY <2>2, EmptyIsSeq DEF PaletteLeft
  <2>. QED  BY <2>1, <2>2
<1>5. IsSeq(Glue(PaletteLeft(r), PixelsLeft(r, d)))
  BY <1>3, <1>4, Joined
<1>6. IsSeq(IF r.explicit THEN Plain("filter", 1) ELSE <<>>)
  <2>1. IsSeq(Plain("filter", 1))
    BY PlainFacts
  <2>. QED  BY <2>1, EmptyIsSeq
<1>7. IsSeq(Glue(IF r.explicit THEN Plain("filter", 1) ELSE <<>>,
                 Glue(PaletteLeft(r), PixelsLeft(r, d))))
  BY <1>5, <1>6, Joined
<1>. QED  BY <1>3, <1>4, <1>5, <1>7 DEF FilterLeft

LEMMA TightBodyIs ==
  ASSUME NEW r, r.w \in Nat, r.h \in Nat, TightOK(r), NEW d, d.filter = None, d.len = 0
  PROVE  LET t == IF r.control = "fill" THEN Plain("colour", 3)
                  ELSE IF r.control \in {"jpeg", "png"} THEN Compact(r)
                  ELSE IF r.control = "basic" THEN FilterLeft(r, d)
                  ELSE <<>>
         IN TightBody(r) = Glue(Plain("control", 1), t) /\ IsSeq(t)
<1>1. CASE r.control = "fill"
  <2>1. TightBody(r) = Glue(Plain("control", 1), Plain("colour", 3))
    BY <1>1 DEF TightBody, Glue
  <2>. QED  BY <1>1, <2>1, PlainFacts
<1>2. CASE r.control \in {"jpeg", "png"}
  <2>1. TightBody(r) = Glue(Plain("control", 1), Compact(r))
    BY <1>2 DEF TightBody, Glue
  <2>2. r.lenBytes \in 1 .. 3 /\ r.len \in Positive
    BY <1>2 DEF TightOK
  <2>3. IsSeq(Compact(r))
    BY <2>2, CompactIsSeq
  <2>. QED  BY <1>2, <2>1, <2>3
<1>3. CASE r.control = "basic"
  <2>. DEFINE a == IF r.explicit THEN Plain("filter", 1) ELSE <<>>
              b == PaletteLeft(r)
              c == TightData(r, TightSize(r))
  <2>1. TightBody(r) = Glue(Plain("control", 1), Glue(Glue(a, b), c))
    BY <1>3 DEF TightBody, Glue, PaletteLeft, TightSize
  <2>2. PixelsLeft(r, d) = c
    BY DEF PixelsLeft
  <2>3. FilterLeft(r, d) = Glue(a, Glue(b, c))
    BY <2>2 DEF FilterLeft
  <2>4. IsSeq(a)
    <3>1. IsSeq(Plain("filter", 1))
      BY PlainFacts
    <3>. QED  BY <3>1, EmptyIsSeq
  <2>5. IsSeq(b) /\ IsSeq(c) /\ IsSeq(FilterLeft(r, d))
    BY <1>3, <2>2, PixelsAreSeq
  <2>. HIDE DEF a, b, c
  <2>6. Glue(Glue(a, b), c) = Glue(a, Glue(b, c))
    BY <2>4, <2>5, JoinAssoc
  <2>. QED  BY <1>3, <2>1, <2>3, <2>5, <2>6
<1>4. CASE r.control \notin {"fill", "jpeg", "png", "basic"}
  <2>1. TightBody(r) = Glue(Plain("control", 1), <<>>)
    BY <1>4 DEF TightBody, Glue
  <2>. QED  BY <1>4, <2>1, EmptyIsSeq
<1>. QED  BY <1>1, <1>2, <1>3, <1>4

LEMMA BodyIsSeq ==
  ASSUME NEW r, RectOK(r)
  PROVE  IsSeq(Body(r))
<1>1. CASE r.enc = "raw"
  <2>1. r.w \in Nat /\ r.h \in Nat /\ 4 * r.w \in Nat
    BY <1>1 DEF RectOK
  <2>2. IsSeq(Plain("line", 4 * r.w))
    BY <2>1, PlainFacts
  <2>. QED  BY <1>1, <2>1, <2>2, BodyIs, RepeatFacts
<1>2. CASE r.enc \in {"copyrect", "led"}
  BY <1>2, BodyIs, PlainFacts
<1>3. CASE r.enc = "rre"
  <2>1. r.subrects \in Nat
    BY <1>3 DEF RectOK
  <2>2. IsSeq(Plain("rre", 8)) /\ IsSeq(Plain("subrect", 12))
    BY PlainFacts
  <2>3. IsSeq(Repeat(Plain("subrect", 12), r.subrects))
    BY <2>1, <2>2, RepeatFacts
  <2>. QED  BY <1>3, <2>2, <2>3, BodyIs, Joined
<1>4. CASE r.enc = "hextile"
  <2>1. Seqs(TileFields(r))
    BY <1>4, TileFieldsAreSeqs DEF RectOK
  <2>. QED  BY <1>4, <2>1, BodyIs, FlattenIsSeq
<1>5. CASE r.enc \in {"zlib", "zrle", "h264", "name"}
  <2>1. r.len \in Nat
    BY <1>5 DEF RectOK, Positive
  <2>. QED  BY <1>5, <2>1, BodyIs, TwoFields
<1>6. CASE r.enc \in {"tight", "tightpng"}
  <2>1. r.w \in Nat /\ r.h \in Nat /\ TightOK(r)
    BY <1>6 DEF RectOK
  <2>. DEFINE d == [filter |-> None, len |-> 0]
  <2>2. d.filter = None /\ d.len = 0
    OBVIOUS
  <2>. HIDE DEF d
  <2>3. PICK t : TightBody(r) = Glue(Plain("control", 1), t) /\ IsSeq(t)
    BY <2>1, <2>2, TightBodyIs
  <2>. QED  BY <1>6, <2>3, BodyIs, Headed
<1>7. CASE r.enc = "jpeg"
  <2>1. Seqs(SegmentFields(r))
    BY <1>7, SegmentFieldsAreSeqs DEF RectOK
  <2>. QED  BY <1>7, <2>1, BodyIs, FlattenIsSeq
<1>8. CASE r.enc \in {"cursor", "vmwarecursor"}
  <2>1. r.w \in Nat /\ r.h \in Nat
    BY <1>8 DEF RectOK
  <2>2. PICK c \in Nat : c = CeilDiv(r.w, 8)
    BY <2>1, CeilDivs
  <2>3. PICK e \in Nat : e = (IF r.classic THEN 8 ELSE 4)
    OBVIOUS
  <2>4. 4 * r.w \in Nat /\ e * r.w \in Nat
    BY <2>1, Product
  <2>5. 4 * r.w * r.h \in Nat /\ e * r.w * r.h \in Nat /\ c * r.h \in Nat
    BY <2>1, <2>4, Product
  <2>. QED  BY <1>8, <2>2, <2>3, <2>5, BodyIs, TwoFields
<1>9. CASE r.enc = "extsize"
  <2>1. r.screens \in Nat
    BY <1>9 DEF RectOK
  <2>2. IsSeq(Plain("screens", 4)) /\ IsSeq(Plain("screen", 16))
    BY PlainFacts
  <2>3. IsSeq(Repeat(Plain("screen", 16), r.screens))
    BY <2>1, <2>2, RepeatFacts
  <2>. QED  BY <1>9, <2>2, <2>3, BodyIs, Joined
<1>10. CASE Nothing(r)
  BY <1>10, BodyIs, EmptyIsSeq
<1>. QED  BY <1>1, <1>2, <1>3, <1>4, <1>5, <1>6, <1>7, <1>8, <1>9, <1>10 DEF Nothing

-----------------------------------------------------------------------------
(***************************************************************************)
(* How the decoders get through them.                                      *)
(***************************************************************************)
LEMMA FreshIsOK ==
  ASSUME NEW r, RectOK(r), NEW d, Fresh(d)
  PROVE  /\ DecOK(r, d)
         /\ BodyLeft(r, d) = Body(r)
         /\ Undrawn(r, d) = PieceCount(r)
<1>1. DecOK(r, d)
  BY EmptyIsSeq DEF Fresh, DecOK, HextileStateOK, TightStateOK
<1>2. Undrawn(r, d) = PieceCount(r)
  BY DEF Undrawn, PieceCount, Lines, Subrects, Tiles, Fresh
<1>3. CASE r.enc = "hextile"
  <2>1. r.w \in Nat /\ r.h \in Nat /\ HextileOK(r)
    BY <1>3 DEF RectOK
  <2>2. Seqs(TileFields(r)) /\ TileTotal(r) \in Nat
    BY <2>1, TileFieldsAreSeqs
  <2>3. TileTotal(r) - Tiles(r, d) = 0
    BY <2>2 DEF Tiles, Fresh
  <2>4. BodyLeft(r, d) = From(TileFields(r), 0)
    BY <1>3, <2>3 DEF BodyLeft
  <2>5. From(TileFields(r), 0) = FlattenSeq(TileFields(r))
    BY <2>2, FromAll
  <2>6. Body(r) = FlattenSeq(TileFields(r))
    BY <1>3, BodyIs
  <2>. QED  BY <1>1, <1>2, <2>4, <2>5, <2>6
<1>4. CASE r.enc = "jpeg"
  <2>1. Seqs(SegmentFields(r))
    BY <1>4, SegmentFieldsAreSeqs DEF RectOK
  <2>2. Len(d.segments) = 0
    BY EmptyIsSeq DEF Fresh
  <2>3. BodyLeft(r, d) = From(SegmentFields(r), 0)
    BY <1>4, <2>2 DEF BodyLeft
  <2>4. From(SegmentFields(r), 0) = FlattenSeq(SegmentFields(r))
    BY <2>1, FromAll
  <2>5. Body(r) = FlattenSeq(SegmentFields(r))
    BY <1>4, BodyIs
  <2>. QED  BY <1>1, <1>2, <2>3, <2>4, <2>5
<1>5. CASE r.enc \in {"tight", "tightpng"}
  <2>1. BodyLeft(r, d) = TightBody(r)
    BY <1>5 DEF BodyLeft, TightLeft, Fresh
  <2>2. Body(r) = TightBody(r)
    BY <1>5, BodyIs
  <2>. QED  BY <1>1, <1>2, <2>1, <2>2
<1>6. CASE r.enc = "raw"
  <2>1. BodyLeft(r, d) = Repeat(Plain("line", 4 * r.w), r.h)
    BY <1>6 DEF BodyLeft, Lines, Fresh
  <2>2. Body(r) = Repeat(Plain("line", 4 * r.w), r.h)
    BY <1>6, BodyIs
  <2>. QED  BY <1>1, <1>2, <2>1, <2>2
<1>7. CASE r.enc \notin {"hextile", "jpeg", "tight", "tightpng", "raw"}
  <2>1. BodyLeft(r, d) = Body(r)
    BY <1>7 DEF BodyLeft, Fresh
  <2>. QED  BY <1>1, <1>2, <2>1
<1>. QED  BY <1>3, <1>4, <1>5, <1>6, <1>7

\* A rectangle of one piece or none that is read at once.
LEMMA Whole ==
  ASSUME NEW of, NEW r, RectOK(r), NEW d, Fresh(d), NEW n, Len(Body(r)) = n
  PROVE  /\ PieceCount(r) = 0 => Finish(of, r, d, n, <<>>)
         /\ PieceCount(r) = 1 => Finish(of, r, d, n, <<Append(of, 1)>>)
<1>1. BodyLeft(r, d) = Body(r) /\ Undrawn(r, d) = PieceCount(r) /\ IsSeq(Body(r))
  BY FreshIsOK, BodyIsSeq
<1>2. PieceCount(r) = 0 => PiecesLeft(of, r, d) = <<>>
  BY <1>1, NoPieces
<1>3. PieceCount(r) = 1 => PiecesLeft(of, r, d) = <<Append(of, 1)>>
  <2>1. SUFFICES ASSUME PieceCount(r) = 1 PROVE PiecesLeft(of, r, d) = <<Append(of, 1)>>
    OBVIOUS
  <2>2. PieceCount(r) \in Nat /\ Undrawn(r, d) = 1
    BY <1>1, <2>1
  <2>3. PiecesLeft(of, r, d) = <<Append(of, PieceCount(r))>>
    BY <2>2, LastPiece
  <2>. QED  BY <2>1, <2>3
<1>. QED  BY <1>1, <1>2, <1>3 DEF Finish

\* A state in which the rectangle waits as it did before.
Same(of, r, d, e) ==
  BodyLeft(r, e) = BodyLeft(r, d) /\ PiecesLeft(of, r, e) = PiecesLeft(of, r, d) /\ DecOK(r, e)

LEMMA Unstarted ==
  ASSUME NEW r, NEW d, DecOK(r, d)
  PROVE  /\ r.enc \notin {"raw", "rre", "hextile", "zlib", "zrle", "tight", "tightpng", "jpeg"} => Fresh(d)
         /\ r.enc = "raw" /\ d.lines = 0 => Fresh(d)
         /\ r.enc = "rre" /\ d.subrects = 0 => Fresh(d)
         /\ r.enc = "hextile" /\ d.tiles = 0 => Fresh(d)
         /\ r.enc \in {"zlib", "zrle"} /\ d.length = 0 => Fresh(d)
         /\ r.enc \in {"tight", "tightpng"} /\ d.control = None => Fresh(d)
         /\ r.enc = "jpeg" /\ d.segments = <<>> => Fresh(d)
BY DEF DecOK, HextileStateOK, TightStateOK, Fresh, None

(* Raw: a line at a time. *)
LEMMA RawEmpty ==
  ASSUME NEW of, NEW r, RectOK(r), NEW d, DecOK(r, d), r.enc = "raw", r.w * r.h = 0
  PROVE  Finish(of, r, d, 0, <<>>) /\ Fresh(d)
<1>1. r.w \in Nat /\ r.h \in Nat
  BY DEF RectOK
<1>2. r.w = 0 \/ r.h = 0
  BY <1>1, Product
<1>3. d.lines = 0
  BY <1>1, <1>2 DEF DecOK
<1>4. Fresh(d)
  BY <1>3, Unstarted
<1>5. PieceCount(r) = 0
  BY <1>2 DEF PieceCount
<1>6. Body(r) = Repeat(Plain("line", 4 * r.w), r.h)
  BY BodyIs
<1>7. Body(r) = <<>>
  <2>1. CASE r.h = 0
    <3>1. IsSeq(Plain("line", 4 * r.w))
      <4>1. 4 * r.w \in Nat
        BY <1>1
      <4>. QED  BY <4>1, PlainFacts
    <3>. QED  BY <1>6, <2>1, <3>1, RepeatFacts
  <2>2. CASE r.w = 0
    <3>1. 4 * r.w = 0
      BY <2>2
    <3>2. Plain("line", 0) = <<>>
      BY PlainFacts
    <3>. QED  BY <1>1, <1>6, <3>1, <3>2, RepeatNothing
  <2>. QED  BY <1>2, <2>1, <2>2
<1>8. Len(Body(r)) = 0
  BY <1>7, EmptyIsSeq
<1>. QED  BY <1>4, <1>5, <1>8, Whole

LEMMA RawLine ==
  ASSUME NEW of, NEW r, RectOK(r), NEW d, DecOK(r, d), r.enc = "raw", r.w * r.h # 0,
         NEW l, l = Lines(r, d), NEW e, e = [d EXCEPT !.lines = l - 1]
  PROVE  /\ l \in 1 .. r.h /\ r.w \in Nat /\ r.w > 0 /\ r.h \in Nat
         /\ Starts(BodyLeft(r, d), "line")
         /\ l = 1 => Finish(of, r, d, 4 * r.w, <<Append(of, r.h - l + 1)>>) /\ Fresh(e)
         /\ l # 1 => Progress(of, r, d, 4 * r.w, <<Append(of, r.h - l + 1)>>, e)
<1>1. r.w \in Nat /\ r.h \in Nat
  BY DEF RectOK
<1>2. r.w > 0 /\ r.h > 0
  BY <1>1, Product
<1>3. l \in 1 .. r.h /\ DOMAIN d = DecFields
  BY <1>1, <1>2 DEF Lines, DecOK
<1>4. PICK n \in Nat, m \in Nat : n = 4 * r.w /\ m = l - 1 /\ n > 0
  BY <1>1, <1>2, <1>3
<1>5. /\ DOMAIN e = DecFields /\ e.lines = m
      /\ e.subrects = d.subrects /\ e.tiles = d.tiles /\ e.lastRaw = d.lastRaw /\ e.length = d.length
      /\ e.control = d.control /\ e.filter = d.filter /\ e.colours = d.colours /\ e.len = d.len
      /\ e.segments = d.segments
  BY <1>3, <1>4 DEF DecFields
<1>6. DecOK(r, e)
  <2>1. m # 0 => m \in 1 .. r.h
    BY <1>1, <1>3, <1>4
  <2>2. r.w # 0
    BY <1>2
  <2>. QED  BY <1>5, <2>1, <2>2 DEF DecOK, HextileStateOK, TightStateOK
<1>7. m = 0 => Fresh(e)
  BY <1>5, <1>6, Unstarted
<1>8. PICK f : f = Plain("line", n)
  OBVIOUS
<1>9. IsSeq(f) /\ Len(f) = n
  BY <1>8, PlainFacts
<1>10. BodyLeft(r, d) = Repeat(f, l)
  BY <1>4, <1>8 DEF BodyLeft
<1>11. Repeat(f, l) = Glue(f, Repeat(f, m)) /\ IsSeq(Repeat(f, m))
  <2>1. l \in Nat /\ l # 0
    BY <1>1, <1>3
  <2>. QED  BY <1>4, <1>9, <2>1, RepeatDown
<1>12. Starts(BodyLeft(r, d), "line")
  BY <1>4, <1>8, <1>10, <1>11, Headed
<1>13. Undrawn(r, d) = l /\ PieceCount(r) = r.h
  BY <1>2 DEF Undrawn, PieceCount
<1>14. PieceCount(r) = r.h /\ PieceCount(r) \in Nat
  BY <1>1, <1>13
<1>15. ASSUME l = 1 PROVE Finish(of, r, d, 4 * r.w, <<Append(of, r.h - l + 1)>>)
  <2>1. r.h - l + 1 = r.h
    BY <1>1, <1>15
  <2>2. PiecesLeft(of, r, d) = <<Append(of, r.h)>>
    BY <1>13, <1>14, <1>15, LastPiece
  <2>3. m = 0
    BY <1>4, <1>15
  <2>4. Repeat(f, m) = <<>>
    BY <1>9, <2>3, RepeatFacts
  <2>5. BodyLeft(r, d) = f
    BY <1>9, <1>10, <1>11, <2>4, JoinEmpty
  <2>. QED  BY <1>4, <1>9, <2>1, <2>2, <2>5 DEF Finish
<1>16. ASSUME l # 1 PROVE Progress(of, r, d, 4 * r.w, <<Append(of, r.h - l + 1)>>, e)
  <2>1. m # 0
    BY <1>3, <1>4, <1>16
  <2>2. BodyLeft(r, e) = Repeat(f, m)
    BY <1>4, <1>5, <1>8, <2>1 DEF BodyLeft, Lines
  <2>3. Undrawn(r, e) = Undrawn(r, d) - 1 /\ Undrawn(r, d) # 0
    <3>1. Undrawn(r, e) = m
      BY <1>2, <1>5, <2>1 DEF Undrawn, Lines
    <3>. QED  BY <1>3, <1>4, <1>13, <3>1
  <2>4. PiecesLeft(of, r, d) = Glue(<<Append(of, r.h - l + 1)>>, PiecesLeft(of, r, e))
    <3>1. PiecesLeft(of, r, d) = Glue(<<Append(of, PieceCount(r) - Undrawn(r, d) + 1)>>,
                                      PiecesLeft(of, r, e))
      BY <2>3, NextPiece
    <3>. QED  BY <1>13, <3>1
  <2>5. IsSeq(<<Append(of, r.h - l + 1)>>)
    BY One
  <2>. QED  BY <1>4, <1>6, <1>9, <1>10, <1>11, <2>2, <2>4, <2>5 DEF Progress
<1>. QED  BY <1>1, <1>2, <1>3, <1>4, <1>7, <1>12, <1>15, <1>16

LEMMA RawWaits ==
  ASSUME NEW of, NEW r, RectOK(r), NEW d, DecOK(r, d), r.enc = "raw", r.w * r.h # 0
  PROVE  Same(of, r, d, [d EXCEPT !.lines = Lines(r, d)])
<1>1. r.w \in Nat /\ r.h \in Nat
  BY DEF RectOK
<1>2. r.w > 0 /\ r.h > 0
  BY <1>1, Product
<1>3. PICK l \in Nat : l = Lines(r, d) /\ l \in 1 .. r.h /\ DOMAIN d = DecFields
  BY <1>1, <1>2 DEF Lines, DecOK
<1>4. PICK e : e = [d EXCEPT !.lines = l]
  OBVIOUS
<1>5. /\ DOMAIN e = DecFields /\ e.lines = l
      /\ e.subrects = d.subrects /\ e.tiles = d.tiles /\ e.lastRaw = d.lastRaw /\ e.length = d.length
      /\ e.control = d.control /\ e.filter = d.filter /\ e.colours = d.colours /\ e.len = d.len
      /\ e.segments = d.segments
  BY <1>3, <1>4 DEF DecFields
<1>6. DecOK(r, e)
  BY <1>2, <1>3, <1>5 DEF DecOK, HextileStateOK, TightStateOK
<1>7. Lines(r, e) = l
  BY <1>3, <1>5 DEF Lines
<1>8. BodyLeft(r, e) = BodyLeft(r, d)
  BY <1>3, <1>7 DEF BodyLeft
<1>9. Undrawn(r, e) = Undrawn(r, d)
  BY <1>3, <1>7 DEF Undrawn
<1>. QED  BY <1>3, <1>4, <1>6, <1>8, <1>9, SamePieces DEF Same

(* RRE: the background, and then the subrectangles. *)
LEMMA RreStarts ==
  ASSUME NEW of, NEW r, RectOK(r), NEW d, DecOK(r, d), r.enc = "rre", d.subrects = 0,
         NEW e, e = [d EXCEPT !.subrects = r.subrects]
  PROVE  /\ Starts(BodyLeft(r, d), "rre")
         /\ r.subrects = 0 => Finish(of, r, d, 8, <<Append(of, 1)>>) /\ Fresh(d)
         /\ r.subrects # 0 => Progress(of, r, d, 8, <<Append(of, 1)>>, e)
<1>1. r.subrects \in Nat
  BY DEF RectOK
<1>2. PICK f, g : f = Plain("rre", 8) /\ g = Plain("subrect", 12)
  OBVIOUS
<1>3. IsSeq(f) /\ Len(f) = 8 /\ IsSeq(g)
  <2>1. IsSeq(Plain("rre", 8)) /\ Len(Plain("rre", 8)) = 8
    BY PlainSize
  <2>2. IsSeq(Plain("subrect", 12))
    BY PlainFacts
  <2>. QED  BY <1>2, <2>1, <2>2
<1>4. PICK b : b = Repeat(g, r.subrects) /\ IsSeq(b)
  BY <1>1, <1>3, RepeatFacts
<1>5. Fresh(d)
  BY Unstarted
<1>6. BodyLeft(r, d) = Glue(f, b)
  <2>1. BodyLeft(r, d) = Body(r)
    BY DEF BodyLeft
  <2>2. Body(r) = Glue(Plain("rre", 8), Repeat(Plain("subrect", 12), r.subrects))
    BY BodyIs
  <2>. QED  BY <1>2, <1>4, <2>1, <2>2
<1>7. Starts(BodyLeft(r, d), "rre")
  BY <1>2, <1>4, <1>6, Headed
<1>8. PICK p \in Nat : p = 1 + r.subrects /\ PieceCount(r) = p /\ Undrawn(r, d) = p
  BY <1>1 DEF PieceCount, Undrawn, Subrects
<1>9. ASSUME r.subrects = 0 PROVE Finish(of, r, d, 8, <<Append(of, 1)>>)
  <2>1. b = <<>>
    BY <1>3, <1>4, <1>9, RepeatFacts
  <2>2. BodyLeft(r, d) = f
    BY <1>3, <1>6, <2>1, JoinEmpty
  <2>3. PieceCount(r) = 1 /\ PieceCount(r) \in Nat /\ Undrawn(r, d) = 1
    BY <1>8, <1>9
  <2>4. PiecesLeft(of, r, d) = <<Append(of, PieceCount(r))>>
    BY <2>3, LastPiece
  <2>. QED  BY <1>3, <2>2, <2>3, <2>4 DEF Finish
<1>10. ASSUME r.subrects # 0 PROVE Progress(of, r, d, 8, <<Append(of, 1)>>, e)
  <2>1. /\ DOMAIN e = DecFields /\ e.subrects = r.subrects
        /\ e.lines = d.lines /\ e.tiles = d.tiles /\ e.lastRaw = d.lastRaw /\ e.length = d.length
        /\ e.control = d.control /\ e.filter = d.filter /\ e.colours = d.colours /\ e.len = d.len
        /\ e.segments = d.segments
    BY DEF DecFields, DecOK
  <2>2. DecOK(r, e)
    <3>1. r.subrects \in 1 .. r.subrects
      BY <1>1, <1>10
    <3>. QED  BY <2>1, <3>1 DEF DecOK, HextileStateOK, TightStateOK
  <2>3. BodyLeft(r, e) = b
    BY <1>2, <1>4, <1>10, <2>1 DEF BodyLeft
  <2>4. Undrawn(r, d) # 0 /\ Undrawn(r, e) = Undrawn(r, d) - 1
    <3>1. Undrawn(r, e) = r.subrects
      BY <1>10, <2>1 DEF Undrawn, Subrects
    <3>. QED  BY <1>1, <1>8, <3>1
  <2>5. PieceCount(r) - Undrawn(r, d) + 1 = 1
    BY <1>8
  <2>6. PiecesLeft(of, r, d) = Glue(<<Append(of, 1)>>, PiecesLeft(of, r, e))
    BY <2>4, <2>5, NextPiece
  <2>7. IsSeq(<<Append(of, 1)>>)
    BY One
  <2>. QED  BY <1>3, <1>4, <1>6, <2>2, <2>3, <2>6, <2>7 DEF Progress
<1>. QED  BY <1>5, <1>7, <1>9, <1>10

LEMMA RreGoesOn ==
  ASSUME NEW of, NEW r, RectOK(r), NEW d, DecOK(r, d), r.enc = "rre", d.subrects # 0,
         NEW e, e = [d EXCEPT !.subrects = @ - 1]
  PROVE  /\ Starts(BodyLeft(r, d), "subrect") /\ d.subrects \in Nat
         /\ d.subrects = 1 =>
              Finish(of, r, d, 12, <<Append(of, r.subrects - d.subrects + 2)>>) /\ Fresh(e)
         /\ d.subrects # 1 =>
              Progress(of, r, d, 12, <<Append(of, r.subrects - d.subrects + 2)>>, e)
<1>1. PICK s \in Nat, l \in Nat : s = r.subrects /\ l = d.subrects /\ l \in 1 .. s
  BY DEF RectOK, DecOK
<1>2. PICK m \in Nat : m = l - 1
  BY <1>1
<1>3. /\ DOMAIN e = DecFields /\ e.subrects = m
      /\ e.lines = d.lines /\ e.tiles = d.tiles /\ e.lastRaw = d.lastRaw /\ e.length = d.length
      /\ e.control = d.control /\ e.filter = d.filter /\ e.colours = d.colours /\ e.len = d.len
      /\ e.segments = d.segments
  BY <1>1, <1>2 DEF DecFields, DecOK
<1>4. DecOK(r, e)
  <2>1. m # 0 => m \in 1 .. s
    BY <1>1, <1>2
  <2>. QED  BY <1>1, <1>3, <2>1 DEF DecOK, HextileStateOK, TightStateOK
<1>5. m = 0 => Fresh(e)
  BY <1>3, <1>4, Unstarted
<1>6. PICK g : g = Plain("subrect", 12)
  OBVIOUS
<1>7. IsSeq(g) /\ Len(g) = 12
  BY ZenonT(40), <1>6, PlainFacts
<1>8. BodyLeft(r, d) = Repeat(g, l)
  BY <1>1, <1>6 DEF BodyLeft
<1>9. Repeat(g, l) = Glue(g, Repeat(g, m)) /\ IsSeq(Repeat(g, m))
  <2>1. l # 0
    BY <1>1
  <2>. QED  BY <1>2, <1>7, <2>1, RepeatDown
<1>10. Starts(BodyLeft(r, d), "subrect")
  BY <1>6, <1>8, <1>9, Headed
<1>11. Undrawn(r, d) = l /\ PieceCount(r) = 1 + s
  BY <1>1 DEF Undrawn, Subrects, PieceCount
<1>12. PICK k \in Nat : k = r.subrects - d.subrects + 2
  BY <1>1
<1>13. ASSUME l = 1 PROVE Finish(of, r, d, 12, <<Append(of, k)>>)
  <2>1. k = 1 + s /\ PieceCount(r) \in Nat /\ m = 0
    BY <1>1, <1>2, <1>11, <1>12, <1>13
  <2>2. PiecesLeft(of, r, d) = <<Append(of, PieceCount(r))>>
    BY <1>11, <1>13, <2>1, LastPiece
  <2>3. Repeat(g, m) = <<>>
    BY <1>7, <2>1, RepeatFacts
  <2>4. BodyLeft(r, d) = g
    BY <1>7, <1>8, <1>9, <2>3, JoinEmpty
  <2>. QED  BY <1>7, <1>11, <2>1, <2>2, <2>4 DEF Finish
<1>14. ASSUME l # 1 PROVE Progress(of, r, d, 12, <<Append(of, k)>>, e)
  <2>1. m # 0
    BY <1>1, <1>2, <1>14
  <2>2. BodyLeft(r, e) = Repeat(g, m)
    BY <1>3, <1>6, <2>1 DEF BodyLeft
  <2>3. Undrawn(r, d) # 0 /\ Undrawn(r, e) = Undrawn(r, d) - 1
    <3>1. Undrawn(r, e) = m
      BY <1>3, <2>1 DEF Undrawn, Subrects
    <3>. QED  BY <1>1, <1>2, <1>11, <3>1
  <2>4. PieceCount(r) - Undrawn(r, d) + 1 = k
    BY <1>1, <1>11, <1>12
  <2>5. PiecesLeft(of, r, d) = Glue(<<Append(of, k)>>, PiecesLeft(of, r, e))
    BY <2>3, <2>4, NextPiece
  <2>6. IsSeq(<<Append(of, k)>>)
    BY One
  <2>. QED  BY <1>4, <1>7, <1>8, <1>9, <2>2, <2>5, <2>6 DEF Progress
<1>. QED  BY <1>1, <1>2, <1>5, <1>10, <1>12, <1>13, <1>14

(* Hextile: a tile at a time. *)
LEMMA HextileEmpty ==
  ASSUME NEW of, NEW r, RectOK(r), NEW d, DecOK(r, d), r.enc = "hextile", TileTotal(r) = 0
  PROVE  Finish(of, r, d, 0, <<>>) /\ Fresh(d)
<1>1. d.tiles = 0
  BY DEF DecOK, HextileStateOK
<1>2. Fresh(d)
  BY <1>1, Unstarted
<1>3. Seqs(TileFields(r)) /\ Len(TileFields(r)) = 0
  BY TileFieldsAreSeqs DEF RectOK
<1>4. TileFields(r) = <<>>
  BY <1>3, NoElements DEF Seqs
<1>5. Body(r) = <<>>
  <2>1. Body(r) = FlattenSeq(TileFields(r))
    BY BodyIs
  <2>. QED  BY <1>4, <2>1, FlattenEmpty
<1>6. Len(Body(r)) = 0
  BY <1>5, EmptyIsSeq
<1>7. PieceCount(r) = 0
  BY DEF PieceCount
<1>. QED  BY <1>2, <1>6, <1>7, Whole

LEMMA HextileTile ==
  ASSUME NEW of, NEW r, RectOK(r), NEW d, DecOK(r, d), r.enc = "hextile", TileTotal(r) # 0,
         NEW l, l = Tiles(r, d), NEW k, k = TileTotal(r) - l + 1,
         NEW n, n = TileBytes(r.tiles[k], TileArea(r, k)),
         NEW e, e = [d EXCEPT !.tiles = l - 1, !.lastRaw = r.tiles[k].raw]
  PROVE  /\ TileTotal(r) \in Nat /\ l \in 1 .. TileTotal(r) /\ k \in 1 .. TileTotal(r)
         /\ n \in Nat /\ n > 0
         /\ Starts(BodyLeft(r, d), "tile")
         /\ l = 1 => Finish(of, r, d, n, <<Append(of, k)>>) /\ Fresh(e)
         /\ l # 1 => Progress(of, r, d, n, <<Append(of, k)>>, e)
         /\ ~r.tiles[k].raw /\ ~r.tiles[k].background /\ ~r.tiles[k].foreground /\ ~r.tiles[k].any
              => ~d.lastRaw
<1>1. r.w \in Nat /\ r.h \in Nat /\ HextileOK(r)
  BY DEF RectOK
<1>2a. PICK t \in Nat : t = TileTotal(r)
  BY <1>1, TileFieldsAreSeqs
<1>2. PICK s : t = TileTotal(r) /\ s = TileFields(r)
  BY <1>2a
<1>3. /\ Seqs(s) /\ Len(s) = t
      /\ \A i \in 1 .. t : LET b == TileBytes(r.tiles[i], TileArea(r, i))
                           IN b \in Nat /\ b > 0 /\ s[i] = Plain("tile", b)
  BY <1>1, <1>2, TileFieldsAreSeqs
<1>4. l \in 1 .. t /\ k \in 1 .. t /\ l \in Nat /\ k \in Nat
  BY <1>2 DEF Tiles, DecOK, HextileStateOK
<1>5. n \in Nat /\ n > 0 /\ s[k] = Plain("tile", n)
  BY <1>3, <1>4
<1>6. PICK m \in Nat, i \in Nat : m = l - 1 /\ i = t - l
  BY <1>4
<1>7. /\ DOMAIN e = DecFields /\ e.tiles = m /\ e.lastRaw = r.tiles[k].raw
      /\ e.lines = d.lines /\ e.subrects = d.subrects /\ e.length = d.length
      /\ e.control = d.control /\ e.filter = d.filter /\ e.colours = d.colours /\ e.len = d.len
      /\ e.segments = d.segments
  BY <1>6 DEF DecFields, DecOK
<1>8. k = i + 1 /\ t - m = k /\ i \in 0 .. t /\ i # t
  BY <1>2, <1>4, <1>6
<1>9. DecOK(r, e)
  <2>1. m # 0 => m \in 1 .. t
    BY <1>4, <1>6
  <2>2. HextileStateOK(r, e)
    BY <1>2, <1>7, <1>8, <2>1 DEF HextileStateOK
  <2>. QED  BY <1>7, <2>2 DEF DecOK, TightStateOK
<1>10. m = 0 => Fresh(e)
  BY <1>7, <1>9, Unstarted
<1>11. BodyLeft(r, d) = From(s, i)
  BY <1>2, <1>6 DEF BodyLeft
<1>12. From(s, i) = Glue(s[k], From(s, k)) /\ k \in 0 .. t
  <2>1. i \in 0 .. Len(s) /\ i # Len(s)
    BY <1>3, <1>8
  <2>2. From(s, i) = Glue(s[i + 1], From(s, i + 1))
    BY <1>3, <2>1, FromStep
  <2>. QED  BY <1>4, <1>8, <2>2
<1>13. IsSeq(From(s, k))
  BY <1>3, <1>12, FromIsSeq
<1>14. PICK f : f = s[k] /\ f = Plain("tile", n)
  BY <1>5
<1>15. IsSeq(f) /\ Len(f) = n
  BY <1>5, <1>14, PlainFacts
<1>16. Starts(BodyLeft(r, d), "tile")
  BY <1>5, <1>11, <1>12, <1>13, Headed
<1>17. Undrawn(r, d) = l /\ PieceCount(r) = t
  BY <1>2 DEF Undrawn, PieceCount
<1>18. ASSUME l = 1 PROVE Finish(of, r, d, n, <<Append(of, k)>>)
  <2>1. k = t /\ PieceCount(r) \in Nat
    BY <1>2, <1>17, <1>18
  <2>2. PiecesLeft(of, r, d) = <<Append(of, PieceCount(r))>>
    BY <1>17, <1>18, <2>1, LastPiece
  <2>3. From(s, k) = <<>>
    <3>1. k = Len(s)
      BY <1>3, <2>1
    <3>. QED  BY <1>3, <3>1, FromNone
  <2>4. BodyLeft(r, d) = f
    BY <1>11, <1>12, <1>14, <1>15, <2>3, JoinEmpty
  <2>. QED  BY <1>15, <1>17, <2>1, <2>2, <2>4 DEF Finish
<1>19. ASSUME l # 1 PROVE Progress(of, r, d, n, <<Append(of, k)>>, e)
  <2>1. m # 0
    BY <1>4, <1>6, <1>19
  <2>2. Tiles(r, e) = m
    BY <1>7, <2>1 DEF Tiles
  <2>3. BodyLeft(r, e) = From(s, k)
    BY <1>2, <1>8, <2>2 DEF BodyLeft
  <2>4. Undrawn(r, d) # 0 /\ Undrawn(r, e) = Undrawn(r, d) - 1
    <3>1. Undrawn(r, e) = m
      BY <2>2 DEF Undrawn
    <3>. QED  BY <1>4, <1>6, <1>17, <3>1
  <2>5. PieceCount(r) - Undrawn(r, d) + 1 = k
    BY <1>2, <1>17
  <2>6. PiecesLeft(of, r, d) = Glue(<<Append(of, k)>>, PiecesLeft(of, r, e))
    BY <2>4, <2>5, NextPiece
  <2>7. IsSeq(<<Append(of, k)>>)
    BY One
  <2>. QED  BY <1>9, <1>11, <1>12, <1>13, <1>14, <1>15, <2>3, <2>6, <2>7 DEF Progress
<1>20. ~r.tiles[k].raw /\ ~r.tiles[k].background /\ ~r.tiles[k].foreground /\ ~r.tiles[k].any
         => ~d.lastRaw
  <2>1. SUFFICES ASSUME ~r.tiles[k].raw, ~r.tiles[k].background, ~r.tiles[k].foreground,
                        ~r.tiles[k].any
                 PROVE  ~d.lastRaw
    OBVIOUS
  <2>2. k > 1 /\ ~r.tiles[k - 1].raw
    BY <1>1, <1>2, <1>4, <2>1 DEF HextileOK
  <2>3. l # t
    BY <1>2, <1>4, <2>2
  <2>4. d.tiles # 0 /\ d.tiles = l
    BY <1>2, <2>3 DEF Tiles
  <2>5. d.lastRaw = r.tiles[TileTotal(r) - d.tiles].raw
    BY <1>2, <2>3, <2>4 DEF DecOK, HextileStateOK
  <2>6. TileTotal(r) - d.tiles = k - 1
    BY <1>2, <1>4, <2>4
  <2>. QED  BY <2>2, <2>5, <2>6
<1>. QED  BY <1>2, <1>4, <1>5, <1>6, <1>10, <1>16, <1>18, <1>19, <1>20

LEMMA HextileWaits ==
  ASSUME NEW of, NEW r, RectOK(r), NEW d, DecOK(r, d), r.enc = "hextile", TileTotal(r) # 0
  PROVE  Same(of, r, d, [d EXCEPT !.tiles = Tiles(r, d)])
<1>1. PICK t \in Nat : t = TileTotal(r)
  BY TileFieldsAreSeqs DEF RectOK
<1>2. PICK l \in Nat : l = Tiles(r, d) /\ l \in 1 .. t
  BY <1>1 DEF Tiles, DecOK, HextileStateOK
<1>3. PICK e : e = [d EXCEPT !.tiles = l]
  OBVIOUS
<1>4. /\ DOMAIN e = DecFields /\ e.tiles = l /\ e.lastRaw = d.lastRaw
      /\ e.lines = d.lines /\ e.subrects = d.subrects /\ e.length = d.length
      /\ e.control = d.control /\ e.filter = d.filter /\ e.colours = d.colours /\ e.len = d.len
      /\ e.segments = d.segments
  BY <1>3 DEF DecFields, DecOK
<1>5. DecOK(r, e)
  <2>1. HextileStateOK(r, e)
    BY <1>1, <1>2, <1>4 DEF HextileStateOK, Tiles, DecOK
  <2>. QED  BY <1>4, <2>1 DEF DecOK, TightStateOK
<1>6. Tiles(r, e) = l
  BY <1>1, <1>2, <1>4 DEF Tiles
<1>7. BodyLeft(r, e) = BodyLeft(r, d)
  BY <1>2, <1>6 DEF BodyLeft
<1>8. Undrawn(r, e) = Undrawn(r, d)
  BY <1>2, <1>6 DEF Undrawn
<1>. QED  BY <1>2, <1>3, <1>5, <1>7, <1>8, SamePieces DEF Same

(* zlib and ZRLE: a length, and then the data. *)
LEMMA ZlibStarts ==
  ASSUME NEW of, NEW r, RectOK(r), NEW d, DecOK(r, d), r.enc \in {"zlib", "zrle"}, d.length = 0,
         NEW e, e = [d EXCEPT !.length = r.len]
  PROVE  /\ Starts(BodyLeft(r, d), "length")
         /\ Progress(of, r, d, 4, <<>>, e)
         /\ r.enc = "zlib" => r.w * r.h # 0
<1>1. r.len \in Nat /\ r.len # 0
  BY DEF RectOK, Positive
<1>2. PICK f, g : f = Plain("length", 4) /\ g = Plain("data", r.len)
  OBVIOUS
<1>3. IsSeq(f) /\ Len(f) = 4 /\ IsSeq(g)
  <2>1. IsSeq(Plain("length", 4)) /\ Len(Plain("length", 4)) = 4
    BY PlainSize
  <2>2. IsSeq(Plain("data", r.len))
    BY <1>1, PlainSize
  <2>. QED  BY <1>2, <2>1, <2>2
<1>4. BodyLeft(r, d) = Glue(f, g)
  <2>1. BodyLeft(r, d) = Body(r)
    BY DEF BodyLeft
  <2>. QED  BY <1>2, <2>1, BodyIs
<1>5. Starts(BodyLeft(r, d), "length")
  BY <1>2, <1>3, <1>4, Headed
<1>6. /\ DOMAIN e = DecFields /\ e.length = r.len
      /\ e.lines = d.lines /\ e.subrects = d.subrects /\ e.tiles = d.tiles /\ e.lastRaw = d.lastRaw
      /\ e.control = d.control /\ e.filter = d.filter /\ e.colours = d.colours /\ e.len = d.len
      /\ e.segments = d.segments
  BY DEF DecFields, DecOK
<1>7. DecOK(r, e)
  BY <1>6 DEF DecOK, HextileStateOK, TightStateOK
<1>8. BodyLeft(r, e) = g
  BY <1>1, <1>2, <1>6 DEF BodyLeft
<1>9. PiecesLeft(of, r, d) = Glue(<<>>, PiecesLeft(of, r, e))
  <2>1. Undrawn(r, e) = Undrawn(r, d)
    BY DEF Undrawn
  <2>2. PiecesLeft(of, r, e) = PiecesLeft(of, r, d)
    BY <2>1, SamePieces
  <2>. QED  BY <2>2, PiecesLeftIsSeq, JoinEmpty
<1>10. r.enc = "zlib" => r.w * r.h # 0
  BY DEF RectOK
<1>. QED  BY <1>3, <1>4, <1>5, <1>7, <1>8, <1>9, <1>10, EmptyIsSeq DEF Progress

LEMMA ZlibEnds ==
  ASSUME NEW of, NEW r, RectOK(r), NEW d, DecOK(r, d), r.enc \in {"zlib", "zrle"}, d.length # 0
  PROVE  /\ Starts(BodyLeft(r, d), "data") /\ d.length \in Nat
         /\ r.enc = "zlib" => Finish(of, r, d, d.length, <<Append(of, 1)>>)
         /\ r.enc = "zrle" => Finish(of, r, d, d.length, Run(of, 0, r.tiles)) /\ r.tiles \in Nat
         /\ Fresh([d EXCEPT !.length = 0])
<1>1. r.len \in Nat /\ r.len > 0 /\ d.length = r.len
  BY DEF RectOK, DecOK, Positive
<1>2. PICK g : g = Plain("data", r.len)
  OBVIOUS
<1>3. IsSeq(g) /\ Len(g) = r.len
  BY <1>1, <1>2, PlainFacts
<1>4. BodyLeft(r, d) = g
  BY <1>1, <1>2 DEF BodyLeft
<1>5. Starts(BodyLeft(r, d), "data")
  BY <1>1, <1>2, <1>4, PlainStarts
<1>6. PieceCount(r) \in Nat /\ Undrawn(r, d) = PieceCount(r)
  BY PieceCounts DEF Undrawn
<1>7. ASSUME r.enc = "zlib" PROVE Finish(of, r, d, d.length, <<Append(of, 1)>>)
  <2>1. PieceCount(r) = 1
    BY <1>7 DEF RectOK, PieceCount
  <2>2. Undrawn(r, d) = 1
    BY <1>6, <2>1
  <2>3. PiecesLeft(of, r, d) = <<Append(of, PieceCount(r))>>
    BY <1>6, <2>2, LastPiece
  <2>. QED  BY <1>1, <1>3, <1>4, <2>1, <2>3 DEF Finish
<1>8. ASSUME r.enc = "zrle" PROVE Finish(of, r, d, d.length, Run(of, 0, r.tiles)) /\ r.tiles \in Nat
  <2>1. PieceCount(r) = r.tiles /\ r.tiles \in Nat
    BY <1>8 DEF RectOK, PieceCount
  <2>2. PiecesLeft(of, r, d) = Run(of, 0, r.tiles)
    <3>1. PieceCount(r) - Undrawn(r, d) = 0
      BY <1>6
    <3>. QED  BY <1>6, <2>1, <3>1 DEF PiecesLeft
  <2>. QED  BY <1>1, <1>3, <1>4, <2>1, <2>2 DEF Finish
<1>9. Fresh([d EXCEPT !.length = 0])
  <2>1. PICK e : e = [d EXCEPT !.length = 0]
    OBVIOUS
  <2>2. /\ DOMAIN e = DecFields /\ e.length = 0
        /\ e.lines = d.lines /\ e.subrects = d.subrects /\ e.tiles = d.tiles /\ e.lastRaw = d.lastRaw
        /\ e.control = d.control /\ e.filter = d.filter /\ e.colours = d.colours /\ e.len = d.len
        /\ e.segments = d.segments
    BY <2>1 DEF DecFields, DecOK
  <2>3. DecOK(r, e)
    BY <2>2 DEF DecOK, HextileStateOK, TightStateOK
  <2>. QED  BY <2>1, <2>2, <2>3, Unstarted
<1>. QED  BY <1>1, <1>5, <1>7, <1>8, <1>9

\* All the tiles of a ZRLE rectangle.
LEMMA TilesDrawn ==
  ASSUME NEW d, ScreenOK(d), NEW of, NEW n \in Nat,
         NEW q, q = [p \in 1 .. n |-> Op("blit", Append(of, p))]
  PROVE  Adds(d, FoldLeft(Submit, d, q), Run(of, 0, n))
<1>1. q = [p \in 1 .. n |-> q[p]] /\ \A p \in 1 .. n : q[p] = Op("blit", Append(of, p))
  OBVIOUS
<1>2. IsSeq(q) /\ Len(q) = n
  BY <1>1, FunIsSeq
<1>3. PICK g : Steps(g, "submit", d, q, n) /\ g[n] = FoldLeft(Submit, d, q)
  <2>1. PICK g : Steps(g, "submit", d, q, Len(q)) /\ g[Len(q)] = FoldLeft(Submit, d, q)
    BY <1>2, SubmitSteps
  <2>. QED  BY <1>2, <2>1
<1>4. g[0] = d /\ \A i \in 1 .. n : g[i] = Step("submit", g[i - 1], q[i])
  BY <1>3 DEF Steps
<1>. DEFINE T == {i \in Nat : i <= n => Adds(d, g[i], Run(of, 0, i))}
<1>5. 0 \in T
  <2>1. Run(of, 0, 0) = <<>>
    BY RunFacts
  <2>2. Adds(d, d, <<>>)
    BY NothingDrawn
  <2>. QED  BY <1>4, <2>1, <2>2
<1>6. ASSUME NEW i \in Nat, i \in T PROVE i + 1 \in T
  <2>1. SUFFICES ASSUME i + 1 <= n PROVE Adds(d, g[i + 1], Run(of, 0, i + 1))
    OBVIOUS
  <2>2. i <= n /\ i + 1 \in 1 .. n /\ (i + 1) - 1 = i
    BY <2>1
  <2>3. PICK a, b, s, t, u : /\ a = g[i] /\ b = g[i + 1] /\ s = Run(of, 0, i)
                             /\ t = Run(of, 0, i + 1) /\ u = <<Append(of, i + 1)>>
    OBVIOUS
  <2>4. Adds(d, a, s)
    BY <1>6, <2>2, <2>3
  <2>5. b = Submit(a, Op("blit", Append(of, i + 1)))
    <3>1. g[i + 1] = Step("submit", g[(i + 1) - 1], q[i + 1])
      BY <1>4, <2>2
    <3>2. g[i + 1] = Submit(g[(i + 1) - 1], q[i + 1])
      BY <3>1 DEF Step
    <3>3. q[i + 1] = Op("blit", Append(of, i + 1))
      BY <1>1, <2>2
    <3>. QED  BY <2>2, <2>3, <3>2, <3>3
  <2>6. ScreenOK(a)
    BY <2>4 DEF Adds, Draws
  <2>7. Adds(a, b, u)
    BY <2>3, <2>5, <2>6, OpDraws
  <2>8. t = Glue(s, u)
    <3>1. 0 + i + 1 = i + 1
      OBVIOUS
    <3>2. Run(of, 0, i + 1) = Glue(Run(of, 0, i), <<Append(of, 0 + i + 1)>>)
      BY RunLast
    <3>. QED  BY <2>3, <3>1, <3>2
  <2>9. IsSeq(Shown(d)) /\ IsSeq(s) /\ IsSeq(u)
    BY <2>3, ShownIsSeq, RunFacts, One
  <2>10. Glue(Glue(Shown(d), s), u) = Glue(Shown(d), t)
    BY <2>8, <2>9, JoinAssoc
  <2>11. Adds(d, b, t)
    BY <2>4, <2>7, <2>10 DEF Adds, Draws
  <2>. QED  BY <2>3, <2>11
<1>. HIDE DEF T
<1>7. Nat \subseteq T
  BY <1>5, <1>6, Induct
<1>8. n \in T
  BY <1>7
<1>9. Adds(d, g[n], Run(of, 0, n))
  BY <1>8 DEF T
<1>. QED  BY <1>3, <1>9

(* Tight. *)
IsTight(r) == r.enc \in {"tight", "tightpng"}
TightPiece(of, r) == IF r.w * r.h = 0 THEN <<>> ELSE <<Append(of, 1)>>

LEMMA TightFacts ==
  ASSUME NEW of, NEW r, RectOK(r), IsTight(r), NEW d
  PROVE  /\ r.w \in Nat /\ r.h \in Nat /\ TightOK(r)
         /\ BodyLeft(r, d) = TightLeft(r, d)
         /\ PiecesLeft(of, r, d) = TightPiece(of, r) /\ IsSeq(TightPiece(of, r))
<1>1. r.w \in Nat /\ r.h \in Nat /\ TightOK(r)
  BY DEF RectOK, IsTight
<1>2. BodyLeft(r, d) = TightLeft(r, d)
  BY DEF BodyLeft, IsTight
<1>3. Undrawn(r, d) = PieceCount(r) /\ PieceCount(r) = IF r.w * r.h = 0 THEN 0 ELSE 1
  BY DEF Undrawn, PieceCount, IsTight
<1>4. CASE r.w * r.h = 0
  <2>1. PieceCount(r) \in Nat /\ Undrawn(r, d) = 0
    BY <1>3, <1>4
  <2>2. PiecesLeft(of, r, d) = <<>>
    BY <2>1, NoPieces
  <2>. QED  BY <1>1, <1>2, <1>4, <2>2, EmptyIsSeq DEF TightPiece
<1>5. CASE r.w * r.h # 0
  <2>1. PieceCount(r) = 1 /\ PieceCount(r) \in Nat /\ Undrawn(r, d) = 1
    BY <1>3, <1>5
  <2>2. PiecesLeft(of, r, d) = <<Append(of, PieceCount(r))>>
    BY <2>1, LastPiece
  <2>3. IsSeq(<<Append(of, 1)>>)
    BY One
  <2>. QED  BY <1>1, <1>2, <1>5, <2>1, <2>2, <2>3 DEF TightPiece
<1>. QED  BY <1>4, <1>5

\* Some bytes of the rectangle are read and nothing is drawn.
LEMMA TightReads ==
  ASSUME NEW of, NEW r, RectOK(r), IsTight(r), NEW d, NEW e, DecOK(r, e),
         NEW f, IsSeq(f), NEW n \in Nat, Len(f) = n,
         TightLeft(r, d) = Glue(f, TightLeft(r, e)), IsSeq(TightLeft(r, e))
  PROVE  Progress(of, r, d, n, <<>>, e)
<1>1. BodyLeft(r, d) = TightLeft(r, d) /\ BodyLeft(r, e) = TightLeft(r, e)
  BY TightFacts
<1>2. PiecesLeft(of, r, d) = TightPiece(of, r) /\ PiecesLeft(of, r, e) = TightPiece(of, r)
  BY TightFacts
<1>3. Glue(<<>>, TightPiece(of, r)) = TightPiece(of, r)
  BY TightFacts, JoinEmpty
<1>. QED  BY <1>1, <1>2, <1>3, EmptyIsSeq DEF Progress

TightStarted(d, e) ==
  /\ DOMAIN e = DecFields
  /\ e.lines = d.lines /\ e.subrects = d.subrects /\ e.tiles = d.tiles /\ e.lastRaw = d.lastRaw
  /\ e.length = d.length /\ e.segments = d.segments

LEMMA TightEnds ==
  ASSUME NEW r, IsTight(r), NEW d, DecOK(r, d), NEW e, TightStarted(d, e),
         e.control = None, e.filter = None, e.colours = 0, e.len = 0
  PROVE  Fresh(e)
BY DEF IsTight, DecOK, HextileStateOK, TightStarted, Fresh

LEMMA TightKeeps ==
  ASSUME NEW r, IsTight(r), NEW d, DecOK(r, d), NEW e, TightStarted(d, e), TightStateOK(r, e)
  PROVE  DecOK(r, e)
BY DEF IsTight, DecOK, HextileStateOK, TightStarted

LEMMA TightControls ==
  ASSUME NEW of, NEW r, RectOK(r), IsTight(r), NEW d, DecOK(r, d), d.control = None,
         NEW e, e = [d EXCEPT !.control = r.control]
  PROVE  Starts(BodyLeft(r, d), "control") /\ Progress(of, r, d, 1, <<>>, e)
<1>1. r.w \in Nat /\ r.h \in Nat /\ TightOK(r) /\ BodyLeft(r, d) = TightLeft(r, d)
  BY TightFacts
<1>2. d.filter = None /\ d.colours = 0 /\ d.len = 0
  BY DEF DecOK, TightStateOK, None
<1>3. /\ TightStarted(d, e) /\ e.control = r.control
      /\ e.filter = None /\ e.colours = 0 /\ e.len = 0
  BY <1>2 DEF DecFields, DecOK, TightStarted
<1>4. DecOK(r, e)
  <2>1. TightStateOK(r, e)
    BY <1>3 DEF TightStateOK, IsTight
  <2>. QED  BY <1>3, <2>1, TightKeeps
<1>5. PICK f : f = Plain("control", 1)
  OBVIOUS
<1>6. IsSeq(f) /\ Len(f) = 1
  BY <1>5, PlainSize
<1>7. TightBody(r) = Glue(f, TightLeft(r, e)) /\ IsSeq(TightLeft(r, e))
  <2>1. r.control # None
    BY <1>1 DEF TightOK
  <2>2. TightLeft(r, e) = IF r.control = "fill" THEN Plain("colour", 3)
                          ELSE IF r.control \in {"jpeg", "png"} THEN Compact(r)
                          ELSE IF r.control = "basic" THEN FilterLeft(r, e)
                          ELSE <<>>
    BY <1>3, <2>1 DEF TightLeft
  <2>. QED  BY <1>1, <1>3, <1>5, <2>2, TightBodyIs
<1>8. TightLeft(r, d) = TightBody(r)
  BY DEF TightLeft
<1>9. Progress(of, r, d, 1, <<>>, e)
  BY <1>4, <1>6, <1>7, <1>8, TightReads
<1>10. Starts(BodyLeft(r, d), "control")
  BY <1>1, <1>5, <1>7, <1>8, Headed
<1>. QED  BY <1>9, <1>10

LEMMA TightFills ==
  ASSUME NEW of, NEW r, RectOK(r), IsTight(r), NEW d, DecOK(r, d), d.control = "fill"
  PROVE  /\ Starts(BodyLeft(r, d), "colour")
         /\ Finish(of, r, d, 3, <<Append(of, 1)>>)
         /\ Fresh([d EXCEPT !.control = None, !.filter = None])
<1>1. /\ TightOK(r) /\ BodyLeft(r, d) = TightLeft(r, d)
      /\ PiecesLeft(of, r, d) = TightPiece(of, r)
  BY TightFacts
<1>2. PICK f : f = Plain("colour", 3)
  OBVIOUS
<1>3. IsSeq(f) /\ Len(f) = 3 /\ Starts(f, "colour")
  <2>1. IsSeq(Plain("colour", 3)) /\ Len(Plain("colour", 3)) = 3
    BY PlainSize
  <2>2. Starts(Plain("colour", 3), "colour")
    BY PlainStarts
  <2>. QED  BY <1>2, <2>1, <2>2
<1>4. TightLeft(r, d) = f
  BY <1>2 DEF TightLeft, None
<1>5. TightPiece(of, r) = <<Append(of, 1)>>
  <2>1. r.control = "fill"
    BY DEF DecOK, TightStateOK, None
  <2>2. r.w * r.h # 0
    BY <1>1, <2>1 DEF TightOK
  <2>. QED  BY <2>2 DEF TightPiece
<1>6. d.filter = None /\ d.colours = 0 /\ d.len = 0
  BY DEF DecOK, TightStateOK, None
<1>7. PICK e : e = [d EXCEPT !.control = None, !.filter = None]
  OBVIOUS
<1>8. /\ TightStarted(d, e) /\ e.control = None
      /\ e.filter = None /\ e.colours = 0 /\ e.len = 0
  BY <1>6, <1>7 DEF DecFields, DecOK, TightStarted
<1>9. Fresh(e)
  BY <1>8, TightEnds
<1>. QED  BY <1>1, <1>3, <1>4, <1>5, <1>7, <1>9 DEF Finish

LEMMA TightFilters ==
  ASSUME NEW of, NEW r, RectOK(r), IsTight(r), NEW d, DecOK(r, d),
         d.control = "basic", d.filter = None, NEW e, e = [d EXCEPT !.filter = r.filter]
  PROVE  /\ r.explicit => Starts(BodyLeft(r, d), "filter") /\ Progress(of, r, d, 1, <<>>, e)
         /\ ~r.explicit => r.filter = "copy" /\ Progress(of, r, d, 0, <<>>, e)
<1>1. r.control = "basic"
  BY DEF DecOK, TightStateOK, None
<1>2. r.w \in Nat /\ r.h \in Nat /\ TightOK(r) /\ BodyLeft(r, d) = TightLeft(r, d)
  BY TightFacts
<1>3. d.colours = 0 /\ d.len = 0
  BY DEF DecOK, TightStateOK, None
<1>4. r.filter # None /\ (~r.explicit => r.filter = "copy")
  BY <1>1, <1>2 DEF TightOK
<1>5. /\ TightStarted(d, e) /\ e.control = "basic"
      /\ e.filter = r.filter /\ e.colours = 0 /\ e.len = 0
  BY <1>3 DEF DecFields, DecOK, TightStarted
<1>6. DecOK(r, e)
  <2>1. TightStateOK(r, e)
    BY <1>1, <1>5 DEF TightStateOK, IsTight
  <2>. QED  BY <1>5, <2>1, TightKeeps
<1>7. PICK a, b : a = PaletteLeft(r) /\ b = PixelsLeft(r, d)
  OBVIOUS
<1>8. PixelsLeft(r, e) = b
  BY <1>3, <1>5, <1>7 DEF PixelsLeft
<1>9. IsSeq(a) /\ IsSeq(b) /\ IsSeq(Glue(a, b))
  BY <1>1, <1>2, <1>7, PixelsAreSeq
<1>10. TightLeft(r, e) = Glue(a, b)
  <2>1. TightLeft(r, e) = FilterLeft(r, e)
    BY <1>5 DEF TightLeft, None
  <2>2. CASE r.filter = "palette"
    BY <1>4, <1>5, <1>7, <1>8, <2>1, <2>2 DEF FilterLeft
  <2>3. CASE r.filter # "palette"
    <3>1. a = <<>>
      BY <1>7, <2>3 DEF PaletteLeft
    <3>2. Glue(a, b) = b
      BY <1>9, <3>1, JoinEmpty
    <3>. QED  BY <1>4, <1>5, <1>8, <2>1, <2>3, <3>2 DEF FilterLeft
  <2>. QED  BY <2>2, <2>3
<1>11. PICK g : g = IF r.explicit THEN Plain("filter", 1) ELSE <<>>
  OBVIOUS
<1>12. TightLeft(r, d) = Glue(g, Glue(a, b))
  BY <1>7, <1>11 DEF TightLeft, FilterLeft, None
<1>13. ASSUME r.explicit
       PROVE  Starts(BodyLeft(r, d), "filter") /\ Progress(of, r, d, 1, <<>>, e)
  <2>1. g = Plain("filter", 1)
    BY <1>11, <1>13
  <2>2. IsSeq(g) /\ Len(g) = 1
    BY <2>1, PlainSize
  <2>3. Progress(of, r, d, 1, <<>>, e)
    BY <1>6, <1>9, <1>10, <1>12, <2>2, TightReads
  <2>4. Starts(Glue(g, Glue(a, b)), "filter")
    BY <1>9, <2>1, Headed
  <2>. QED  BY <1>2, <1>12, <2>3, <2>4
<1>14. ASSUME ~r.explicit PROVE Progress(of, r, d, 0, <<>>, e)
  <2>1. g = <<>>
    BY <1>11, <1>14
  <2>2. IsSeq(g) /\ Len(g) = 0
    BY <2>1, EmptyIsSeq
  <2>. QED  BY <1>6, <1>9, <1>10, <1>12, <2>2, TightReads
<1>. QED  BY <1>4, <1>13, <1>14

LEMMA TightPalettes ==
  ASSUME NEW of, NEW r, RectOK(r), IsTight(r), NEW d, DecOK(r, d),
         d.control = "basic", d.filter = "palette", d.colours = 0,
         NEW e, e = [d EXCEPT !.colours = r.colours]
  PROVE  /\ 1 + 3 * r.colours \in Nat /\ r.colours \in Nat
         /\ Starts(BodyLeft(r, d), "palette")
         /\ Progress(of, r, d, 1 + 3 * r.colours, <<>>, e)
<1>1. r.control = "basic" /\ r.filter = "palette"
  BY DEF DecOK, TightStateOK, None
<1>2. r.w \in Nat /\ r.h \in Nat /\ TightOK(r) /\ BodyLeft(r, d) = TightLeft(r, d)
  BY TightFacts
<1>3. PICK n \in Nat : n = 1 + 3 * r.colours /\ n > 0 /\ r.colours \in Nat /\ r.colours # 0
  BY <1>1, <1>2 DEF TightOK, Positive
<1>4. d.len = 0
  BY DEF DecOK, TightStateOK, None
<1>5. /\ TightStarted(d, e) /\ e.control = "basic"
      /\ e.filter = "palette" /\ e.colours = r.colours /\ e.len = 0
  BY <1>4 DEF DecFields, DecOK, TightStarted
<1>6. DecOK(r, e)
  <2>1. TightStateOK(r, e)
    BY <1>1, <1>5 DEF TightStateOK, IsTight
  <2>. QED  BY <1>5, <2>1, TightKeeps
<1>7. PICK a, b : a = Plain("palette", n) /\ b = PixelsLeft(r, d)
  OBVIOUS
<1>8. IsSeq(a) /\ Len(a) = n
  BY <1>7, PlainSize
<1>9. IsSeq(b)
  BY <1>1, <1>2, <1>7, PixelsAreSeq
<1>10. PixelsLeft(r, e) = b
  BY <1>4, <1>5, <1>7 DEF PixelsLeft
<1>11. PaletteLeft(r) = a
  BY <1>1, <1>3, <1>7 DEF PaletteLeft
<1>12. TightLeft(r, d) = Glue(a, b)
  BY <1>1, <1>7, <1>11 DEF TightLeft, FilterLeft, None
<1>13. TightLeft(r, e) = b
  <2>1. TightLeft(r, e) = FilterLeft(r, e)
    BY <1>5 DEF TightLeft, None
  <2>2. FilterLeft(r, e) = PixelsLeft(r, e)
    BY <1>3, <1>5 DEF FilterLeft, None
  <2>. QED  BY <1>10, <2>1, <2>2
<1>14. Progress(of, r, d, n, <<>>, e)
  BY <1>6, <1>8, <1>9, <1>12, <1>13, TightReads
<1>15. Starts(Glue(a, b), "palette")
  BY <1>3, <1>7, <1>9, Headed
<1>. QED  BY <1>2, <1>3, <1>12, <1>14, <1>15

\* The length of compressed data.
CompressedNext(r, d) ==
  /\ d.len = 0
  /\ \/ d.control \in {"jpeg", "png"}
     \/ /\ d.control = "basic" /\ d.filter # None
        /\ d.filter = "palette" => d.colours # 0
        /\ TightSize(r) >= Small

LEMMA TightLengths ==
  ASSUME NEW of, NEW r, RectOK(r), IsTight(r), NEW d, DecOK(r, d), CompressedNext(r, d),
         NEW e, e = [d EXCEPT !.len = r.len]
  PROVE  /\ r.lenBytes \in 1 .. 3
         /\ Starts(BodyLeft(r, d), "length")
         /\ Progress(of, r, d, r.lenBytes, <<>>, e)
<1>1. r.w \in Nat /\ r.h \in Nat /\ TightOK(r) /\ BodyLeft(r, d) = TightLeft(r, d)
  BY TightFacts
<1>2. d.control # None /\ d.control = r.control /\ (d.filter # None => d.filter = r.filter)
  BY DEF CompressedNext, DecOK, TightStateOK, None
<1>3. r.lenBytes \in 1 .. 3 /\ r.len \in Positive /\ r.len # 0
  BY <1>1, <1>2 DEF TightOK, CompressedNext, Positive
<1>4. /\ TightStarted(d, e) /\ e.control = d.control
      /\ e.filter = d.filter /\ e.colours = d.colours /\ e.len = r.len
  BY DEF DecFields, DecOK, TightStarted
<1>5. DecOK(r, e)
  <2>1. TightStateOK(r, e)
    BY <1>2, <1>4 DEF TightStateOK, IsTight, DecOK, CompressedNext
  <2>. QED  BY <1>4, <2>1, TightKeeps
<1>6. PICK n \in Nat : n = r.lenBytes /\ n > 0
  BY <1>3
<1>7. PICK f, g : f = Plain("length", n) /\ g = Plain("data", r.len)
  OBVIOUS
<1>8. IsSeq(f) /\ Len(f) = n
  BY <1>7, PlainSize
<1>9. IsSeq(g) /\ Compact(r) = Glue(f, g)
  BY <1>3, <1>6, <1>7, CompactIsSeq
<1>10. TightLeft(r, d) = Compact(r)
  <2>1. CASE d.control \in {"jpeg", "png"}
    BY <2>1 DEF TightLeft, None, CompressedNext
  <2>2. CASE d.control = "basic"
    <3>1. PixelsLeft(r, d) = Compact(r)
      <4>1. ~(TightSize(r) < Small)
        <5>1. TightSize(r) \in Nat
          BY <1>1, <1>2, <2>2, TightSizes
        <5>. QED  BY <2>2, <5>1 DEF CompressedNext, Small
      <4>. QED  BY <4>1 DEF PixelsLeft, TightData, CompressedNext
    <3>2. FilterLeft(r, d) = PixelsLeft(r, d)
      BY <1>2, <2>2 DEF FilterLeft, CompressedNext, None
    <3>3. TightLeft(r, d) = FilterLeft(r, d)
      BY <2>2 DEF TightLeft, None
    <3>. QED  BY <3>1, <3>2, <3>3
  <2>. QED  BY <2>1, <2>2 DEF CompressedNext
<1>11. TightLeft(r, e) = g
  <2>1. CASE d.control \in {"jpeg", "png"}
    BY <1>3, <1>4, <1>7, <2>1 DEF TightLeft, None
  <2>2. CASE d.control = "basic"
    <3>1. PixelsLeft(r, e) = g
      BY <1>3, <1>4, <1>7 DEF PixelsLeft
    <3>2. FilterLeft(r, e) = PixelsLeft(r, e)
      BY <1>2, <1>4, <2>2 DEF FilterLeft, CompressedNext, None
    <3>3. TightLeft(r, e) = FilterLeft(r, e)
      BY <1>4, <2>2 DEF TightLeft, None
    <3>. QED  BY <3>1, <3>2, <3>3
  <2>. QED  BY <2>1, <2>2 DEF CompressedNext
<1>12. Progress(of, r, d, n, <<>>, e)
  BY <1>5, <1>8, <1>9, <1>10, <1>11, TightReads
<1>13. Starts(Glue(f, g), "length")
  BY <1>6, <1>7, <1>9, Headed
<1>. QED  BY <1>1, <1>3, <1>6, <1>9, <1>10, <1>12, <1>13

LEMMA TightCompressed ==
  ASSUME NEW of, NEW r, RectOK(r), IsTight(r), NEW d, DecOK(r, d), d.len # 0
  PROVE  /\ d.len \in Nat
         /\ Starts(BodyLeft(r, d), "data")
         /\ Finish(of, r, d, d.len, TightPiece(of, r))
         /\ r.control = "basic" => TightPiece(of, r) = <<Append(of, 1)>>
         /\ d.control \in {"jpeg", "png"} =>
              Fresh([[d EXCEPT !.len = 0] EXCEPT !.control = None, !.filter = None])
         /\ Fresh([[d EXCEPT !.len = 0, !.colours = 0] EXCEPT !.control = None, !.filter = None])
<1>1. /\ r.w \in Nat /\ r.h \in Nat /\ TightOK(r) /\ BodyLeft(r, d) = TightLeft(r, d)
      /\ PiecesLeft(of, r, d) = TightPiece(of, r)
  BY TightFacts
<1>2. /\ d.control \in {"jpeg", "png", "basic"} /\ d.control = r.control /\ d.len = r.len
      /\ d.control = "basic" => d.filter # None /\ d.filter = r.filter
      /\ d.control = "basic" /\ r.filter = "palette" => d.colours # 0
      /\ d.control = "basic" => TightSize(r) >= Small
      /\ d.control # "basic" => d.filter = None /\ d.colours = 0
  BY DEF DecOK, TightStateOK, None
<1>3. r.len \in Positive /\ r.len \in Nat /\ r.len > 0
  BY <1>1, <1>2 DEF TightOK, Positive
<1>4. PICK g : g = Plain("data", r.len)
  OBVIOUS
<1>5. IsSeq(g) /\ Len(g) = r.len /\ Starts(g, "data")
  <2>1. IsSeq(g) /\ Len(g) = r.len
    BY <1>3, <1>4, PlainSize
  <2>2. Starts(g, "data")
    BY <1>3, <1>4, PlainStarts
  <2>. QED  BY <2>1, <2>2
<1>6. TightLeft(r, d) = g
  <2>1. CASE d.control \in {"jpeg", "png"}
    BY <1>4, <2>1 DEF TightLeft, None
  <2>2. CASE d.control = "basic"
    <3>1. PixelsLeft(r, d) = g
      BY <1>4 DEF PixelsLeft
    <3>2. FilterLeft(r, d) = PixelsLeft(r, d)
      BY <1>2, <2>2 DEF FilterLeft
    <3>3. TightLeft(r, d) = FilterLeft(r, d)
      BY <2>2 DEF TightLeft, None
    <3>. QED  BY <3>1, <3>2, <3>3
  <2>. QED  BY <1>2, <2>1, <2>2
<1>7. Finish(of, r, d, d.len, TightPiece(of, r))
  BY <1>1, <1>2, <1>5, <1>6 DEF Finish
<1>8. r.control = "basic" => TightPiece(of, r) = <<Append(of, 1)>>
  <2>1. SUFFICES ASSUME r.control = "basic" PROVE r.w * r.h # 0
    BY DEF TightPiece
  <2>2. TightSize(r) \in Nat /\ TightSize(r) # 0
    BY <1>1, <1>2, <2>1, TightSizes DEF Small
  <2>. QED  BY <1>1, <2>1, <2>2, TightSizes
<1>9. ASSUME d.control \in {"jpeg", "png"}
      PROVE  Fresh([[d EXCEPT !.len = 0] EXCEPT !.control = None, !.filter = None])
  <2>1. PICK e : e = [[d EXCEPT !.len = 0] EXCEPT !.control = None, !.filter = None]
    OBVIOUS
  <2>2. /\ TightStarted(d, e) /\ e.control = None
        /\ e.filter = None /\ e.colours = 0 /\ e.len = 0
    BY <1>2, <1>9, <2>1 DEF DecFields, DecOK, TightStarted
  <2>. QED  BY <2>1, <2>2, TightEnds
<1>10. Fresh([[d EXCEPT !.len = 0, !.colours = 0] EXCEPT !.control = None, !.filter = None])
  <2>1. PICK e : e = [[d EXCEPT !.len = 0, !.colours = 0] EXCEPT !.control = None, !.filter = None]
    OBVIOUS
  <2>2. /\ TightStarted(d, e) /\ e.control = None
        /\ e.filter = None /\ e.colours = 0 /\ e.len = 0
    BY <2>1 DEF DecFields, DecOK, TightStarted
  <2>. QED  BY <2>1, <2>2, TightEnds
<1>. QED  BY <1>1, <1>2, <1>3, <1>5, <1>6, <1>7, <1>8, <1>9, <1>10

\* Few pixels are not compressed.
LEMMA TightCopied ==
  ASSUME NEW of, NEW r, RectOK(r), IsTight(r), NEW d, DecOK(r, d),
         d.control = "basic", d.filter # None, d.filter = "palette" => d.colours > 0
  PROVE  /\ PixelBytes(r, d.filter, d.colours) = TightSize(r) /\ TightSize(r) \in Nat
         /\ TightSize(r) = 0 =>
              /\ Finish(of, r, d, 0, <<>>)
              /\ Fresh([d EXCEPT !.control = None, !.filter = None])
         /\ TightSize(r) > 0 /\ TightSize(r) < Small =>
              /\ Starts(BodyLeft(r, d), "data")
              /\ Finish(of, r, d, TightSize(r), <<Append(of, 1)>>)
              /\ Fresh([[d EXCEPT !.len = 0, !.colours = 0] EXCEPT !.control = None, !.filter = None])
         /\ d.len > 0 => d.len # 0
         /\ TightSize(r) >= Small /\ d.len = 0 => CompressedNext(r, d)
<1>1. /\ r.w \in Nat /\ r.h \in Nat /\ TightOK(r) /\ BodyLeft(r, d) = TightLeft(r, d)
      /\ PiecesLeft(of, r, d) = TightPiece(of, r)
  BY TightFacts
<1>2. /\ r.control = "basic" /\ d.filter = r.filter
      /\ d.colours # 0 => d.filter = "palette" /\ d.colours = r.colours
      /\ d.len # 0 => TightSize(r) >= Small
      /\ r.filter = "palette" => d.colours # 0
  BY DEF DecOK, TightStateOK, None
<1>3. PixelBytes(r, d.filter, d.colours) = TightSize(r)
  BY <1>2 DEF TightSize, PixelBytes
<1>4. PICK n \in Nat : n = TightSize(r) /\ (n = 0 <=> r.w * r.h = 0)
  BY <1>1, <1>2, TightSizes
<1>5. PICK g : g = Plain("data", n)
  OBVIOUS
<1>6. n < Small => TightLeft(r, d) = g
  <2>1. SUFFICES ASSUME n < Small PROVE TightLeft(r, d) = g
    OBVIOUS
  <2>2. d.len = 0
    BY <1>2, <1>4, <2>1 DEF Small
  <2>3. PixelsLeft(r, d) = g
    BY <1>4, <1>5, <2>1, <2>2 DEF PixelsLeft, TightData
  <2>4. FilterLeft(r, d) = PixelsLeft(r, d)
    BY <1>2 DEF FilterLeft
  <2>5. TightLeft(r, d) = FilterLeft(r, d)
    BY DEF TightLeft, None
  <2>. QED  BY <2>3, <2>4, <2>5
<1>7. IsSeq(g) /\ Len(g) = n /\ (n > 0 => Starts(g, "data"))
  <2>1. IsSeq(g) /\ Len(g) = n
    BY <1>5, PlainSize
  <2>2. n > 0 => Starts(g, "data")
    BY <1>5, PlainStarts
  <2>. QED  BY <2>1, <2>2
<1>8. ASSUME n = 0
      PROVE  Finish(of, r, d, 0, <<>>) /\ Fresh([d EXCEPT !.control = None, !.filter = None])
  <2>1. n < Small
    BY <1>8 DEF Small
  <2>2. TightPiece(of, r) = <<>>
    BY <1>4, <1>8 DEF TightPiece
  <2>3. Finish(of, r, d, 0, <<>>)
    BY <1>1, <1>6, <1>7, <1>8, <2>1, <2>2 DEF Finish
  <2>4. d.len = 0 /\ d.colours = 0
    <3>1. d.len = 0
      BY <1>2, <1>4, <1>8 DEF Small
    <3>2. r.filter # "palette"
      <4>1. SUFFICES ASSUME r.filter = "palette" PROVE FALSE
        OBVIOUS
      <4>2. r.w # 0 /\ r.h # 0
        BY <1>1, <1>2, <4>1 DEF TightOK, Positive
      <4>. QED  BY <1>1, <1>4, <1>8, <4>2, Product
    <3>. QED  BY <1>2, <3>1, <3>2
  <2>5. PICK e : e = [d EXCEPT !.control = None, !.filter = None]
    OBVIOUS
  <2>6. /\ TightStarted(d, e) /\ e.control = None
        /\ e.filter = None /\ e.colours = 0 /\ e.len = 0
    BY <2>4, <2>5 DEF DecFields, DecOK, TightStarted
  <2>7. Fresh(e)
    BY <2>6, TightEnds
  <2>. QED  BY <2>3, <2>5, <2>7
<1>9. ASSUME n > 0, n < Small
      PROVE  /\ Starts(BodyLeft(r, d), "data")
             /\ Finish(of, r, d, n, <<Append(of, 1)>>)
             /\ Fresh([[d EXCEPT !.len = 0, !.colours = 0] EXCEPT !.control = None, !.filter = None])
  <2>1. TightPiece(of, r) = <<Append(of, 1)>>
    BY <1>4, <1>9 DEF TightPiece
  <2>2. Finish(of, r, d, n, <<Append(of, 1)>>) /\ Starts(BodyLeft(r, d), "data")
    BY <1>1, <1>6, <1>7, <1>9, <2>1 DEF Finish
  <2>3. PICK e : e = [[d EXCEPT !.len = 0, !.colours = 0] EXCEPT !.control = None, !.filter = None]
    OBVIOUS
  <2>4. /\ TightStarted(d, e) /\ e.control = None
        /\ e.filter = None /\ e.colours = 0 /\ e.len = 0
    BY <2>3 DEF DecFields, DecOK, TightStarted
  <2>5. Fresh(e)
    BY <2>4, TightEnds
  <2>. QED  BY <2>2, <2>3, <2>5
<1>10. d.len > 0 => d.len # 0
  OBVIOUS
<1>11. TightSize(r) >= Small /\ d.len = 0 => CompressedNext(r, d)
  BY <1>2 DEF CompressedNext
<1>. QED  BY <1>3, <1>4, <1>8, <1>9, <1>10, <1>11

(* JPEG: a segment at a time. *)
AtSegment(r, d) == r.segments[Len(d.segments) + 1]

SegmentIs(of, r, d, s, n) ==
  /\ n \in Nat /\ n >= 2
  /\ s.type \notin Markers => /\ s.len \in Nat /\ s.len >= 2 /\ s.scan \in Nat
                              /\ (s.type # "scan" => s.scan = 0) /\ n = 2 + s.len + s.scan
  /\ s.type \in Markers => n = 2
  /\ Starts(BodyLeft(r, d), "segment") /\ BodyLeft(r, d)[1].s = s
  /\ s.type = "end" => Finish(of, r, d, 2, TightPiece(of, r))
  /\ s.type # "end" => Progress(of, r, d, n, <<>>, [d EXCEPT !.segments = Append(d.segments, s.type)])

LEMMA JpegSegment ==
  ASSUME NEW of, NEW r, RectOK(r), NEW d, DecOK(r, d), r.enc = "jpeg",
         NEW s, s = AtSegment(r, d), NEW n, n = SegmentBytes(s)
  PROVE  SegmentIs(of, r, d, s, n)
<1>1. r.w \in Nat /\ r.h \in Nat /\ JpegOK(r)
  BY DEF RectOK
<1>2a. PICK t \in Nat : t = Len(r.segments) /\ t # 0
  BY <1>1, EmptyIsSeq DEF JpegOK
<1>2. PICK g : t = Len(r.segments) /\ g = SegmentFields(r) /\ t # 0
  BY <1>2a
<1>3. PICK i \in Nat : i = Len(d.segments) /\ i < t
  <2>1. IsSeq(d.segments)
    BY DEF DecOK
  <2>2. Len(d.segments) \in Nat
    BY <2>1, SeqFacts
  <2>3. CASE d.segments = <<>>
    BY <1>2, <2>2, <2>3, EmptyIsSeq
  <2>4. CASE d.segments # <<>>
    BY <1>2, <2>2, <2>4 DEF DecOK
  <2>. QED  BY <2>3, <2>4
<1>4. PICK k \in Nat : k = i + 1 /\ k \in 1 .. t
  BY <1>3
<1>5. s = r.segments[k]
  BY <1>3, <1>4 DEF AtSegment
<1>6. /\ s.type = "end" <=> k = t
      /\ s.type \notin Markers =>
           s.len \in Nat /\ s.len >= 2 /\ s.scan \in Nat /\ (s.type # "scan" => s.scan = 0)
  BY <1>1, <1>2, <1>4, <1>5 DEF JpegOK
<1>7. /\ n \in Nat /\ n >= 2
      /\ s.type \notin Markers => n = 2 + s.len + s.scan
      /\ s.type \in Markers => n = 2
  BY <1>6 DEF SegmentBytes
<1>8. Seqs(g) /\ Len(g) = t
  BY <1>1, <1>2, SegmentFieldsAreSeqs
<1>9. IsSeq(g[k]) /\ Len(g[k]) = n /\ g[k][1] = [kind |-> "segment", s |-> s]
  BY <1>1, <1>2, <1>4, <1>5, SegmentFieldsAreSeqs
<1>10. BodyLeft(r, d) = From(g, i)
  BY <1>2, <1>3 DEF BodyLeft
<1>11. From(g, i) = Glue(g[k], From(g, k)) /\ IsSeq(From(g, k))
  <2>1. i \in 0 .. Len(g) /\ i # Len(g) /\ k \in 0 .. Len(g)
    BY <1>3, <1>4, <1>8
  <2>2. From(g, i) = Glue(g[i + 1], From(g, i + 1))
    BY <1>8, <2>1, FromStep
  <2>. QED  BY <1>4, <1>8, <2>1, <2>2, FromIsSeq
<1>12. PICK f, rest : f = g[k] /\ rest = From(g, k)
  OBVIOUS
<1>13. IsSeq(f) /\ Len(f) = n /\ IsSeq(rest) /\ BodyLeft(r, d) = Glue(f, rest)
  BY <1>9, <1>10, <1>11, <1>12
<1>14. Starts(BodyLeft(r, d), "segment") /\ BodyLeft(r, d)[1].s = s
  <2>1a. PICK m \in Nat : m = Len(rest)
    BY <1>13, SeqFacts
  <2>1. PICK b : m = Len(rest) /\ b = Glue(f, rest)
    BY <2>1a
  <2>2. Joint(b, f, n, rest, m)
    BY <1>7, <1>13, <2>1, GlueAt
  <2>3. 1 \in 1 .. n /\ n + m > 0
    BY <1>7
  <2>4. b[1] = f[1] /\ IsSeq(b) /\ Len(b) > 0
    BY <2>2, <2>3 DEF Joint
  <2>. QED  BY <1>9, <1>12, <1>13, <2>1, <2>4 DEF Starts
<1>15. Undrawn(r, d) = PieceCount(r) /\ PieceCount(r) = IF r.w * r.h = 0 THEN 0 ELSE 1
  BY DEF Undrawn, PieceCount
<1>16. PiecesLeft(of, r, d) = TightPiece(of, r)
  <2>1. CASE r.w * r.h = 0
    <3>1. PieceCount(r) \in Nat /\ Undrawn(r, d) = 0
      BY <1>15, <2>1
    <3>. QED  BY <2>1, <3>1, NoPieces DEF TightPiece
  <2>2. CASE r.w * r.h # 0
    <3>1. PieceCount(r) = 1 /\ PieceCount(r) \in Nat /\ Undrawn(r, d) = 1
      BY <1>15, <2>2
    <3>2. PiecesLeft(of, r, d) = <<Append(of, PieceCount(r))>>
      BY <3>1, LastPiece
    <3>. QED  BY <2>2, <3>1, <3>2 DEF TightPiece
  <2>. QED  BY <2>1, <2>2
<1>17. ASSUME s.type = "end" PROVE Finish(of, r, d, 2, TightPiece(of, r))
  <2>1. n = 2
    BY <1>7, <1>17 DEF Markers
  <2>2. rest = <<>>
    <3>1. k = Len(g)
      BY <1>6, <1>8, <1>17
    <3>. QED  BY <1>8, <1>12, <3>1, FromNone
  <2>3. BodyLeft(r, d) = f
    BY <1>13, <2>2, JoinEmpty
  <2>. QED  BY <1>13, <1>16, <2>1, <2>3 DEF Finish
<1>18. ASSUME s.type # "end"
       PROVE  Progress(of, r, d, n, <<>>, [d EXCEPT !.segments = Append(d.segments, s.type)])
  <2>1. PICK u, e : u = Append(d.segments, s.type) /\ e = [d EXCEPT !.segments = u]
    OBVIOUS
  <2>2. IsSeq(u) /\ Len(u) = k
    <3>1. IsSeq(d.segments)
      BY DEF DecOK
    <3>. QED  BY <1>3, <1>4, <2>1, <3>1, Appended
  <2>3. /\ DOMAIN e = DecFields /\ e.segments = u
        /\ e.lines = d.lines /\ e.subrects = d.subrects /\ e.tiles = d.tiles /\ e.lastRaw = d.lastRaw
        /\ e.length = d.length
        /\ e.control = d.control /\ e.filter = d.filter /\ e.colours = d.colours /\ e.len = d.len
    BY <2>1 DEF DecFields, DecOK
  <2>4. Len(u) < Len(r.segments)
    BY <1>2, <1>4, <1>6, <1>18, <2>2
  <2>5. DecOK(r, e)
    BY <2>2, <2>3, <2>4 DEF DecOK, HextileStateOK, TightStateOK
  <2>6. BodyLeft(r, e) = rest
    BY <1>2, <1>12, <2>2, <2>3 DEF BodyLeft
  <2>7. PiecesLeft(of, r, d) = Glue(<<>>, PiecesLeft(of, r, e))
    <3>1. Undrawn(r, e) = Undrawn(r, d)
      BY DEF Undrawn
    <3>2. PiecesLeft(of, r, e) = PiecesLeft(of, r, d)
      BY <3>1, SamePieces
    <3>. QED  BY <3>2, PiecesLeftIsSeq, JoinEmpty
  <2>. QED  BY <1>13, <2>1, <2>5, <2>6, <2>7, EmptyIsSeq DEF Progress
<1>. QED  BY <1>6, <1>7, <1>14, <1>17, <1>18 DEF SegmentIs

LEMMA JpegEnds ==
  ASSUME NEW r, RectOK(r), NEW d, DecOK(r, d), r.enc = "jpeg", NEW tables
  PROVE  Fresh([d EXCEPT !.segments = <<>>, !.tables = tables])
<1>1. PICK e : e = [d EXCEPT !.segments = <<>>, !.tables = tables]
  OBVIOUS
<1>2. /\ DOMAIN e = DecFields /\ e.segments = <<>>
      /\ e.lines = d.lines /\ e.subrects = d.subrects /\ e.tiles = d.tiles /\ e.lastRaw = d.lastRaw
      /\ e.length = d.length
      /\ e.control = d.control /\ e.filter = d.filter /\ e.colours = d.colours /\ e.len = d.len
  BY <1>1 DEF DecFields, DecOK
<1>. QED  BY <1>1, <1>2 DEF DecOK, HextileStateOK, TightStateOK, Fresh, None

(* H.264, and the encodings that are read at once. *)
LEMMA H264Frame ==
  ASSUME NEW of, NEW r, RectOK(r), NEW d, DecOK(r, d), r.enc = "h264", NEW contexts
  PROVE  /\ r.len \in Nat /\ r.frames \in Nat
         /\ r.frames > 0 => r.len > 0 /\ r.key
         /\ Starts(BodyLeft(r, d), "h264")
         /\ r.frames > 0 => Finish(of, r, d, 8 + r.len, <<Append(of, 1)>>)
         /\ ~(r.frames > 0) => Finish(of, r, d, 8 + r.len, <<>>)
         /\ Fresh([d EXCEPT !.contexts = contexts])
<1>1. /\ r.len \in Nat /\ r.frames \in Nat
      /\ r.frames > 0 => r.len > 0 /\ r.key
  BY DEF RectOK
<1>2. Fresh(d)
  BY Unstarted
<1>3. BodyLeft(r, d) = Body(r)
  BY <1>2, FreshIsOK
<1>4. PICK b, g : b = Glue(Plain("h264", 8), g) /\ g = Plain("data", r.len)
  OBVIOUS
<1>5. Body(r) = b /\ IsSeq(g)
  <2>1. Body(r) = Glue(Plain("h264", 8), Plain("data", r.len))
    BY BodyIs
  <2>. QED  BY <1>1, <1>4, <2>1, PlainFacts
<1>6. Starts(b, "h264")
  BY <1>4, <1>5, Headed
<1>7. Len(b) = 8 + r.len
  BY <1>1, <1>4, TwoFields
<1>8. PieceCount(r) = IF r.frames > 0 THEN 1 ELSE 0
  BY DEF PieceCount
<1>9. Len(Body(r)) = 8 + r.len
  BY <1>5, <1>7
<1>10. /\ r.frames > 0 => Finish(of, r, d, 8 + r.len, <<Append(of, 1)>>)
       /\ ~(r.frames > 0) => Finish(of, r, d, 8 + r.len, <<>>)
  BY <1>2, <1>8, <1>9, Whole
<1>11. Fresh([d EXCEPT !.contexts = contexts])
  <2>1. PICK e : e = [d EXCEPT !.contexts = contexts]
    OBVIOUS
  <2>2. /\ DOMAIN e = DecFields /\ e.segments = d.segments
        /\ e.lines = d.lines /\ e.subrects = d.subrects /\ e.tiles = d.tiles /\ e.lastRaw = d.lastRaw
        /\ e.length = d.length
        /\ e.control = d.control /\ e.filter = d.filter /\ e.colours = d.colours /\ e.len = d.len
    BY <2>1 DEF DecFields, DecOK
  <2>. QED  BY <1>2, <2>1, <2>2 DEF Fresh
<1>. QED  BY <1>1, <1>3, <1>5, <1>6, <1>10, <1>11

LEMMA RepeatLength ==
  ASSUME NEW f, IsSeq(f), NEW a \in Nat, Len(f) = a, NEW n \in Nat
  PROVE  Len(Repeat(f, n)) = a * n
<1>. DEFINE T == {k \in Nat : Len(Repeat(f, k)) = a * k}
<1>1. 0 \in T
  <2>1. Repeat(f, 0) = <<>>
    BY RepeatFacts
  <2>. QED  BY <2>1, EmptyIsSeq
<1>2. ASSUME NEW k \in Nat, k \in T PROVE k + 1 \in T
  <2>1. Repeat(f, k + 1) = Glue(f, Repeat(f, k)) /\ IsSeq(Repeat(f, k))
    BY RepeatFacts
  <2>2. PICK b \in Nat : b = a * k
    BY Product
  <2>3. Len(Repeat(f, k)) = b
    BY <1>2, <2>2
  <2>4. Len(Repeat(f, k + 1)) = a + b
    BY <2>1, <2>3, GlueLength
  <2>5. a * (k + 1) = a + b
    BY <2>2
  <2>. QED  BY <2>4, <2>5
<1>. HIDE DEF T
<1>3. Nat \subseteq T
  BY <1>1, <1>2, Induct
<1>. QED  BY <1>3 DEF T

LEMMA CopyRectIs ==
  ASSUME NEW of, NEW r, RectOK(r), NEW d, DecOK(r, d), r.enc = "copyrect"
  PROVE  Fresh(d) /\ Starts(BodyLeft(r, d), "source") /\ Finish(of, r, d, 4, TightPiece(of, r))
<1>1. Fresh(d)
  BY Unstarted
<1>2. BodyLeft(r, d) = Body(r) /\ Body(r) = Plain("source", 4)
  BY <1>1, FreshIsOK, BodyIs
<1>3. Starts(Plain("source", 4), "source")
  BY PlainStarts
<1>4. Len(Plain("source", 4)) = 4
  BY PlainSize
<1>5. PieceCount(r) = IF r.w * r.h = 0 THEN 0 ELSE 1
  BY DEF PieceCount
<1>6. Len(Body(r)) = 4
  BY <1>2, <1>4
<1>7. /\ PieceCount(r) = 0 => Finish(of, r, d, 4, <<>>)
      /\ PieceCount(r) = 1 => Finish(of, r, d, 4, <<Append(of, 1)>>)
  BY <1>1, <1>6, Whole
<1>. QED  BY <1>1, <1>2, <1>3, <1>5, <1>7 DEF TightPiece

\* What is read at once and draws nothing.
Pseudo(r) == r.enc \in {"cursor", "vmwarecursor", "name", "led", "extsize"} \/ Nothing(r)

LEMMA PseudoIs ==
  ASSUME NEW of, NEW r, RectOK(r), NEW d, DecOK(r, d), Pseudo(r), NEW n, Len(Body(r)) = n
  PROVE  Fresh(d) /\ Finish(of, r, d, n, <<>>) /\ BodyLeft(r, d) = Body(r)
<1>1. Fresh(d)
  BY Unstarted DEF Pseudo, Nothing
<1>2. PieceCount(r) = 0
  BY DEF Pseudo, Nothing, PieceCount
<1>3. Finish(of, r, d, n, <<>>)
  BY <1>1, <1>2, Whole
<1>4. BodyLeft(r, d) = Body(r)
  BY <1>1, FreshIsOK
<1>. QED  BY <1>1, <1>3, <1>4

LEMMA PseudoSizes ==
  ASSUME NEW r, RectOK(r)
  PROVE  /\ Nothing(r) => Len(Body(r)) = 0
         /\ r.enc = "cursor" =>
              LET n == 4 * r.w * r.h + CeilDiv(r.w, 8) * r.h IN n \in Nat /\ Len(Body(r)) = n
         /\ r.enc = "vmwarecursor" =>
              LET n == (IF r.classic THEN 8 ELSE 4) * r.w * r.h
              IN n \in Nat /\ Len(Body(r)) = 2 + n /\ Starts(Body(r), "vmware")
         /\ r.enc = "name" => r.len \in Nat /\ Len(Body(r)) = 4 + r.len /\ Starts(Body(r), "length")
         /\ r.enc = "led" => Len(Body(r)) = 1 /\ Starts(Body(r), "led")
         /\ r.enc = "extsize" =>
              r.screens \in Nat /\ Len(Body(r)) = 4 + r.screens * 16 /\ Starts(Body(r), "screens")
<1>1. Nothing(r) => Len(Body(r)) = 0
  BY BodyIs, EmptyIsSeq
<1>2. ASSUME r.enc = "cursor"
      PROVE  LET n == 4 * r.w * r.h + CeilDiv(r.w, 8) * r.h IN n \in Nat /\ Len(Body(r)) = n
  <2>1. r.w \in Nat /\ r.h \in Nat
    BY <1>2 DEF RectOK
  <2>2. PICK c \in Nat : c = CeilDiv(r.w, 8)
    BY <2>1, CeilDivs
  <2>3. 4 * r.w \in Nat
    BY <2>1
  <2>4. PICK a \in Nat, b \in Nat : a = 4 * r.w * r.h /\ b = c * r.h
    BY <2>1, <2>3, Product
  <2>5. Body(r) = Glue(Plain("pixels", a), Plain("mask", b))
    BY <1>2, <2>2, <2>4, BodyIs
  <2>6. Len(Body(r)) = a + b
    BY <2>5, TwoFields
  <2>. QED  BY <2>2, <2>4, <2>6
<1>3. ASSUME r.enc = "vmwarecursor"
      PROVE  LET n == (IF r.classic THEN 8 ELSE 4) * r.w * r.h
             IN n \in Nat /\ Len(Body(r)) = 2 + n /\ Starts(Body(r), "vmware")
  <2>1. r.w \in Nat /\ r.h \in Nat
    BY <1>3 DEF RectOK
  <2>2. PICK c \in Nat : c = (IF r.classic THEN 8 ELSE 4)
    OBVIOUS
  <2>3. c * r.w \in Nat
    BY <2>1, Product
  <2>4. PICK a \in Nat : a = c * r.w * r.h
    BY <2>1, <2>3, Product
  <2>5. Body(r) = Glue(Plain("vmware", 2), Plain("pixels", a))
    BY <1>3, <2>2, <2>4, BodyIs
  <2>6. Len(Body(r)) = 2 + a
    BY <2>5, TwoFields
  <2>7. IsSeq(Plain("pixels", a))
    BY PlainSize
  <2>8. Starts(Body(r), "vmware")
    BY <2>5, <2>7, Headed
  <2>. QED  BY <2>2, <2>4, <2>6, <2>8
<1>4. ASSUME r.enc = "name"
      PROVE  r.len \in Nat /\ Len(Body(r)) = 4 + r.len /\ Starts(Body(r), "length")
  <2>1. r.len \in Nat
    BY <1>4 DEF RectOK
  <2>2. Body(r) = Glue(Plain("length", 4), Plain("name", r.len))
    BY <1>4, BodyIs
  <2>3. Len(Body(r)) = 4 + r.len
    BY <2>1, <2>2, TwoFields
  <2>4. IsSeq(Plain("name", r.len))
    BY <2>1, PlainSize
  <2>5. Starts(Body(r), "length")
    BY <2>2, <2>4, Headed
  <2>. QED  BY <2>1, <2>3, <2>5
<1>5. ASSUME r.enc = "led" PROVE Len(Body(r)) = 1 /\ Starts(Body(r), "led")
  <2>1. Body(r) = Plain("led", 1)
    BY <1>5, BodyIs
  <2>2. Starts(Plain("led", 1), "led")
    BY PlainStarts
  <2>3. Len(Plain("led", 1)) = 1
    BY PlainSize
  <2>. QED  BY <2>1, <2>2, <2>3
<1>6. ASSUME r.enc = "extsize"
      PROVE  r.screens \in Nat /\ Len(Body(r)) = 4 + r.screens * 16 /\ Starts(Body(r), "screens")
  <2>1. PICK n \in Nat : n = r.screens
    BY <1>6 DEF RectOK
  <2>2. PICK f, g, b : f = Plain("screens", 4) /\ g = Plain("screen", 16) /\ b = Repeat(g, n)
    OBVIOUS
  <2>3. IsSeq(f) /\ Len(f) = 4
    BY <2>2, PlainSize
  <2>4. IsSeq(g) /\ Len(g) = 16
    BY <2>2, PlainSize
  <2>5. IsSeq(b)
    BY <2>2, <2>4, RepeatFacts
  <2>6. PICK m \in Nat : m = 16 * n
    OBVIOUS
  <2>7. Len(b) = m
    BY <2>2, <2>4, <2>6, RepeatLength
  <2>8. Body(r) = Glue(f, b)
    BY <1>6, <2>1, <2>2, BodyIs
  <2>9. Len(Body(r)) = 4 + m
    <3>1. PICK k \in Nat : k = 4
      OBVIOUS
    <3>2. Len(f) = k
      BY <2>3, <3>1
    <3>3. Len(Glue(f, b)) = k + m
      BY <2>3, <2>5, <2>7, <3>2, GlueLength
    <3>. QED  BY <2>8, <3>1, <3>3
  <2>10. Starts(Body(r), "screens")
    BY <2>2, <2>5, <2>8, Headed
  <2>. QED  BY <2>1, <2>6, <2>9, <2>10
<1>. QED  BY <1>1, <1>2, <1>3, <1>4, <1>5, <1>6

=============================================================================
