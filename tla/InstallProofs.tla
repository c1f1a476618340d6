---------------------------- MODULE InstallProofs ----------------------------
(***************************************************************************)
(* What holds of GcInstall for any number of commands, releases and lines  *)
(* of others, whichever calls fail and whoever edits the crontab.          *)
(***************************************************************************)
EXTENDS GcInstall, SequenceTheorems, WellFoundedInduction, TLAPS

-----------------------------------------------------------------------------
(* Filters                                                                 *)

\* A set of numbers that is not empty has a least member.
LEMMA LeastNumber ==
  ASSUME NEW S \in SUBSET Nat, S # {}
  PROVE  \E n \in S : \A m \in S : ~ m < n
<1> DEFINE Less == {p \in Nat \X Nat : p[1] < p[2]}
<1>1. IsWellFoundedOn(Less, Nat)
  BY NatLessThanWellFounded DEF OpToRel
<1>2. \E n \in S : \A m \in S : ~ (<<m, n>> \in Less)
  <2> HIDE DEF Less
  <2> QED
    BY <1>1, WFMin
<1>3. \A n \in S, m \in S : m < n => <<m, n>> \in Less
  OBVIOUS
<1> QED
  BY <1>2, <1>3

\* Induction over the numbers, for a set: the theorems of the library take an
\* operator, which no prover here can be given.
LEMMA Counting ==
  ASSUME NEW S \in SUBSET Nat, 0 \in S, \A n \in S : n + 1 \in S
  PROVE  \A n \in Nat : n \in S
<1>1. SUFFICES ASSUME Nat \ S # {}
              PROVE  FALSE
  OBVIOUS
<1>2. PICK n \in Nat \ S : \A m \in Nat \ S : ~ m < n
  BY <1>1, LeastNumber
<1>3. n # 0 /\ n - 1 \in Nat /\ n - 1 < n /\ n = (n - 1) + 1
  BY <1>2
<1>4. n - 1 \in S
  BY <1>2, <1>3
<1> QED
  BY <1>2, <1>3, <1>4

\* Induction over sequences, for a set, one member at the end at a time.
LEMMA GrowSequences ==
  ASSUME NEW T, NEW P \in SUBSET Seq(T), <<>> \in P,
         \A s \in P, x \in T : Append(s, x) \in P
  PROVE  \A s \in Seq(T) : s \in P
<1> DEFINE N == {n \in Nat : \A s \in Seq(T) : Len(s) = n => s \in P}
<1>1. 0 \in N
  <2>1. \A s \in Seq(T) : Len(s) = 0 => s = <<>>
    BY EmptySeq
  <2> QED
    BY <2>1
<1>2. ASSUME NEW n \in N
      PROVE  n + 1 \in N
  <2>1. SUFFICES ASSUME NEW s \in Seq(T), Len(s) = n + 1
                 PROVE  s \in P
    OBVIOUS
  <2>2. s # <<>>
    BY <2>1, n \in Nat
  <2>3. PICK r \in Seq(T), x \in T : s = Append(r, x)
    BY <2>2, SequenceEmptyOrAppend
  <2>4. Len(r) = n
    BY <2>1, <2>3, n \in Nat
  <2>5. r \in P
    BY <2>4
  <2> QED
    BY <2>3, <2>5
<1>3. \A n \in Nat : n \in N
  <2> HIDE DEF N
  <2>1. N \in SUBSET Nat
    BY DEF N
  <2> QED
    BY <1>1, <1>2, <2>1, Counting
<1>4. TAKE s \in Seq(T)
<1>5. Len(s) \in N
  BY <1>3
<1> QED
  BY <1>5

\* f is what Only computes on the first n members of s.
KeptUpTo(S, s, n, f) ==
  f = [i \in 0 .. n |-> IF i = 0 THEN <<>>
                        ELSE IF s[i] \in S THEN Append(f[i - 1], s[i]) ELSE f[i - 1]]

\* The recursion in Only defines a function.
LEMMA KeptExists ==
  ASSUME NEW S, NEW s, NEW n \in Nat
  PROVE  \E f : KeptUpTo(S, s, n, f)
<1> DEFINE N == {k \in Nat : \E f : KeptUpTo(S, s, k, f)}
<1>1. 0 \in N
  <2>1. KeptUpTo(S, s, 0, [i \in 0 .. 0 |-> <<>>])
    BY DEF KeptUpTo
  <2> QED
    BY <2>1
<1>2. ASSUME NEW k \in N
      PROVE  k + 1 \in N
  <2>1. PICK f : KeptUpTo(S, s, k, f)
    OBVIOUS
  <2> DEFINE g == [i \in 0 .. k + 1 |->
                     IF i <= k THEN f[i]
                     ELSE IF s[i] \in S THEN Append(f[k], s[i]) ELSE f[k]]
  <2>2. \A i \in 0 .. k : f[i] = IF i = 0 THEN <<>>
                                 ELSE IF s[i] \in S THEN Append(f[i - 1], s[i])
                                      ELSE f[i - 1]
    BY <2>1 DEF KeptUpTo
  <2>3. \A i \in 0 .. k + 1 : g[i] = IF i = 0 THEN <<>>
                                     ELSE IF s[i] \in S THEN Append(g[i - 1], s[i])
                                          ELSE g[i - 1]
    <3>1. TAKE i \in 0 .. k + 1
    <3>2. CASE i <= k
      <4>1. i \in 0 .. k /\ (i # 0 => i - 1 \in 0 .. k)
        BY <3>2, k \in Nat
      <4>2. g[i] = f[i] /\ (i # 0 => g[i - 1] = f[i - 1])
        BY <3>2, <4>1, k \in Nat
      <4> QED
        BY <2>2, <4>1, <4>2
    <3>3. CASE i = k + 1
      <4>1. g[i] = IF s[i] \in S THEN Append(f[k], s[i]) ELSE f[k]
        BY <3>3, k \in Nat
      <4>2. g[i - 1] = f[k] /\ i # 0
        BY <3>3, k \in Nat
      <4> QED
        BY <4>1, <4>2
    <3> QED
      BY <3>2, <3>3, k \in Nat
  <2>4. KeptUpTo(S, s, k + 1, g)
    <3> DEFINE h == [i \in 0 .. k + 1 |-> IF i = 0 THEN <<>>
                        ELSE IF s[i] \in S THEN Append(g[i - 1], s[i]) ELSE g[i - 1]]
    <3>1. DOMAIN g = DOMAIN h /\ \A i \in 0 .. k + 1 : g[i] = h[i]
      <4> HIDE DEF g
      <4>1. \A i \in 0 .. k + 1 : g[i] = h[i]
        BY <2>3
      <4>2. DOMAIN g = 0 .. k + 1
        BY DEF g
      <4> QED
        BY <4>1, <4>2
    <3>2. g = h
      <4>1. g = [i \in DOMAIN g |-> g[i]] /\ h = [i \in DOMAIN h |-> h[i]] /\ DOMAIN h = 0 .. k + 1
        OBVIOUS
      <4> HIDE DEF g, h
      <4> QED
        BY <3>1, <4>1
    <3> HIDE DEF g
    <3> QED
      BY <3>2 DEF KeptUpTo
  <2> QED
    BY <2>4, k \in Nat
<1>3. N \in SUBSET Nat
  OBVIOUS
<1>4. n \in N
  <2> HIDE DEF N
  <2> QED
    BY <1>1, <1>2, <1>3, Counting
<1> QED
  BY <1>4

\* Two such functions agree as long as their sequences do.
LEMMA KeptAgree ==
  ASSUME NEW S, NEW s, NEW r, NEW m \in Nat, NEW n \in Nat, m <= n,
         \A i \in 1 .. m : r[i] = s[i],
         NEW f, NEW g, KeptUpTo(S, r, m, f), KeptUpTo(S, s, n, g)
  PROVE  f[m] = g[m]
<1> DEFINE N == {k \in Nat : k <= m => f[k] = g[k]}
<1>1. \A i \in 0 .. m : f[i] = IF i = 0 THEN <<>>
                               ELSE IF r[i] \in S THEN Append(f[i - 1], r[i]) ELSE f[i - 1]
  BY DEF KeptUpTo
<1>2. \A i \in 0 .. n : g[i] = IF i = 0 THEN <<>>
                               ELSE IF s[i] \in S THEN Append(g[i - 1], s[i]) ELSE g[i - 1]
  BY DEF KeptUpTo
<1>3. 0 \in N
  BY <1>1, <1>2
<1>4. ASSUME NEW k \in N, k + 1 <= m
      PROVE  f[k + 1] = g[k + 1]
  <2>1. k \in Nat /\ f[k] = g[k] /\ k + 1 \in 0 .. m /\ k + 1 \in 0 .. n /\ k + 1 \in 1 .. m
    BY <1>4
  <2>2. f[k + 1] = IF r[k + 1] \in S THEN Append(f[k], r[k + 1]) ELSE f[k]
    <3>1. k + 1 # 0 /\ (k + 1) - 1 = k
      BY <2>1
    <3> QED
      BY <1>1, <2>1, <3>1
  <2>3. g[k + 1] = IF s[k + 1] \in S THEN Append(g[k], s[k + 1]) ELSE g[k]
    <3>1. k + 1 # 0 /\ (k + 1) - 1 = k
      BY <2>1
    <3> QED
      BY <1>2, <2>1, <3>1
  <2>4. r[k + 1] = s[k + 1]
    BY <2>1
  <2> QED
    BY <2>1, <2>2, <2>3, <2>4
<1>5. \A k \in N : k + 1 \in N
  BY <1>4
<1>6. N \in SUBSET Nat
  OBVIOUS
<1>7. m \in N
  <2> HIDE DEF N
  <2> QED
    BY <1>3, <1>5, <1>6, Counting
<1> QED
  BY <1>7

\* Only takes the last value of one.
LEMMA OnlyIsKept ==
  ASSUME NEW S, NEW s, Len(s) \in Nat
  PROVE  \E f : KeptUpTo(S, s, Len(s), f) /\ Only(S, s) = f[Len(s)]
<1> DEFINE f == CHOOSE g : KeptUpTo(S, s, Len(s), g)
<1>1. KeptUpTo(S, s, Len(s), f)
  BY KeptExists
<1>2. Only(S, s) = f[Len(s)]
  BY DEF Only, KeptUpTo
<1> QED
  BY <1>1, <1>2

\* Nothing is kept of nothing.
LEMMA OnlyEmpty == ASSUME NEW S PROVE Only(S, <<>>) = <<>>
<1>1. Len(<<>>) = 0
  OBVIOUS
<1>2. PICK f : KeptUpTo(S, <<>>, 0, f) /\ Only(S, <<>>) = f[0]
  BY <1>1, OnlyIsKept
<1> QED
  BY <1>2 DEF KeptUpTo

\* Only, one member at a time.
LEMMA OnlyAppend ==
  ASSUME NEW T, NEW s \in Seq(T), NEW x \in T, NEW S
  PROVE  Only(S, Append(s, x)) = IF x \in S THEN Append(Only(S, s), x) ELSE Only(S, s)
<1> DEFINE n == Len(s)
           t == Append(s, x)
<1>1. n \in Nat /\ Len(t) = n + 1 /\ t[n + 1] = x /\ \A i \in 1 .. n : s[i] = t[i]
  BY AppendProperties, LenProperties
<1>2. PICK f : KeptUpTo(S, s, n, f) /\ Only(S, s) = f[n]
  BY <1>1, OnlyIsKept
<1> HIDE DEF n, t
<1>3. PICK g : KeptUpTo(S, t, n + 1, g) /\ Only(S, t) = g[n + 1]
  BY <1>1, OnlyIsKept
<1>4. f[n] = g[n]
  BY <1>1, <1>2, <1>3, KeptAgree
<1>5. g[n + 1] = IF t[n + 1] \in S THEN Append(g[n], t[n + 1]) ELSE g[n]
  <2>1. n + 1 \in 0 .. n + 1 /\ n + 1 # 0 /\ (n + 1) - 1 = n
    BY <1>1
  <2> QED
    BY <1>3, <2>1 DEF KeptUpTo
<1> QED
  BY <1>1, <1>2, <1>3, <1>4, <1>5 DEF t

\* Only returns members of both sets.
LEMMA OnlyType ==
  ASSUME NEW T, NEW s \in Seq(T), NEW S
  PROVE  Only(S, s) \in Seq(S \cap T)
<1> DEFINE P == {r \in Seq(T) : Only(S, r) \in Seq(S \cap T)}
<1>1. <<>> \in P
  <2>1. PICK e : e = <<>>
    OBVIOUS
  <2>2. Only(S, e) = e /\ e \in Seq(T) /\ e \in Seq(S \cap T)
    BY <2>1, OnlyEmpty
  <2>3. e \in P
    BY <2>2
  <2> QED
    BY <2>1, <2>3
<1>2. ASSUME NEW r \in P, NEW x \in T
      PROVE  Append(r, x) \in P
  <2>1. Only(S, Append(r, x)) = IF x \in S THEN Append(Only(S, r), x) ELSE Only(S, r)
    BY OnlyAppend
  <2>2. Append(r, x) \in Seq(T) /\ Only(S, r) \in Seq(S \cap T)
    OBVIOUS
  <2>3. x \in S => Append(Only(S, r), x) \in Seq(S \cap T)
    BY <2>2, AppendProperties
  <2> QED
    BY <2>1, <2>2, <2>3
<1> HIDE DEF P
<1>3. s \in P
  BY <1>1, <1>2, GrowSequences DEF P
<1> QED
  BY <1>3 DEF P

\* Only returns nothing of a sequence without such members.
LEMMA OnlyNone ==
  ASSUME NEW T, NEW s \in Seq(T), NEW S, S \cap T = {}
  PROVE  Only(S, s) = <<>>
<1>1. Only(S, s) \in Seq({})
  BY OnlyType
<1> QED
  BY <1>1

\* Only of two sequences, one after the other.
LEMMA OnlyConcat ==
  ASSUME NEW T, NEW s \in Seq(T), NEW r \in Seq(T), NEW S
  PROVE  Only(S, s \o r) = Only(S, s) \o Only(S, r)
<1> DEFINE P == {q \in Seq(T) : Only(S, s \o q) = Only(S, s) \o Only(S, q)}
<1>1. Only(S, s) \in Seq(T)
  <2>1. Only(S, s) \in Seq(S \cap T)
    BY OnlyType
  <2> QED
    BY <2>1, SeqMonotonic
<1>2. <<>> \in P
  <2>1. PICK e : e = <<>>
    OBVIOUS
  <2>2. s \o e = s /\ Only(S, s) \o e = Only(S, s) /\ e \in Seq(T)
    BY <1>1, <2>1, ConcatEmptySeq
  <2>3. Only(S, e) = e
    BY <2>1, OnlyEmpty
  <2>4. Only(S, s \o e) = Only(S, s) \o Only(S, e)
    BY <2>2, <2>3, Zenon
  <2> QED
    BY <2>1, <2>2, <2>4
<1>3. ASSUME NEW q \in P, NEW x \in T
      PROVE  Append(q, x) \in P
  <2>1. Only(S, Append(q, x)) = IF x \in S THEN Append(Only(S, q), x) ELSE Only(S, q)
    BY OnlyAppend
  <2>2. s \o q \in Seq(T) /\ Append(q, x) \in Seq(T) /\ s \o Append(q, x) = Append(s \o q, x)
    OBVIOUS
  <2>3. Only(S, Append(s \o q, x)) = IF x \in S THEN Append(Only(S, s \o q), x) ELSE Only(S, s \o q)
    BY <2>2, OnlyAppend
  <2>4. Only(S, q) \in Seq(T)
    <3>1. Only(S, q) \in Seq(S \cap T)
      BY OnlyType
    <3> QED
      BY <3>1, SeqMonotonic
  <2>5. Only(S, s) \o Append(Only(S, q), x) = Append(Only(S, s) \o Only(S, q), x)
    BY <1>1, <2>4
  <2>6. Only(S, s \o q) = Only(S, s) \o Only(S, q)
    OBVIOUS
  <2> QED
    BY <2>1, <2>2, <2>3, <2>5, <2>6
<1> HIDE DEF P
<1>4. r \in P
  BY <1>2, <1>3, GrowSequences DEF P
<1> QED
  BY <1>4 DEF P

\* Filtering twice is filtering once.
LEMMA OnlyOfOnly ==
  ASSUME NEW T, NEW s \in Seq(T), NEW S
  PROVE  Only(S, Only(S, s)) = Only(S, s)
<1> DEFINE P == {q \in Seq(T) : Only(S, Only(S, q)) = Only(S, q)}
<1>1. <<>> \in P
  <2>1. Only(S, <<>>) = <<>> /\ <<>> \in Seq(T)
    BY OnlyEmpty
  <2>2. Only(S, Only(S, <<>>)) = Only(S, <<>>)
    BY <2>1
  <2> QED
    BY <2>1, <2>2
<1>2. ASSUME NEW q \in P, NEW x \in T
      PROVE  Append(q, x) \in P
  <2>1. Only(S, Append(q, x)) = IF x \in S THEN Append(Only(S, q), x) ELSE Only(S, q)
    BY OnlyAppend
  <2>2. Append(q, x) \in Seq(T) /\ Only(S, q) \in Seq(T) /\ Only(S, Only(S, q)) = Only(S, q)
    <3>1. Only(S, q) \in Seq(S \cap T)
      BY OnlyType
    <3> QED
      BY <3>1, SeqMonotonic
  <2>3. CASE x \in S
    <3>1. Only(S, Append(Only(S, q), x)) = Append(Only(S, q), x)
      BY <2>2, <2>3, OnlyAppend
    <3> QED
      BY <2>1, <2>2, <2>3, <3>1
  <2>4. CASE x \notin S
    BY <2>1, <2>2, <2>4
  <2> QED
    BY <2>3, <2>4
<1> HIDE DEF P
<1>3. s \in P
  BY <1>1, <1>2, GrowSequences DEF P
<1> QED
  BY <1>3 DEF P

-----------------------------------------------------------------------------
(* Crontabs                                                                *)

\* What there may be of root's crontab.
Crontabs == Seq(Line) \cup {None}

\* Own lines and those of others are all there is, and are apart.
LEMMA LineSets == /\ OthersLine \subseteq Line /\ OwnLine \subseteq Line
                  /\ OthersLine \cap OwnLine = {} /\ Line \ OwnLine = OthersLine
                  /\ UserLine \subseteq OthersLine /\ Torn \in OthersLine
                  /\ None \notin Seq(Line)
<1>1. Line = UserLine \cup OwnLine \cup {Torn}
  BY DEF Line, OthersLine
<1>2. None \notin Seq(Line)
  BY <1>1, InstallAssumption
<1> QED
  BY <1>2, InstallAssumption DEF Line, OthersLine

\* The lines of a crontab are lines.
LEMMA LinesType == ASSUME NEW c \in Crontabs PROVE Lines(c) \in Seq(Line)
  BY DEF Crontabs, Lines

\* A crontab that is there is its lines.
LEMMA LinesOfSeq == ASSUME NEW s \in Seq(Line) PROVE Lines(s) = s
  BY LineSets DEF Lines

\* The collector's block is two own lines.
LEMMA BlockType ==
  ASSUME NEW auto
  PROVE  Block(auto) \in Seq(OwnLine) /\ Block(auto) # <<>>
  BY DEF Block, OwnLine

\* All of the block is own, nothing of it others'.
LEMMA OnlyOfBlock ==
  ASSUME NEW auto
  PROVE  /\ Block(auto) \in Seq(Line)
         /\ Only(OwnLine, Block(auto)) = Block(auto)
         /\ Only(OthersLine, Block(auto)) = <<>>
<1> DEFINE l == IF auto THEN "line-auto" ELSE "line"
<1>1. l \in OwnLine /\ "marker" \in OwnLine
  BY DEF OwnLine
<1> HIDE DEF l
<1>2. PICK e : e = <<>>
  OBVIOUS
<1>3. e \in Seq(OwnLine) /\ Append(e, "marker") \in Seq(OwnLine)
  BY <1>1, <1>2
<1>4. Block(auto) = Append(Append(e, "marker"), l)
  BY <1>2 DEF Block, l
<1>5. Only(OwnLine, e) = e
  BY <1>2, OnlyEmpty
<1>6. Only(OwnLine, Append(e, "marker")) = Append(e, "marker")
  BY <1>1, <1>3, <1>5, OnlyAppend
<1>7. Only(OwnLine, Append(Append(e, "marker"), l)) = Append(Append(e, "marker"), l)
  BY <1>1, <1>3, <1>6, OnlyAppend
<1>8. Block(auto) \in Seq(OwnLine)
  BY BlockType
<1>9. Only(OthersLine, Block(auto)) = <<>>
  BY <1>8, OnlyNone, LineSets
<1>10. Block(auto) \in Seq(Line)
  BY <1>8, LineSets, SeqMonotonic
<1> QED
  BY <1>4, <1>7, <1>9, <1>10

\* Tearing lines, one at a time.
LEMMA TearAppend ==
  ASSUME NEW S, NEW s \in Seq(Line), NEW x \in Line
  PROVE  Tear(S, Append(s, x)) = Append(Tear(S, s), IF x \in S THEN Torn ELSE x)
<1> DEFINE y == IF x \in S THEN Torn ELSE x
           l == Tear(S, Append(s, x))
           t == Tear(S, s)
<1>1. y \in Line
  BY LineSets
<1>2. t \in Seq(Line) /\ Len(t) = Len(s) /\ \A i \in 1 .. Len(s) : t[i] = IF s[i] \in S THEN Torn ELSE s[i]
  BY LineSets DEF Tear
<1>3. /\ Append(s, x) \in Seq(Line) /\ Len(Append(s, x)) = Len(s) + 1
      /\ Append(s, x)[Len(s) + 1] = x
      /\ \A i \in 1 .. Len(s) : Append(s, x)[i] = s[i]
  BY AppendProperties
<1>4. /\ l \in Seq(Line) /\ Len(l) = Len(s) + 1
      /\ \A i \in 1 .. Len(s) + 1 : l[i] = IF Append(s, x)[i] \in S THEN Torn ELSE Append(s, x)[i]
  BY <1>3, LineSets DEF Tear
<1> HIDE DEF y, l, t
<1>5. Append(t, y) \in Seq(Line) /\ Len(Append(t, y)) = Len(s) + 1
      /\ Append(t, y)[Len(s) + 1] = y
      /\ \A i \in 1 .. Len(s) : Append(t, y)[i] = t[i]
  BY <1>1, <1>2, AppendProperties
<1>6. Len(s) \in Nat
  OBVIOUS
<1>7. \A i \in 1 .. Len(s) + 1 : l[i] = Append(t, y)[i]
  <2>1. ASSUME NEW i \in 1 .. Len(s)
        PROVE  l[i] = Append(t, y)[i]
    BY <1>2, <1>3, <1>4, <1>5, <2>1
  <2>2. l[Len(s) + 1] = y
    BY <1>3, <1>4, <1>6 DEF y
  <2> QED
    BY <1>5, <1>6, <2>1, <2>2
<1>8. l = Append(t, y)
  BY <1>4, <1>5, <1>7, SeqEqual
<1> QED
  BY <1>8 DEF l, t, y

\* Nothing torn is nothing.
LEMMA TearEmpty == ASSUME NEW S PROVE Tear(S, <<>>) = <<>>
  BY DEF Tear

\* Tearing lines of others keeps the own ones, and as many of others in their order.
LEMMA TearKeeps ==
  ASSUME NEW S \in SUBSET UserLine, NEW s \in Seq(Line)
  PROVE  /\ Tear(S, s) \in Seq(Line)
         /\ Only(OwnLine, Tear(S, s)) = Only(OwnLine, s)
         /\ Only(OthersLine, Tear(S, s)) = Tear(S, Only(OthersLine, s))
<1>1. Tear(S, s) \in Seq(Line)
  BY LineSets DEF Tear
<1> DEFINE P == {q \in Seq(Line) :
                   /\ Only(OwnLine, Tear(S, q)) = Only(OwnLine, q)
                   /\ Only(OthersLine, Tear(S, q)) = Tear(S, Only(OthersLine, q))}
<1>2. <<>> \in P
  <2>1. PICK e : e = <<>>
    OBVIOUS
  <2>2. Tear(S, e) = e /\ Only(OwnLine, e) = e /\ Only(OthersLine, e) = e
    BY <2>1, TearEmpty, OnlyEmpty
  <2>3. e \in Seq(Line)
    BY <2>1
  <2> QED
    BY <2>1, <2>2, <2>3
<1>3. ASSUME NEW q \in P, NEW x \in Line
      PROVE  Append(q, x) \in P
  <2> DEFINE t == Tear(S, q)
             y == IF x \in S THEN Torn ELSE x
  <2>1. t \in Seq(Line) /\ y \in Line
    BY LineSets DEF Tear
  <2>2. Tear(S, Append(q, x)) = Append(t, y)
    BY TearAppend
  <2>3. /\ y \in OwnLine <=> x \in OwnLine
        /\ y \in OthersLine <=> x \in OthersLine
        /\ x \in OwnLine => y = x
    BY LineSets
  <2>4. Only(OwnLine, t) = Only(OwnLine, q) /\ Only(OthersLine, t) = Tear(S, Only(OthersLine, q))
    OBVIOUS
  <2> HIDE DEF t
  <2>5. /\ Only(OwnLine, Append(t, y))
               = IF y \in OwnLine THEN Append(Only(OwnLine, t), y) ELSE Only(OwnLine, t)
        /\ Only(OthersLine, Append(t, y))
               = IF y \in OthersLine THEN Append(Only(OthersLine, t), y) ELSE Only(OthersLine, t)
    <3> HIDE DEF y
    <3> QED
      BY <2>1, OnlyAppend
  <2>6. /\ Only(OwnLine, Append(q, x))
               = IF x \in OwnLine THEN Append(Only(OwnLine, q), x) ELSE Only(OwnLine, q)
        /\ Only(OthersLine, Append(q, x))
               = IF x \in OthersLine THEN Append(Only(OthersLine, q), x) ELSE Only(OthersLine, q)
    BY OnlyAppend
  <2>7. Only(OthersLine, q) \in Seq(Line)
    <3>1. Only(OthersLine, q) \in Seq(OthersLine \cap Line)
      BY OnlyType
    <3> QED
      BY <3>1, SeqMonotonic
  <2>8. Tear(S, Append(Only(OthersLine, q), x)) = Append(Tear(S, Only(OthersLine, q)), y)
    BY <2>7, TearAppend
  <2> HIDE DEF y
  <2>9. Only(OwnLine, Append(t, y)) = Only(OwnLine, Append(q, x))
    BY <2>3, <2>4, <2>5, <2>6
  <2>10. Only(OthersLine, Append(t, y)) = Tear(S, Only(OthersLine, Append(q, x)))
    BY <2>3, <2>4, <2>5, <2>6, <2>8
  <2>11. Append(q, x) \in Seq(Line)
    BY AppendProperties
  <2> QED
    BY <2>2, <2>9, <2>10, <2>11, Zenon
<1> HIDE DEF P
<1>4. s \in P
  BY <1>2, <1>3, GrowSequences DEF P
<1> QED
  BY <1>1, <1>4 DEF P

\* What a rewrite may tear no longer matters once it is torn.
LEMMA RewrittenOnce ==
  ASSUME NEW S \in SUBSET (Foreign \cup Broken), NEW s \in Seq(Line)
  PROVE  Rewritten(Tear(S, s)) = Rewritten(s)
<1>1. Torn \notin Foreign \cup Broken
  BY InstallAssumption
<1> QED
  BY <1>1 DEF Rewritten, Tear

\* _strip_own_block leaves the lines of others, all of them and nothing else.
LEMMA StrippedIsUsers ==
  ASSUME NEW c \in Seq(Line)
  PROVE  /\ Stripped(c) = Only(OthersLine, c)
         /\ Stripped(c) \in Seq(OthersLine) /\ Stripped(c) \in Seq(Line)
         /\ Only(OthersLine, Stripped(c)) = Only(OthersLine, c)
         /\ Only(OwnLine, Stripped(c)) = <<>>
<1>1. Stripped(c) = Only(OthersLine, c)
  BY LineSets DEF Stripped
<1>2. OthersLine \cap Line = OthersLine
  BY LineSets
<1>3. Stripped(c) \in Seq(OthersLine)
  BY <1>1, <1>2, OnlyType
<1>4. Stripped(c) \in Seq(Line)
  BY <1>3, LineSets, SeqMonotonic
<1>5. Only(OthersLine, Stripped(c)) = Only(OthersLine, c)
  BY <1>1, OnlyOfOnly
<1>6. Only(OwnLine, Stripped(c)) = <<>>
  BY <1>3, OnlyNone, LineSets
<1> QED
  BY <1>1, <1>3, <1>4, <1>5, <1>6

\* _ensure_crontab keeps the lines of others and leaves exactly one block.
LEMMA WithBlock ==
  ASSUME NEW c \in Seq(Line), NEW auto
  PROVE  /\ Stripped(c) \o Block(auto) \in Seq(Line)
         /\ Only(OthersLine, Stripped(c) \o Block(auto)) = Only(OthersLine, c)
         /\ Only(OwnLine, Stripped(c) \o Block(auto)) = Block(auto)
<1>1. Stripped(c) \in Seq(Line) /\ Block(auto) \in Seq(Line)
  BY StrippedIsUsers, OnlyOfBlock
<1>2. Stripped(c) \o Block(auto) \in Seq(Line)
  BY <1>1, ConcatProperties
<1>3. Only(OthersLine, Stripped(c) \o Block(auto)) = Only(OthersLine, c) \o <<>>
  <2>1. Only(OthersLine, Stripped(c) \o Block(auto))
          = Only(OthersLine, Stripped(c)) \o Only(OthersLine, Block(auto))
    BY <1>1, OnlyConcat
  <2> QED
    BY <2>1, StrippedIsUsers, OnlyOfBlock
<1>4. Only(OwnLine, Stripped(c) \o Block(auto)) = <<>> \o Block(auto)
  <2>1. Only(OwnLine, Stripped(c) \o Block(auto))
          = Only(OwnLine, Stripped(c)) \o Only(OwnLine, Block(auto))
    BY <1>1, OnlyConcat
  <2> QED
    BY <2>1, StrippedIsUsers, OnlyOfBlock
<1>5. Only(OthersLine, c) \in Seq(OthersLine \cap Line)
  BY OnlyType
<1> QED
  BY <1>1, <1>2, <1>3, <1>4, <1>5, ConcatEmptySeq

\* _text keeps the own lines, and as many of others in their order.
LEMMA DecodedCrontab ==
  ASSUME NEW c \in Crontabs
  PROVE  /\ Decoded(c) \in Crontabs
         /\ Rewritten(Users(Decoded(c))) = Rewritten(Users(c))
         /\ Owns(Decoded(c)) = Owns(c)
<1>1. CASE c = None
  BY <1>1 DEF Decoded
<1>2. CASE c # None
  <2>1. c \in Seq(Line) /\ Decoded(c) = Tear(Foreign, c)
    BY <1>2 DEF Crontabs, Decoded
  <2>2. Foreign \in SUBSET UserLine /\ Foreign \in SUBSET (Foreign \cup Broken)
    BY InstallAssumption
  <2>3. /\ Decoded(c) \in Seq(Line) /\ Only(OwnLine, Decoded(c)) = Only(OwnLine, c)
        /\ Only(OthersLine, Decoded(c)) = Tear(Foreign, Only(OthersLine, c))
    BY <2>1, <2>2, TearKeeps
  <2>4. Only(OthersLine, c) \in Seq(Line)
    <3>1. Only(OthersLine, c) \in Seq(OthersLine \cap Line)
      BY <2>1, OnlyType
    <3> QED
      BY <3>1, SeqMonotonic
  <2>5. Rewritten(Only(OthersLine, Decoded(c))) = Rewritten(Only(OthersLine, c))
    BY <2>2, <2>3, <2>4, RewrittenOnce
  <2>6. Lines(Decoded(c)) = Decoded(c) /\ Lines(c) = c
    BY <2>1, <2>3, LinesOfSeq
  <2> QED
    BY <2>3, <2>5, <2>6 DEF Users, Owns, Crontabs
<1> QED
  BY <1>1, <1>2

\* What install and uninstall write: the lines of others as they were, but for what
\* splitlines() tears, and of the own ones the block or none.
LEMMA DesiredCrontab ==
  ASSUME NEW p, p.cmd \in {"install", "uninstall"}, NEW c \in Crontabs
  PROVE  /\ Desired(p, c) \in Crontabs /\ Desired(p, c) # None
         /\ Rewritten(Users(Desired(p, c))) = Rewritten(Users(c))
         /\ Owns(Desired(p, c)) = IF p.cmd = "install" THEN Block(p.auto) ELSE <<>>
<1> DEFINE l == Lines(c)
           t == SplitLines(l)
<1>1. l \in Seq(Line)
  BY LinesType
<1>2. Broken \in SUBSET UserLine /\ Broken \in SUBSET (Foreign \cup Broken)
  BY InstallAssumption
<1>3. t \in Seq(Line) /\ Only(OthersLine, t) = Tear(Broken, Only(OthersLine, l))
  BY <1>1, <1>2, TearKeeps DEF SplitLines
<1>4. Only(OthersLine, l) \in Seq(Line)
  <2>1. Only(OthersLine, l) \in Seq(OthersLine \cap Line)
    BY <1>1, OnlyType
  <2> QED
    BY <2>1, SeqMonotonic
<1>5. Rewritten(Only(OthersLine, t)) = Rewritten(Users(c))
  BY <1>2, <1>3, <1>4, RewrittenOnce DEF Users
<1> HIDE DEF l
<1>6. CASE p.cmd = "install"
  <2>1. Desired(p, c) = Stripped(t) \o Block(p.auto)
    BY <1>6 DEF Desired, l
  <2> HIDE DEF t
  <2>2. /\ Desired(p, c) \in Seq(Line)
        /\ Only(OthersLine, Desired(p, c)) = Only(OthersLine, t)
        /\ Only(OwnLine, Desired(p, c)) = Block(p.auto)
    BY <1>3, <2>1, WithBlock
  <2>3. Lines(Desired(p, c)) = Desired(p, c) /\ Desired(p, c) # None
    BY <2>2, LinesOfSeq, LineSets
  <2> QED
    BY <1>5, <1>6, <2>2, <2>3 DEF Users, Owns, Crontabs
<1>7. CASE p.cmd = "uninstall"
  <2>1. PICK e : e = <<>>
    OBVIOUS
  <2>2. Desired(p, c) = Stripped(t) \o e
    BY <1>7, <2>1 DEF Desired, l
  <2> HIDE DEF t
  <2>3. Stripped(t) \in Seq(Line) /\ Only(OthersLine, Stripped(t)) = Only(OthersLine, t)
        /\ Only(OwnLine, Stripped(t)) = <<>>
    BY <1>3, StrippedIsUsers
  <2>4. Desired(p, c) = Stripped(t)
    BY <2>1, <2>2, <2>3, ConcatEmptySeq
  <2>5. Lines(Desired(p, c)) = Desired(p, c) /\ Desired(p, c) # None
    BY <2>3, <2>4, LinesOfSeq, LineSets
  <2> QED
    BY <1>5, <1>7, <2>3, <2>4, <2>5 DEF Users, Owns, Crontabs
<1> QED
  BY <1>6, <1>7

\* An edit by others keeps the own lines, in their order.
LEMMA EditKeepsBlock ==
  ASSUME crontab \in Crontabs, EditCrontab
  PROVE  crontab' \in Seq(Line) /\ Owns(crontab') = Owns(crontab)
<1> DEFINE c == Lines(crontab)
<1>1. c \in Seq(Line)
  BY LinesType
<1>2. CASE \E u \in UserLine : crontab' = Append(Lines(crontab), u)
  <2>1. PICK u \in UserLine : crontab' = Append(c, u)
    BY <1>2
  <2>2. u \in Line /\ u \notin OwnLine
    BY LineSets
  <2> HIDE DEF c
  <2>3. crontab' \in Seq(Line)
    BY <1>1, <2>1, <2>2
  <2>4. Only(OwnLine, crontab') = Only(OwnLine, c)
    BY <1>1, <2>1, <2>2, OnlyAppend
  <2> QED
    BY <2>3, <2>4, LinesOfSeq DEF Owns, c
<1>3. CASE \E i \in DOMAIN Lines(crontab) :
             crontab[i] \in OthersLine /\ crontab' = RemoveAt(crontab, i)
  <2>1. PICK i \in DOMAIN c : crontab[i] \in OthersLine /\ crontab' = RemoveAt(crontab, i)
    BY <1>3
  <2>2. crontab # None
    BY <2>1 DEF Lines
  <2>3. c = crontab
    BY <2>2 DEF Lines
  <2> HIDE DEF c
  <2> DEFINE n == Len(c)
             r == SubSeq(c, 1, i - 1)
             s == SubSeq(c, i + 1, n)
             u == c[i]
  <2>4. n \in Nat /\ i \in 1 .. n /\ u \in OthersLine
    BY <1>1, <2>1, <2>3
  <2>5. r \in Seq(Line) /\ s \in Seq(Line)
    <3>1. \A j \in 1 .. n : c[j] \in Line
      BY <1>1
    <3> QED
      BY <1>1, <2>4, <3>1, SubSeqProperties
  <2>6. u \in Line /\ u \notin OwnLine
    BY <2>4, LineSets
  <2>7. c = Append(r, u) \o s
    <3>1. SubSeq(c, 1, i) = Append(r, u)
      BY <1>1, <2>4
    <3>2. c = SubSeq(c, 1, n)
      BY <1>1, SubSeqFull
    <3>3. SubSeq(c, 1, i) \o SubSeq(c, i + 1, n) = SubSeq(c, 1, n)
      <4>1. Len(c) \in Nat /\ i \in 1 .. Len(c)
        BY <1>1, <2>4
      <4>2. 1 \in 1 .. Len(c) + 1 /\ i \in 1 - 1 .. Len(c) /\ Len(c) \in i .. Len(c)
        BY <4>1
      <4> QED
        BY <1>1, <4>2, ConcatAdjacentSubSeq
    <3> QED
      BY <3>1, <3>2, <3>3
  <2>8. crontab' = r \o s
    BY <2>1, <2>3 DEF RemoveAt
  <2> HIDE DEF n, r, s, u
  <2>9. Append(r, u) \in Seq(Line) /\ r \o s \in Seq(Line)
    BY <2>5, <2>6
  <2>10. Only(OwnLine, c) = Only(OwnLine, Append(r, u)) \o Only(OwnLine, s)
    BY <2>5, <2>7, <2>9, OnlyConcat
  <2>11. Only(OwnLine, Append(r, u)) = Only(OwnLine, r)
    BY <2>5, <2>6, OnlyAppend
  <2>12. Only(OwnLine, crontab') = Only(OwnLine, r) \o Only(OwnLine, s)
    BY <2>5, <2>8, OnlyConcat
  <2>13. crontab' \in Seq(Line)
    BY <2>8, <2>9
  <2> QED
    BY <2>3, <2>10, <2>11, <2>12, <2>13, LinesOfSeq DEF Owns, c
<1> QED
  BY <1>2, <1>3 DEF EditCrontab

-----------------------------------------------------------------------------
(* Types                                                                   *)

\* Where a command can be.
Calls == {"idle", "look", "tee", "copy", "sweep", "dir", "list", "write", "remove"}

\* A command that has ended is one.
LEMMA IdleType ==
  ASSUME NEW o \in {"none", "ok", "failed"}
  PROVE  [Idle EXCEPT !.outcome = o] \in Commands /\ Idle \in Commands
  BY DEF Idle, Commands

\* Steps of one command keep the types and leave the other commands alone.
LEMMA SetType ==
  ASSUME InstTypeOK, NEW a \in Admin, NEW r \in Commands, proc' = [proc EXCEPT ![a] = r]
  PROVE  /\ proc' \in [Admin -> Commands] /\ proc'[a] = r
         /\ \A b \in Admin : b # a => proc'[b] = proc[b]
  BY DEF InstTypeOK

\* Goto moves one command on and leaves the others alone.
LEMMA GotoType ==
  ASSUME InstTypeOK, NEW a \in Admin, NEW pc \in Calls, Goto(a, pc)
  PROVE  /\ proc' \in [Admin -> Commands] /\ proc'[a] = [proc[a] EXCEPT !.pc = pc]
         /\ \A b \in Admin : b # a => proc'[b] = proc[b]
<1>1. [proc[a] EXCEPT !.pc = pc] \in Commands
  BY DEF InstTypeOK, Commands, Calls
<1>2. proc' = [proc EXCEPT ![a] = [proc[a] EXCEPT !.pc = pc]]
  BY DEF Goto
<1> QED
  BY <1>1, <1>2, SetType

\* End ends one command and leaves the others alone.
LEMMA EndType ==
  ASSUME InstTypeOK, NEW a \in Admin, NEW o \in {"none", "ok", "failed"}, End(a, o)
  PROVE  /\ proc' \in [Admin -> Commands] /\ proc'[a] = [Idle EXCEPT !.outcome = o]
         /\ \A b \in Admin : b # a => proc'[b] = proc[b]
<1>1. [Idle EXCEPT !.outcome = o] \in Commands
  BY IdleType
<1> QED
  BY <1>1, SetType DEF End

\* The number of faults stays within its bound.
LEMMA FaultType == ASSUME InstTypeOK, Fault PROVE faults' \in 0 .. MaxFaults
  BY InstallAssumption DEF InstTypeOK, Fault

\* Call changes x to y, to x or to y without an answer, and nothing else.
LEMMA CallType ==
  ASSUME InstTypeOK, NEW a \in Admin, NEW pc \in Calls, NEW T,
         NEW x \in T, NEW y \in T, NEW xn, Call(a, x, xn, y, pc)
  PROVE  /\ xn \in T /\ proc' \in [Admin -> Commands] /\ faults' \in 0 .. MaxFaults
         /\ \A b \in Admin : b # a => proc'[b] = proc[b]
         /\ \/ xn = y /\ proc'[a] = [proc[a] EXCEPT !.pc = pc]
            \/ xn \in {x, y} /\ proc'[a] = [Idle EXCEPT !.outcome = "failed"]
<1>1. CASE xn = y /\ Goto(a, pc) /\ UNCHANGED faults
  BY <1>1, GotoType DEF InstTypeOK
<1>2. CASE Fault /\ xn \in {x, y} /\ End(a, "failed")
  BY <1>2, EndType, FaultType
<1> QED
  BY <1>1, <1>2 DEF Call

\* Read: the answer, no answer, or "there is none" in error, which it owns up to.
LEMMA ReadType ==
  ASSUME InstTypeOK, NEW a \in Admin, NEW is, NEW seen \in Commands, NEW blank \in Commands,
         Read(a, is, seen, blank)
  PROVE  /\ proc' \in [Admin -> Commands] /\ faults' \in 0 .. MaxFaults
         /\ spoilt' \subseteq {"unread", "overlap", "edit"} /\ spoilt \subseteq spoilt'
         /\ \A b \in Admin : b # a => proc'[b] = proc[b]
         /\ \/ proc'[a] = seen /\ spoilt' = spoilt
            \/ proc'[a] = [Idle EXCEPT !.outcome = "failed"] /\ spoilt' = spoilt
            \/ proc'[a] = blank /\ spoilt' = spoilt /\ is = None
            \/ proc'[a] = blank /\ "unread" \in spoilt'
<1>1. spoilt \subseteq {"unread", "overlap", "edit"} /\ faults \in 0 .. MaxFaults
  BY DEF InstTypeOK
<1>2. CASE proc' = [proc EXCEPT ![a] = seen] /\ UNCHANGED <<faults, spoilt>>
  BY <1>1, <1>2, SetType
<1>3. CASE Fault /\ End(a, "failed") /\ UNCHANGED spoilt
  BY <1>1, <1>3, EndType, FaultType
<1>4. CASE Fault /\ proc' = [proc EXCEPT ![a] = blank]
           /\ spoilt' = IF is = None THEN spoilt ELSE spoilt \cup {"unread"}
  BY <1>1, <1>4, SetType, FaultType
<1> QED
  BY <1>2, <1>3, <1>4 DEF Read

\* A command that begins is well typed.
LEMMA BeginType ==
  ASSUME InstTypeOK, NEW a \in Admin, NEW p \in Commands, Begin(a, p)
  PROVE  /\ InstTypeOK' /\ proc'[a] = p
         /\ \A b \in Admin : b # a => proc'[b] = proc[b]
<1>1. spoilt \subseteq {"unread", "overlap", "edit"}
  BY DEF InstTypeOK
<1>2. spoilt' \subseteq {"unread", "overlap", "edit"}
  BY <1>1 DEF Begin
<1>3. proc' \in [Admin -> Commands] /\ proc'[a] = p
      /\ \A b \in Admin : b # a => proc'[b] = proc[b]
  BY SetType DEF Begin
<1> QED
  BY <1>2, <1>3 DEF InstTypeOK, Begin

\* Both commands begin well typed.
LEMMA BeginnersType ==
  /\ \A v \in Version, auto \in BOOLEAN :
       [Idle EXCEPT !.pc = "look", !.version = v, !.auto = auto] \in Commands
  /\ [Idle EXCEPT !.cmd = "uninstall", !.pc = "list"] \in Commands
  BY DEF Idle, Commands

\* The two commands as they begin.
InstallerOf(v, auto) == [Idle EXCEPT !.pc = "look", !.version = v, !.auto = auto]
Uninstaller == [Idle EXCEPT !.cmd = "uninstall", !.pc = "list"]

\* What Look and ListCrontab make of what they read.
LookSeen(p, s) ==
  IF p.cmd = "uninstall" THEN [p EXCEPT !.found = s, !.pc = "remove"]
  ELSE [p EXCEPT !.pc = IF s = p.version THEN "dir" ELSE "tee"]
ListSeen(p, c) ==
  IF ~ Content(p, c) THEN [p EXCEPT !.read = c, !.pc = "write"]
  ELSE IF p.cmd = "install" THEN [Idle EXCEPT !.outcome = "ok"]
  ELSE [p EXCEPT !.pc = "look"]

\* Both lead on to commands.
LEMMA LookSeenType ==
  ASSUME NEW p \in Commands, NEW s \in Version \cup {None, Partial}
  PROVE  LookSeen(p, s) \in Commands
  BY DEF LookSeen, Commands

\* Both lead on to commands.
LEMMA ListSeenType ==
  ASSUME NEW p \in Commands, NEW c \in Crontabs
  PROVE  ListSeen(p, c) \in Commands
<1>1. [p EXCEPT !.read = c, !.pc = "write"] \in Commands
  BY DEF Commands, Crontabs
<1>2. [p EXCEPT !.pc = "look"] \in Commands
  BY DEF Commands
<1>3. [Idle EXCEPT !.outcome = "ok"] \in Commands
  BY IdleType
<1> QED
  BY <1>1, <1>2, <1>3 DEF ListSeen

\* What there may be of the script at either path.
Copies == Version \cup {None, Partial}

\* The initial states are well typed.
LEMMA TypeInit == IInit => InstTypeOK
<1>1. SUFFICES ASSUME IInit PROVE InstTypeOK
  OBVIOUS
<1>2. users \in Seq(OthersLine)
  <2>1. <<>> \in Seq(OthersLine) /\ \A u \in UserLine : <<u>> \in Seq(OthersLine)
    BY LineSets
  <2> QED
    BY <1>1, <2>1, Zenon DEF IInit
<1>3. users \in Seq(Line)
  BY <1>2, LineSets, SeqMonotonic
<1>4. Block(FALSE) \in Seq(Line) /\ Block(TRUE) \in Seq(Line)
  BY OnlyOfBlock
<1>5. Block(FALSE) \o users \in Seq(Line)
  BY <1>3, <1>4, ConcatProperties
<1>6. Block(FALSE) \o users \o Block(TRUE) \in Seq(Line)
  BY <1>4, <1>5, ConcatProperties
<1>7. crontab \in Seq(Line) \cup {None}
  BY <1>1, <1>3, <1>5, <1>6 DEF IInit
<1>8. script \in Copies /\ stateDir \in BOOLEAN
  BY <1>1 DEF IInit, Copies
<1>9. proc \in [Admin -> Commands]
  BY <1>1, IdleType DEF IInit
<1> QED
  BY <1>1, <1>2, <1>7, <1>8, <1>9, InstallAssumption DEF IInit, InstTypeOK, Copies

\* The lines of others are lines of others.
LEMMA UsersType == ASSUME crontab' \in Seq(Line) PROVE Users(crontab') \in Seq(OthersLine)
<1>1. Only(OthersLine, crontab') \in Seq(OthersLine \cap Line)
  BY OnlyType
<1>2. OthersLine \cap Line = OthersLine
  BY LineSets
<1> QED
  BY <1>1, <1>2, LinesOfSeq DEF Users

\* Every step keeps the types.
LEMMA TypeStep == InstTypeOK /\ [INext]_ivars => InstTypeOK'
<1>1. SUFFICES ASSUME InstTypeOK, INext
               PROVE  InstTypeOK'
  BY DEF InstTypeOK, ivars
<1>2. crontab \in Crontabs /\ script \in Copies /\ staged \in Copies
      /\ stateDir \in BOOLEAN /\ None \in Copies /\ Partial \in Copies
  BY <1>1 DEF InstTypeOK, Copies, Crontabs
<1>3. ASSUME NEW a \in Admin, BeginInstall(a) \/ BeginUninstall(a)
      PROVE  InstTypeOK'
  BY <1>1, <1>3, BeginType, BeginnersType DEF BeginInstall, BeginUninstall
<1>4. ASSUME NEW a \in Admin
      PROVE  /\ proc[a] \in Commands /\ proc[a].version \in Copies
             /\ proc[a].read \in Crontabs /\ proc[a].cmd \in {"install", "uninstall"}
  BY <1>1 DEF InstTypeOK, Commands, Copies, Crontabs
<1>5. ASSUME NEW a \in Admin, Look(a)
      PROVE  InstTypeOK'
  <2>1. Read(a, script, LookSeen(proc[a], script), LookSeen(proc[a], None))
    BY <1>5 DEF Look, LookSeen
  <2>2. LookSeen(proc[a], script) \in Commands /\ LookSeen(proc[a], None) \in Commands
    BY <1>2, <1>4, LookSeenType DEF Copies
  <2>3. proc' \in [Admin -> Commands] /\ faults' \in 0 .. MaxFaults
        /\ spoilt' \subseteq {"unread", "overlap", "edit"}
    BY <1>1, <2>1, <2>2, ReadType
  <2> QED
    BY <1>1, <1>5, <2>3 DEF InstTypeOK, Look
<1>6. ASSUME NEW a \in Admin, ListCrontab(a)
      PROVE  InstTypeOK'
  <2>1. Read(a, crontab, ListSeen(proc[a], Decoded(crontab)), ListSeen(proc[a], None))
    BY <1>6 DEF ListCrontab, ListSeen
  <2>2. ListSeen(proc[a], Decoded(crontab)) \in Commands /\ ListSeen(proc[a], None) \in Commands
    BY <1>2, <1>4, ListSeenType, DecodedCrontab DEF Crontabs
  <2>3. proc' \in [Admin -> Commands] /\ faults' \in 0 .. MaxFaults
        /\ spoilt' \subseteq {"unread", "overlap", "edit"}
    BY <1>1, <2>1, <2>2, ReadType
  <2> QED
    BY <1>1, <1>6, <2>3 DEF InstTypeOK, ListCrontab
<1>7. ASSUME NEW a \in Admin, Stage(a)
      PROVE  InstTypeOK'
  <2>1. staged' \in Copies /\ proc' \in [Admin -> Commands] /\ faults' \in 0 .. MaxFaults
    <3>1. CASE Call(a, staged, staged', proc[a].version, "copy")
      <4>1. "copy" \in Calls
        BY DEF Calls
      <4> QED
        BY <1>1, <1>2, <1>4, <3>1, <4>1, CallType
    <3>2. CASE Fault /\ staged' = Partial /\ End(a, "failed")
      BY <1>1, <1>2, <3>2, EndType, FaultType
    <3> QED
      BY <1>7, <3>1, <3>2 DEF Stage
  <2> QED
    BY <1>1, <1>7, <2>1 DEF InstTypeOK, Stage, Copies
<1>8. ASSUME NEW a \in Admin, CopyScript(a)
      PROVE  InstTypeOK'
  <2>1. script' \in Copies /\ proc' \in [Admin -> Commands] /\ faults' \in 0 .. MaxFaults
    <3>1. CASE Call(a, script, script', staged, "sweep")
      <4>1. "sweep" \in Calls
        BY DEF Calls
      <4> QED
        BY <1>1, <1>2, <3>1, <4>1, CallType
    <3>2. CASE Fault /\ script' = Partial /\ End(a, "failed")
      BY <1>1, <1>2, <3>2, EndType, FaultType
    <3>3. CASE End(a, "failed") /\ UNCHANGED <<script, faults>>
      <4>1. faults \in 0 .. MaxFaults
        BY <1>1 DEF InstTypeOK
      <4> QED
        BY <1>1, <1>2, <3>3, <4>1, EndType
    <3> QED
      BY <1>8, <3>1, <3>2, <3>3 DEF CopyScript
  <2> QED
    BY <1>1, <1>8, <2>1 DEF InstTypeOK, CopyScript, Copies
<1>9. ASSUME NEW a \in Admin, SweepStaged(a)
      PROVE  InstTypeOK'
  <2>1. "dir" \in Calls /\ faults \in 0 .. MaxFaults
    BY <1>1 DEF Calls, InstTypeOK
  <2>2. proc' \in [Admin -> Commands]
    BY <1>1, <1>9, <2>1, GotoType, EndType DEF SweepStaged
  <2>3. staged' \in Copies /\ faults' \in 0 .. MaxFaults
    BY <1>1, <1>2, <1>9, <2>1, FaultType DEF SweepStaged
  <2> QED
    BY <1>1, <1>9, <2>2, <2>3 DEF InstTypeOK, SweepStaged, Copies
<1>10. ASSUME NEW a \in Admin, EnsureStateDir(a)
       PROVE  InstTypeOK'
  <2>1. "list" \in Calls /\ TRUE \in BOOLEAN
    BY DEF Calls
  <2>2. stateDir \in BOOLEAN /\ Call(a, stateDir, stateDir', TRUE, "list")
    BY <1>2, <1>10 DEF EnsureStateDir
  <2>3. stateDir' \in BOOLEAN /\ proc' \in [Admin -> Commands] /\ faults' \in 0 .. MaxFaults
    <3>1. PICK T : T = BOOLEAN
      OBVIOUS
    <3>2. stateDir \in T /\ TRUE \in T
      BY <1>2, <2>1, <3>1
    <3>3. stateDir' \in T /\ proc' \in [Admin -> Commands] /\ faults' \in 0 .. MaxFaults
      BY <1>1, <2>1, <2>2, <3>2, CallType
    <3> QED
      BY <3>1, <3>3
  <2> QED
    BY <1>1, <1>10, <2>3 DEF InstTypeOK, EnsureStateDir
<1>11. ASSUME NEW a \in Admin, WriteCrontab(a)
       PROVE  InstTypeOK'
  <2>1. Desired(proc[a], proc[a].read) \in Crontabs
    BY <1>4, DesiredCrontab
  <2>2. crontab' \in Crontabs
    BY <1>2, <1>11, <2>1 DEF WriteCrontab
  <2>3. "look" \in Calls /\ faults \in 0 .. MaxFaults
    BY <1>1 DEF Calls, InstTypeOK
  <2>4. proc' \in [Admin -> Commands]
    BY <1>1, <1>11, <2>3, GotoType, EndType DEF WriteCrontab
  <2>5. faults' \in 0 .. MaxFaults
    BY <1>1, <1>11, <2>3, FaultType DEF WriteCrontab
  <2> QED
    BY <1>1, <1>11, <2>2, <2>4, <2>5 DEF InstTypeOK, WriteCrontab, Crontabs
<1>12. ASSUME NEW a \in Admin, RemoveScript(a)
       PROVE  InstTypeOK'
  <2>1. proc' \in [Admin -> Commands]
    BY <1>1, <1>12, EndType DEF RemoveScript
  <2>2. faults \in 0 .. MaxFaults
    BY <1>1 DEF InstTypeOK
  <2>3. script' \in Copies /\ staged' \in Copies /\ faults' \in 0 .. MaxFaults
    BY <1>1, <1>2, <1>12, <2>2, FaultType DEF RemoveScript
  <2> QED
    BY <1>1, <1>12, <2>1, <2>3 DEF InstTypeOK, RemoveScript, Copies
<1>13. ASSUME NEW a \in Admin, Kill(a)
       PROVE  InstTypeOK'
  <2>1. proc' \in [Admin -> Commands] /\ faults' \in 0 .. MaxFaults
    BY <1>1, <1>13, EndType, FaultType DEF Kill
  <2> QED
    BY <1>1, <1>13, <2>1 DEF InstTypeOK, Kill
<1>14. ASSUME EditCrontab
       PROVE  InstTypeOK'
  <2>1. crontab' \in Seq(Line)
    BY <1>2, <1>14, EditKeepsBlock
  <2>2. users' \in Seq(OthersLine)
    BY <1>14, <2>1, UsersType DEF EditCrontab
  <2>3. edits' \in 0 .. MaxEdits /\ spoilt' \subseteq {"unread", "overlap", "edit"}
    BY <1>1, <1>14, InstallAssumption DEF InstTypeOK, EditCrontab
  <2> QED
    BY <1>1, <1>14, <2>1, <2>2, <2>3 DEF InstTypeOK, EditCrontab
<1> QED
  BY <1>1, <1>3, <1>5, <1>6, <1>7, <1>8, <1>9, <1>10, <1>11, <1>12, <1>13, <1>14 DEF INext

\* Every variable of gc install and gc uninstall (gc.py) keeps its type.
THEOREM InstallTypeCorrect == ISpec => []InstTypeOK
<1>1. IInit => InstTypeOK
  BY TypeInit
<1>2. InstTypeOK /\ [INext]_ivars => InstTypeOK'
  BY TypeStep
<1> QED
  BY <1>1, <1>2, PTL DEF ISpec

-----------------------------------------------------------------------------
(* The inductive invariant                                                 *)

\* The calls of a command: install never comes to rm, uninstall never to tee.
Sane(p) ==
  /\ p.cmd = "install" => p.pc # "remove" /\ (p.pc # "idle" => p.version \in Version)
  /\ p.cmd = "uninstall" => p.pc \in {"idle", "look", "list", "write", "remove"}

\* What a command nothing has disturbed has come to by its next call.
Reached(p) ==
  /\ p.cmd = "install" =>
       /\ p.pc = "copy" => staged = p.version
       /\ p.pc \in {"sweep", "dir", "list", "write"} => script = p.version
       /\ p.pc \in {"list", "write"} => stateDir
  /\ p.cmd = "uninstall" =>
       /\ p.pc \in {"look", "remove"} => Owns(crontab) = <<>>
       /\ p.pc = "remove" /\ p.found = None => script = None

\* The commands at work.
Busy == {a \in Admin : proc[a].pc # "idle"}

\* The lines of others in c are those of u, but for what a rewrite tears.
Same(c, u) == Rewritten(Users(c)) = Rewritten(u)

\* The lines of others are the ones they put there, in the crontab and in what a
\* command that is about to write has read of it.
UsersKept ==
  Spoilt({"unread", "edit"}) \/
    /\ Same(crontab, users)
    /\ \A a \in Admin : proc[a].pc = "write" => Same(proc[a].read, users)

\* One command at a time, unless that is excused, and what its calls have come to.
OrderKept ==
  Spoilt({"unread", "overlap"}) \/
    /\ Owns(crontab) # <<>> => script # None
    /\ \A a, b \in Busy : a = b
    /\ \A a \in Busy : Reached(proc[a])

\* The inductive invariant of the installer.
InstInv ==
  InstTypeOK /\ (\A a \in Admin : Sane(proc[a])) /\ UsersKept /\ OrderKept

\* The initial states satisfy it.
LEMMA InvInit == IInit => InstInv
<1>1. SUFFICES ASSUME IInit PROVE InstInv
  OBVIOUS
<1>2. InstTypeOK
  BY <1>1, TypeInit
<1>3. \A a \in Admin : proc[a] = Idle
  BY <1>1 DEF IInit
<1>4. \A a \in Admin : Sane(proc[a])
  BY <1>3 DEF Sane, Idle
<1>5. users \in Seq(OthersLine) /\ users \in Seq(Line)
  BY <1>2, LineSets, SeqMonotonic DEF InstTypeOK
<1>6. Only(OthersLine, users) = users /\ Only(OwnLine, users) = <<>>
  <2>1. Only(OthersLine, <<>>) = <<>>
    BY OnlyEmpty
  <2>2. ASSUME NEW u \in UserLine, users = <<u>>
        PROVE  Only(OthersLine, users) = users
    <3>1. PICK e : e = <<>>
      OBVIOUS
    <3>2. users = Append(e, u) /\ e \in Seq(Line) /\ u \in Line /\ u \in OthersLine
      BY <2>2, <3>1, LineSets
    <3>3. Only(OthersLine, Append(e, u)) = Append(Only(OthersLine, e), u)
      BY <3>2, OnlyAppend
    <3> QED
      BY <2>1, <3>1, <3>2, <3>3
  <2>3. Only(OthersLine, users) = users
    BY <1>1, <2>1, <2>2 DEF IInit
  <2> QED
    BY <1>5, <2>3, OnlyNone, LineSets
<1>7. CASE script = None /\ crontab \in {None, users} /\ Users(crontab) = users
  <2>1. Lines(crontab) = <<>> \/ Lines(crontab) = users
    BY <1>5, <1>7, LinesOfSeq DEF Lines
  <2>2. Owns(crontab) = <<>>
    BY <1>6, <2>1, OnlyEmpty DEF Owns
  <2> QED
    BY <1>2, <1>3, <1>4, <1>7, <2>2 DEF InstInv, UsersKept, OrderKept, Busy, Idle, Same
<1>8. CASE /\ script \in Version
           /\ crontab \in {Block(FALSE) \o users, Block(FALSE) \o users \o Block(TRUE)}
  <2>1. script # None
    BY <1>8, InstallAssumption
  <2> DEFINE c == Block(FALSE) \o users
  <2>2. Block(FALSE) \in Seq(Line) /\ Block(TRUE) \in Seq(Line) /\ c \in Seq(Line)
    BY <1>5, OnlyOfBlock, ConcatProperties
  <2>3. Only(OthersLine, c) = users
    <3>1. Only(OthersLine, c) = Only(OthersLine, Block(FALSE)) \o Only(OthersLine, users)
      BY <1>5, <2>2, OnlyConcat
    <3>2. Only(OthersLine, Block(FALSE)) = <<>>
      BY OnlyOfBlock
    <3>3. PICK e : e = <<>>
      OBVIOUS
    <3>4. Only(OthersLine, c) = e \o users
      BY <1>6, <3>1, <3>2, <3>3
    <3> QED
      BY <1>5, <3>3, <3>4, ConcatEmptySeq
  <2> HIDE DEF c
  <2>4. Only(OthersLine, c \o Block(TRUE)) = users
    <3>1. Only(OthersLine, c \o Block(TRUE)) = Only(OthersLine, c) \o Only(OthersLine, Block(TRUE))
      BY <2>2, OnlyConcat
    <3>2. Only(OthersLine, Block(TRUE)) = <<>>
      BY OnlyOfBlock
    <3>3. PICK e : e = <<>>
      OBVIOUS
    <3>4. Only(OthersLine, c \o Block(TRUE)) = users \o e
      BY <2>3, <3>1, <3>2, <3>3
    <3> QED
      BY <1>5, <3>3, <3>4, ConcatEmptySeq
  <2>5. c \o Block(TRUE) \in Seq(Line)
    BY <2>2, ConcatProperties
  <2>6. crontab = c \/ crontab = c \o Block(TRUE)
    BY <1>8 DEF c
  <2>7. Users(crontab) = users
    BY <2>2, <2>3, <2>4, <2>5, <2>6, LinesOfSeq DEF Users
  <2> QED
    BY <1>2, <1>3, <1>4, <2>1, <2>7 DEF InstInv, UsersKept, OrderKept, Busy, Idle, Same
<1> QED
  BY <1>1, <1>7, <1>8 DEF IInit

\* A step of one command keeps the others sane.
LEMMA SaneFrame ==
  ASSUME InstInv, NEW a \in Admin, Sane(proc'[a]),
         \A b \in Admin : b # a => proc'[b] = proc[b]
  PROVE  (\A b \in Admin : Sane(proc[b]))'
<1>1. ASSUME NEW b \in Admin
      PROVE  Sane(proc'[b])
  <2>1. CASE b = a
    BY <2>1
  <2>2. CASE b # a
    BY <2>2 DEF InstInv
  <2> QED
    BY <2>1, <2>2
<1> QED
  BY <1>1 DEF Sane

\* What a step of one command must keep for UsersKept.
LEMMA UsersFrame ==
  ASSUME InstInv, NEW a \in Admin, \A b \in Admin : b # a => proc'[b] = proc[b],
         spoilt \subseteq spoilt', users' = users,
         Spoilt({"unread", "edit"})' \/
           /\ Same(crontab', users)
           /\ proc'[a].pc = "write" => Same(proc'[a].read, users)
  PROVE  UsersKept'
<1>1. CASE Spoilt({"unread", "edit"})'
  BY <1>1 DEF UsersKept
<1>2. CASE ~ Spoilt({"unread", "edit"})'
  <2>1. ~ Spoilt({"unread", "edit"})
    BY <1>2 DEF Spoilt
  <2>2. \A b \in Admin : proc[b].pc = "write" => Same(proc[b].read, users)
    BY <2>1 DEF InstInv, UsersKept
  <2>3. ASSUME NEW b \in Admin, proc'[b].pc = "write"
        PROVE  Same(proc'[b].read, users)
    <3>1. CASE b = a
      BY <1>2, <2>3, <3>1
    <3>2. CASE b # a
      BY <2>2, <2>3, <3>2
    <3> QED
      BY <3>1, <3>2
  <2>4. Same(crontab', users)
    BY <1>2
  <2> QED
    BY <2>3, <2>4 DEF UsersKept, Same, Rewritten, Users
<1> QED
  BY <1>1, <1>2

\* What a step of one command must keep for OrderKept.
LEMMA OrderFrame ==
  ASSUME InstInv, NEW a \in Admin, \A b \in Admin : b # a => proc'[b] = proc[b],
         spoilt \subseteq spoilt', NEW r, r = proc'[a],
         Spoilt({"unread", "overlap"})' \/
           /\ proc[a].pc # "idle" \/ Busy = {}
           /\ Owns(crontab') # <<>> => script' # None
           /\ r.pc # "idle" => Reached(r)'
  PROVE  OrderKept'
<1>1. CASE Spoilt({"unread", "overlap"})'
  BY <1>1 DEF OrderKept
<1>2. CASE ~ Spoilt({"unread", "overlap"})'
  <2>1. ~ Spoilt({"unread", "overlap"})
    BY <1>2 DEF Spoilt
  <2>2. Busy \subseteq {a}
    BY <1>2, <2>1 DEF InstInv, OrderKept, Busy
  <2>3. Busy' \subseteq {a}
    BY <2>2 DEF Busy
  <2>4. ASSUME NEW b \in Busy'
        PROVE  Reached(proc[b])'
    <3>1. b = a /\ r.pc # "idle"
      BY <2>3, <2>4 DEF Busy
    <3>2. Reached(r)'
      BY <1>2, <3>1
    <3> QED
      BY <3>1, <3>2 DEF Reached
  <2>5. (Owns(crontab) # <<>> => script # None)'
    BY <1>2 DEF Owns
  <2> QED
    BY <2>3, <2>4, <2>5 DEF OrderKept
<1> QED
  BY <1>1, <1>2

\* What the invariant says of a command that is about to make a call.
LEMMA AtWork ==
  ASSUME InstInv, NEW a \in Admin, proc[a].pc # "idle"
  PROVE  /\ Sane(proc[a]) /\ proc[a] \in Commands
         /\ \/ Spoilt({"unread", "overlap"})
            \/ Reached(proc[a]) /\ (Owns(crontab) # <<>> => script # None)
         /\ \/ Spoilt({"unread", "edit"})
            \/ /\ Same(crontab, users)
               /\ proc[a].pc = "write" => Same(proc[a].read, users)
  BY DEF InstInv, OrderKept, UsersKept, Busy, InstTypeOK

\* A command that has ended is sane.
LEMMA FailedIsSane ==
  ASSUME NEW o
  PROVE  /\ Sane([Idle EXCEPT !.outcome = o]) /\ [Idle EXCEPT !.outcome = o].pc = "idle"
  BY DEF Sane, Idle

\* The invariant after a step that leaves the crontab and what spoils alone.
LEMMA StepFrame ==
  ASSUME InstInv, InstTypeOK', NEW a \in Admin, proc[a].pc # "idle",
         \A b \in Admin : b # a => proc'[b] = proc[b],
         UNCHANGED <<crontab, users, spoilt>>,
         NEW r, r = proc'[a], Sane(r), r.pc # "write",
         Spoilt({"unread", "overlap"}) \/
           /\ Owns(crontab) # <<>> => script' # None
           /\ r.pc # "idle" => Reached(r)'
  PROVE  InstInv'
<1>1. (\A b \in Admin : Sane(proc[b]))'
  BY SaneFrame
<1>2. /\ Same(crontab', users) <=> Same(crontab, users)
      /\ Owns(crontab') = Owns(crontab) /\ Spoilt({"unread", "edit"})' <=> Spoilt({"unread", "edit"})
      /\ Spoilt({"unread", "overlap"})' <=> Spoilt({"unread", "overlap"})
  BY DEF Spoilt
<1>3. UsersKept'
  <2>1. Spoilt({"unread", "edit"})' \/
          /\ Same(crontab', users)
          /\ proc'[a].pc = "write" => Same(proc'[a].read, users)
    BY <1>2, AtWork
  <2> QED
    BY <2>1, UsersFrame
<1>4. OrderKept'
  <2>1. Spoilt({"unread", "overlap"})' \/
          /\ proc[a].pc # "idle" \/ Busy = {}
          /\ Owns(crontab') # <<>> => script' # None
          /\ r.pc # "idle" => Reached(r)'
    BY <1>2
  <2> QED
    BY <2>1, OrderFrame
<1> QED
  BY <1>1, <1>3, <1>4 DEF InstInv

\* A command that begins disturbs the others, and that is noted.
LEMMA BeginInv ==
  ASSUME InstInv, NEW a \in Admin, BeginInstall(a) \/ BeginUninstall(a)
  PROVE  InstInv'
<1>1. PICK p \in Commands : /\ Begin(a, p) /\ Sane(p) /\ p.pc \in {"look", "list"}
                            /\ p.pc = "look" => p.cmd = "install"
                            /\ p.pc = "list" => p.cmd = "uninstall"
  <2>1. CASE BeginInstall(a)
    <3>1. PICK v \in Version, auto \in BOOLEAN : Begin(a, InstallerOf(v, auto))
      BY <2>1 DEF BeginInstall, InstallerOf
    <3>2. InstallerOf(v, auto) \in Commands /\ Sane(InstallerOf(v, auto))
          /\ InstallerOf(v, auto).pc = "look" /\ InstallerOf(v, auto).cmd = "install"
      BY BeginnersType DEF InstallerOf, Sane, Idle
    <3> QED
      BY <3>1, <3>2
  <2>2. CASE BeginUninstall(a)
    <3>1. Begin(a, Uninstaller)
      BY <2>2 DEF BeginUninstall, Uninstaller
    <3>2. Uninstaller \in Commands /\ Sane(Uninstaller)
          /\ Uninstaller.pc = "list" /\ Uninstaller.cmd = "uninstall"
      BY BeginnersType DEF Uninstaller, Sane, Idle
    <3> QED
      BY <3>1, <3>2
  <2> QED
    BY <2>1, <2>2
<1>2. InstTypeOK' /\ proc'[a] = p /\ \A b \in Admin : b # a => proc'[b] = proc[b]
  BY <1>1, BeginType DEF InstInv
<1>3. (\A b \in Admin : Sane(proc[b]))'
  BY <1>1, <1>2, SaneFrame
<1>4. UNCHANGED <<crontab, script, users>> /\ spoilt \subseteq spoilt'
      /\ (Busy = {} \/ "overlap" \in spoilt') /\ (spoilt' \subseteq spoilt \cup {"overlap"})
  BY <1>1 DEF Begin, Busy
<1>5. UsersKept'
  <2>1. Spoilt({"unread", "edit"})' \/ Same(crontab', users)
    BY <1>4 DEF InstInv, UsersKept, Spoilt
  <2> QED
    BY <1>1, <1>2, <1>4, <2>1, UsersFrame
<1>6. OrderKept'
  <2>1. Spoilt({"unread", "overlap"})' \/ (Busy = {} /\ (Owns(crontab') # <<>> => script' # None))
    BY <1>4 DEF InstInv, OrderKept, Spoilt
  <2>2. Reached(p)'
    BY <1>1 DEF Reached
  <2> QED
    BY <1>1, <1>2, <1>4, <2>1, <2>2, OrderFrame
<1> QED
  BY <1>2, <1>3, <1>5, <1>6 DEF InstInv

\* What Look comes to.
LEMMA LookOutcomes ==
  ASSUME InstInv, NEW a \in Admin, Look(a)
  PROVE  /\ spoilt \subseteq spoilt'
         /\ \A b \in Admin : b # a => proc'[b] = proc[b]
         /\ \/ proc'[a] = LookSeen(proc[a], script)
            \/ proc'[a] = [Idle EXCEPT !.outcome = "failed"]
            \/ proc'[a] = LookSeen(proc[a], None) /\ script = None
            \/ proc'[a] = LookSeen(proc[a], None) /\ "unread" \in spoilt'
<1>1. proc[a] \in Commands /\ InstTypeOK /\ script \in Copies /\ None \in Copies
  BY DEF InstInv, InstTypeOK, Copies
<1>2. Read(a, script, LookSeen(proc[a], script), LookSeen(proc[a], None))
  BY DEF Look, LookSeen
<1>3. LookSeen(proc[a], script) \in Commands /\ LookSeen(proc[a], None) \in Commands
  BY <1>1, LookSeenType DEF Copies
<1> QED
  BY <1>1, <1>2, <1>3, ReadType

\* Look finds the script its caller goes by.
LEMMA LookInv ==
  ASSUME InstInv, InstTypeOK', NEW a \in Admin, Look(a)
  PROVE  InstInv'
<1> DEFINE Free == Spoilt({"unread", "overlap"})
<1>1. proc[a].pc = "look" /\ UNCHANGED <<crontab, script, staged, stateDir, users>>
  BY DEF Look
<1>2. /\ Sane(proc[a]) /\ proc[a] \in Commands
      /\ \/ Free
         \/ Reached(proc[a]) /\ (Owns(crontab) # <<>> => script # None)
      /\ \/ Spoilt({"unread", "edit"})
         \/ Same(crontab, users)
  BY <1>1, AtWork
<1>3. script \in Copies /\ None \in Copies
  BY DEF InstInv, InstTypeOK, Copies
<1>4. /\ spoilt \subseteq spoilt'
      /\ \A b \in Admin : b # a => proc'[b] = proc[b]
      /\ \/ proc'[a] = LookSeen(proc[a], script)
         \/ proc'[a] = [Idle EXCEPT !.outcome = "failed"]
         \/ proc'[a] = LookSeen(proc[a], None) /\ script = None
         \/ proc'[a] = LookSeen(proc[a], None) /\ "unread" \in spoilt'
  BY LookOutcomes
<1>5. PICK r : r = proc'[a]
  OBVIOUS
<1>6. ASSUME NEW s, r = LookSeen(proc[a], s)
      PROVE  /\ Sane(r) /\ r.cmd = proc[a].cmd /\ r.version = proc[a].version
             /\ r.pc = "remove" <=> r.cmd = "uninstall"
             /\ r.pc \in {"remove", "dir", "tee"} /\ (r.pc = "dir" => s = r.version)
             /\ (r.cmd = "uninstall" => r.found = s)
  BY <1>1, <1>2, <1>6 DEF LookSeen, Sane, Commands
<1>7. Sane(r) /\ r.pc # "write"
  <2>1. CASE r = [Idle EXCEPT !.outcome = "failed"]
    BY <2>1, FailedIsSane
  <2>2. ASSUME NEW s, r = LookSeen(proc[a], s)
        PROVE  Sane(r) /\ r.pc # "write"
    BY <2>2, <1>6
  <2> QED
    BY <1>4, <1>5, <2>1, <2>2
<1>8. (\A b \in Admin : Sane(proc[b]))'
  BY <1>4, <1>5, <1>7, SaneFrame
<1>9. UsersKept'
  <2>1. Spoilt({"unread", "edit"})' \/ Same(crontab', users)
    BY <1>1, <1>2, <1>4 DEF Spoilt
  <2> QED
    BY <1>1, <1>4, <1>5, <1>7, <2>1, UsersFrame
<1>10. OrderKept'
  <2>1. ASSUME ~ Spoilt({"unread", "overlap"})', r.pc # "idle"
        PROVE  Reached(r)'
    <3>1. ~ Free /\ "unread" \notin spoilt'
      BY <1>4, <2>1 DEF Spoilt
    <3>2. r = LookSeen(proc[a], script)
      BY <1>4, <1>5, <2>1, <3>1, FailedIsSane
    <3>3. Reached(proc[a])
      BY <1>2, <3>1
    <3>4. r.cmd = "install" => r.pc \in {"dir", "tee"} /\ (r.pc = "dir" => script = r.version)
      BY <1>6, <3>2
    <3>5. r.cmd = "uninstall" => Owns(crontab) = <<>> /\ r.found = script
      BY <1>1, <1>6, <3>2, <3>3 DEF Reached
    <3>6. script' = script /\ Owns(crontab') = Owns(crontab)
      BY <1>1
    <3> QED
      BY <3>4, <3>5, <3>6 DEF Reached, Owns
  <2>2. Spoilt({"unread", "overlap"})' \/ (Owns(crontab') # <<>> => script' # None)
    BY <1>1, <1>2, <1>4 DEF Spoilt
  <2>3. spoilt \subseteq spoilt' /\ \A b \in Admin : b # a => proc'[b] = proc[b]
    BY <1>4
  <2>4. proc[a].pc # "idle"
    BY <1>1
  <2> QED
    BY <1>5, <2>1, <2>2, <2>3, <2>4, OrderFrame
<1> QED
  BY <1>8, <1>9, <1>10 DEF InstInv

\* tee leaves the staged copy whole or ends the command.
LEMMA StageInv ==
  ASSUME InstInv, InstTypeOK', NEW a \in Admin, Stage(a)
  PROVE  InstInv'
<1>1. proc[a].pc = "tee" /\ proc[a].pc # "idle"
      /\ UNCHANGED <<crontab, script, stateDir, users, spoilt>>
  BY DEF Stage
<1>2. /\ Sane(proc[a]) /\ proc[a] \in Commands /\ InstTypeOK
      /\ \/ Spoilt({"unread", "overlap"})
         \/ Owns(crontab) # <<>> => script # None
  BY <1>1, AtWork DEF InstInv
<1>3. PICK r : r = proc'[a]
  OBVIOUS
<1>4. /\ \A b \in Admin : b # a => proc'[b] = proc[b]
      /\ \/ staged' = proc[a].version /\ r = [proc[a] EXCEPT !.pc = "copy"]
         \/ r = [Idle EXCEPT !.outcome = "failed"]
  <2>1. staged \in Copies /\ proc[a].version \in Copies /\ "copy" \in Calls
    BY <1>2 DEF InstTypeOK, Commands, Copies, Calls
  <2>2. CASE Call(a, staged, staged', proc[a].version, "copy")
    BY <1>2, <1>3, <2>1, <2>2, CallType
  <2>3. CASE Fault /\ staged' = Partial /\ End(a, "failed")
    BY <1>2, <1>3, <2>3, EndType
  <2> QED
    BY <2>2, <2>3 DEF Stage
<1>5. CASE r = [Idle EXCEPT !.outcome = "failed"]
  <2>1. Sane(r) /\ r.pc = "idle"
    BY <1>5, FailedIsSane
  <2> QED
    BY <1>1, <1>2, <1>3, <1>4, <2>1, StepFrame
<1>6. CASE staged' = proc[a].version /\ r = [proc[a] EXCEPT !.pc = "copy"]
  <2>1. /\ r.pc = "copy" /\ r.cmd = "install" /\ r.version = proc[a].version /\ Sane(r)
    BY <1>1, <1>2, <1>6 DEF Sane, Commands
  <2>2. Reached(r)'
    BY <1>6, <2>1 DEF Reached
  <2> QED
    BY <1>1, <1>2, <1>3, <1>4, <2>1, <2>2, StepFrame
<1> QED
  BY <1>4, <1>5, <1>6

\* The copy leaves some script there, and its own before the command goes on.
LEMMA CopyInv ==
  ASSUME InstInv, InstTypeOK', NEW a \in Admin, CopyScript(a)
  PROVE  InstInv'
<1>1. proc[a].pc = "copy" /\ proc[a].pc # "idle"
      /\ UNCHANGED <<crontab, staged, stateDir, users, spoilt>>
  BY DEF CopyScript
<1>2. /\ Sane(proc[a]) /\ proc[a] \in Commands /\ InstTypeOK
      /\ \/ Spoilt({"unread", "overlap"})
         \/ Reached(proc[a]) /\ (Owns(crontab) # <<>> => script # None)
  BY <1>1, AtWork DEF InstInv
<1>3. PICK r : r = proc'[a]
  OBVIOUS
<1>4. /\ \A b \in Admin : b # a => proc'[b] = proc[b]
      /\ script' = script \/ script' # None
      /\ \/ script' = staged /\ r = [proc[a] EXCEPT !.pc = "sweep"]
         \/ r = [Idle EXCEPT !.outcome = "failed"]
  <2>1. staged \in Copies /\ script \in Copies /\ "sweep" \in Calls /\ Partial # None
    BY <1>2, InstallAssumption DEF InstTypeOK, Copies, Calls
  <2>2. CASE staged # None /\ Call(a, script, script', staged, "sweep")
    BY <1>2, <1>3, <2>1, <2>2, CallType
  <2>3. CASE Fault /\ script' = Partial /\ End(a, "failed")
    BY <1>2, <1>3, <2>1, <2>3, EndType
  <2>4. CASE End(a, "failed") /\ UNCHANGED <<script, faults>>
    BY <1>2, <1>3, <2>4, EndType
  <2> QED
    BY <2>2, <2>3, <2>4 DEF CopyScript
<1>5. \/ Spoilt({"unread", "overlap"})
      \/ Owns(crontab) # <<>> => script' # None
  BY <1>2, <1>4
<1>6. CASE r = [Idle EXCEPT !.outcome = "failed"]
  <2>1. Sane(r) /\ r.pc = "idle"
    BY <1>6, FailedIsSane
  <2> QED
    BY <1>1, <1>3, <1>4, <1>5, <2>1, StepFrame
<1>7. CASE script' = staged /\ r = [proc[a] EXCEPT !.pc = "sweep"]
  <2>1. r.pc = "sweep" /\ r.cmd = "install" /\ r.version = proc[a].version /\ Sane(r)
        /\ proc[a].cmd = "install"
    BY <1>1, <1>2, <1>7 DEF Sane, Commands
  <2>2. Reached(proc[a]) => Reached(r)'
    BY <1>1, <1>7, <2>1 DEF Reached
  <2> QED
    BY <1>1, <1>2, <1>3, <1>4, <1>5, <2>1, <2>2, StepFrame
<1> QED
  BY <1>4, <1>6, <1>7

\* The staged copy may go.
LEMMA SweepInv ==
  ASSUME InstInv, InstTypeOK', NEW a \in Admin, SweepStaged(a)
  PROVE  InstInv'
<1>1. proc[a].pc = "sweep" /\ proc[a].pc # "idle"
      /\ UNCHANGED <<crontab, script, stateDir, users, spoilt>>
  BY DEF SweepStaged
<1>2. /\ Sane(proc[a]) /\ proc[a] \in Commands /\ InstTypeOK
      /\ \/ Spoilt({"unread", "overlap"})
         \/ Reached(proc[a]) /\ (Owns(crontab) # <<>> => script # None)
  BY <1>1, AtWork DEF InstInv
<1>3. PICK r : r = proc'[a]
  OBVIOUS
<1>4. /\ \A b \in Admin : b # a => proc'[b] = proc[b]
      /\ \/ r = [proc[a] EXCEPT !.pc = "dir"]
         \/ r = [Idle EXCEPT !.outcome = "failed"]
  <2>1. "dir" \in Calls
    BY DEF Calls
  <2> QED
    BY <1>2, <1>3, <2>1, GotoType, EndType DEF SweepStaged
<1>5. CASE r = [Idle EXCEPT !.outcome = "failed"]
  <2>1. Sane(r) /\ r.pc = "idle"
    BY <1>5, FailedIsSane
  <2> QED
    BY <1>1, <1>2, <1>3, <1>4, <2>1, StepFrame
<1>6. CASE r = [proc[a] EXCEPT !.pc = "dir"]
  <2>1. r.pc = "dir" /\ r.cmd = "install" /\ r.version = proc[a].version /\ Sane(r)
        /\ proc[a].cmd = "install"
    BY <1>1, <1>2, <1>6 DEF Sane, Commands
  <2>2. Reached(proc[a]) => Reached(r)'
    BY <1>1, <2>1 DEF Reached
  <2> QED
    BY <1>1, <1>2, <1>3, <1>4, <2>1, <2>2, StepFrame
<1> QED
  BY <1>4, <1>5, <1>6

\* mkdir leaves the directory there or ends the command.
LEMMA DirInv ==
  ASSUME InstInv, InstTypeOK', NEW a \in Admin, EnsureStateDir(a)
  PROVE  InstInv'
<1>1. proc[a].pc = "dir" /\ proc[a].pc # "idle"
      /\ UNCHANGED <<crontab, script, staged, users, spoilt>>
  BY DEF EnsureStateDir
<1>2. /\ Sane(proc[a]) /\ proc[a] \in Commands /\ InstTypeOK
      /\ \/ Spoilt({"unread", "overlap"})
         \/ Reached(proc[a]) /\ (Owns(crontab) # <<>> => script # None)
  BY <1>1, AtWork DEF InstInv
<1>3. PICK r : r = proc'[a]
  OBVIOUS
<1>4. /\ \A b \in Admin : b # a => proc'[b] = proc[b]
      /\ \/ stateDir' /\ r = [proc[a] EXCEPT !.pc = "list"]
         \/ r = [Idle EXCEPT !.outcome = "failed"]
  <2>1. "list" \in Calls
    BY DEF Calls
  <2>2. CASE stateDir' = TRUE /\ Goto(a, "list")
    BY <1>2, <1>3, <2>1, <2>2, GotoType
  <2>3. CASE End(a, "failed")
    BY <1>2, <1>3, <2>3, EndType
  <2> QED
    BY <2>2, <2>3 DEF EnsureStateDir, Call
<1>5. CASE r = [Idle EXCEPT !.outcome = "failed"]
  <2>1. Sane(r) /\ r.pc = "idle"
    BY <1>5, FailedIsSane
  <2> QED
    BY <1>1, <1>2, <1>3, <1>4, <2>1, StepFrame
<1>6. CASE stateDir' /\ r = [proc[a] EXCEPT !.pc = "list"]
  <2>1. r.pc = "list" /\ r.cmd = "install" /\ r.version = proc[a].version /\ Sane(r)
        /\ proc[a].cmd = "install"
    BY <1>1, <1>2, <1>6 DEF Sane, Commands
  <2>2. Reached(proc[a]) => Reached(r)'
    BY <1>1, <1>6, <2>1 DEF Reached
  <2> QED
    BY <1>1, <1>2, <1>3, <1>4, <2>1, <2>2, StepFrame
<1> QED
  BY <1>4, <1>5, <1>6

\* rm takes the script once no line is left.
LEMMA RemoveInv ==
  ASSUME InstInv, InstTypeOK', NEW a \in Admin, RemoveScript(a)
  PROVE  InstInv'
<1>1. proc[a].pc = "remove" /\ proc[a].pc # "idle"
      /\ UNCHANGED <<crontab, stateDir, users, spoilt>>
  BY DEF RemoveScript
<1>2. /\ Sane(proc[a]) /\ proc[a] \in Commands /\ InstTypeOK
      /\ Spoilt({"unread", "overlap"}) \/ Reached(proc[a])
  BY <1>1, AtWork DEF InstInv
<1>3. Spoilt({"unread", "overlap"}) \/ Owns(crontab) = <<>>
  BY <1>1, <1>2 DEF Sane, Reached, Commands
<1>4. PICK r : r = proc'[a]
  OBVIOUS
<1>5. PICK o \in {"ok", "failed"} : End(a, o)
  BY DEF RemoveScript
<1>6. r = [Idle EXCEPT !.outcome = o] /\ \A b \in Admin : b # a => proc'[b] = proc[b]
  BY <1>2, <1>4, <1>5, EndType
<1>7. Sane(r) /\ r.pc = "idle"
  BY <1>6, FailedIsSane
<1> QED
  BY <1>1, <1>3, <1>4, <1>6, <1>7, StepFrame

\* A command that is killed leaves things in order.
LEMMA KillInv ==
  ASSUME InstInv, InstTypeOK', NEW a \in Admin, Kill(a)
  PROVE  InstInv'
<1>1. /\ proc[a].pc # "idle" /\ End(a, "failed")
      /\ UNCHANGED <<crontab, script, users, spoilt>>
  BY DEF Kill
<1>2. InstTypeOK /\ (Spoilt({"unread", "overlap"}) \/ (Owns(crontab) # <<>> => script # None))
  BY <1>1, AtWork DEF InstInv
<1>3. PICK r : r = proc'[a]
  OBVIOUS
<1>4. r = [Idle EXCEPT !.outcome = "failed"] /\ \A b \in Admin : b # a => proc'[b] = proc[b]
  BY <1>1, <1>2, <1>3, EndType
<1>5. Sane(r) /\ r.pc = "idle"
  BY <1>4, FailedIsSane
<1> QED
  BY <1>1, <1>2, <1>3, <1>4, <1>5, StepFrame

\* What ListCrontab comes to.
LEMMA ListOutcomes ==
  ASSUME InstInv, NEW a \in Admin, ListCrontab(a)
  PROVE  /\ proc[a].pc = "list" /\ UNCHANGED <<crontab, script, staged, stateDir, users>>
         /\ spoilt \subseteq spoilt'
         /\ \A b \in Admin : b # a => proc'[b] = proc[b]
         /\ \/ proc'[a] = ListSeen(proc[a], Decoded(crontab))
            \/ proc'[a] = [Idle EXCEPT !.outcome = "failed"]
            \/ proc'[a] = ListSeen(proc[a], None) /\ "unread" \in spoilt'
<1>1. crontab \in Crontabs /\ None \in Crontabs /\ proc[a] \in Commands /\ InstTypeOK
  BY DEF InstInv, InstTypeOK, Crontabs
<1>2. Read(a, crontab, ListSeen(proc[a], Decoded(crontab)), ListSeen(proc[a], None))
  BY DEF ListCrontab, ListSeen
<1>3. ListSeen(proc[a], Decoded(crontab)) \in Commands /\ ListSeen(proc[a], None) \in Commands
  BY <1>1, ListSeenType, DecodedCrontab
<1> QED
  BY <1>1, <1>2, <1>3, ReadType DEF ListCrontab, Decoded

\* The crontab read is the crontab, or excused.
LEMMA ListInv ==
  ASSUME InstInv, InstTypeOK', NEW a \in Admin, ListCrontab(a)
  PROVE  InstInv'
<1>1. /\ proc[a].pc = "list" /\ proc[a].pc # "idle"
      /\ UNCHANGED <<crontab, script, staged, stateDir, users>>
      /\ spoilt \subseteq spoilt' /\ \A b \in Admin : b # a => proc'[b] = proc[b]
  BY ListOutcomes
<1>2. /\ Sane(proc[a]) /\ proc[a] \in Commands /\ InstTypeOK
      /\ proc[a].cmd \in {"install", "uninstall"} /\ crontab \in Crontabs
      /\ \/ Spoilt({"unread", "overlap"})
         \/ Reached(proc[a]) /\ (Owns(crontab) # <<>> => script # None)
      /\ \/ Spoilt({"unread", "edit"})
         \/ Same(crontab, users)
  BY <1>1, AtWork DEF InstInv, InstTypeOK, Commands, Crontabs
<1>3. PICK r : r = proc'[a]
  OBVIOUS
<1>4. ASSUME NEW c, r = ListSeen(proc[a], c)
      PROVE  /\ Sane(r)
             /\ \/ r.pc = "idle"
                \/ /\ r.pc = "write" /\ r.cmd = proc[a].cmd /\ r.version = proc[a].version
                   /\ r.read = c
                \/ /\ r.pc = "look" /\ r.cmd = "uninstall" /\ proc[a].cmd = "uninstall"
                   /\ Owns(c) = <<>>
  <2>1. CASE r = [proc[a] EXCEPT !.read = c, !.pc = "write"]
    BY <1>1, <1>2, <2>1 DEF Sane, Commands
  <2>2. CASE r = [Idle EXCEPT !.outcome = "ok"]
    BY <2>2, FailedIsSane
  <2>3. CASE /\ r = [proc[a] EXCEPT !.pc = "look"] /\ proc[a].cmd # "install"
             /\ Owns(c) = <<>>
    BY <1>1, <1>2, <2>3 DEF Sane, Commands
  <2> QED
    BY <1>2, <1>4, <2>1, <2>2, <2>3 DEF ListSeen, Content
<1>5. Sane(r)
  <2>1. CASE r = [Idle EXCEPT !.outcome = "failed"]
    BY <2>1, FailedIsSane
  <2>2. CASE r = ListSeen(proc[a], Decoded(crontab)) \/ r = ListSeen(proc[a], None)
    BY <2>2, <1>4
  <2> QED
    BY <1>3, <2>1, <2>2, ListOutcomes
<1>6. "unread" \in spoilt' \/ r.pc = "idle" \/ r = ListSeen(proc[a], Decoded(crontab))
  BY <1>3, FailedIsSane, ListOutcomes
<1>7. (\A b \in Admin : Sane(proc[b]))'
  BY <1>1, <1>3, <1>5, SaneFrame
<1>8. UsersKept'
  <2>1. ASSUME ~ Spoilt({"unread", "edit"})'
        PROVE  Same(crontab', users) /\ (proc'[a].pc = "write" => Same(proc'[a].read, users))
    <3>1. "unread" \notin spoilt' /\ ~ Spoilt({"unread", "edit"})
      BY <1>1, <2>1 DEF Spoilt
    <3>2. Same(crontab, users)
      BY <1>2, <3>1
    <3>3. r.pc = "write" => r.read = Decoded(crontab)
      BY <1>4, <1>6, <3>1
    <3>4. Same(Decoded(crontab), users)
      BY <1>2, <3>2, DecodedCrontab DEF Same
    <3> QED
      BY <1>1, <1>3, <3>2, <3>3, <3>4
  <2> QED
    BY <1>1, <2>1, UsersFrame
<1>9. OrderKept'
  <2>1. ASSUME ~ Spoilt({"unread", "overlap"})'
        PROVE  (Owns(crontab') # <<>> => script' # None) /\ (r.pc # "idle" => Reached(r)')
    <3>1. "unread" \notin spoilt' /\ ~ Spoilt({"unread", "overlap"})
      BY <1>1, <2>1 DEF Spoilt
    <3>2. Reached(proc[a]) /\ (Owns(crontab) # <<>> => script # None)
      BY <1>2, <3>1
    <3>3. Owns(crontab') # <<>> => script' # None
      BY <1>1, <3>2
    <3>4. ASSUME r.pc # "idle"
          PROVE  Reached(r)'
      <4>1. r = ListSeen(proc[a], Decoded(crontab))
        BY <1>6, <3>1, <3>4
      <4>2. CASE r.pc = "write" /\ r.cmd = proc[a].cmd /\ r.version = proc[a].version
        BY <1>1, <3>2, <4>2 DEF Reached
      <4>3. CASE /\ r.pc = "look" /\ r.cmd = "uninstall" /\ proc[a].cmd = "uninstall"
                 /\ Owns(Decoded(crontab)) = <<>>
        <5>1. Owns(crontab) = <<>>
          BY <1>2, <4>3, DecodedCrontab
        <5>2. Owns(crontab') = <<>>
          BY <1>1, <5>1
        <5> QED
          BY <4>3, <5>2 DEF Reached, Owns
      <4> QED
        BY <1>4, <3>4, <4>1, <4>2, <4>3
    <3> QED
      BY <3>3, <3>4
  <2> QED
    BY <1>1, <1>3, <2>1, OrderFrame
<1> QED
  BY <1>7, <1>8, <1>9 DEF InstInv

\* The crontab written has the lines of others and, for install, a script.
LEMMA WriteInv ==
  ASSUME InstInv, InstTypeOK', NEW a \in Admin, WriteCrontab(a)
  PROVE  InstInv'
<1> DEFINE d == Desired(proc[a], proc[a].read)
<1>1. /\ proc[a].pc = "write" /\ proc[a].pc # "idle"
      /\ UNCHANGED <<script, staged, stateDir, users, spoilt>>
  BY DEF WriteCrontab
<1>2. /\ Sane(proc[a]) /\ proc[a] \in Commands /\ InstTypeOK
      /\ proc[a].cmd \in {"install", "uninstall"} /\ proc[a].read \in Crontabs
      /\ \/ Spoilt({"unread", "overlap"})
         \/ Reached(proc[a]) /\ (Owns(crontab) # <<>> => script # None)
      /\ \/ Spoilt({"unread", "edit"})
         \/ Same(crontab, users) /\ Same(proc[a].read, users)
  BY <1>1, AtWork DEF InstInv, InstTypeOK, Commands, Crontabs
<1>3. /\ Rewritten(Users(d)) = Rewritten(Users(proc[a].read))
      /\ Owns(d) = IF proc[a].cmd = "install" THEN Block(proc[a].auto) ELSE <<>>
  BY <1>2, DesiredCrontab
<1> HIDE DEF d
<1>4. PICK r : r = proc'[a]
  OBVIOUS
<1>5. /\ \A b \in Admin : b # a => proc'[b] = proc[b]
      /\ \/ r.pc = "idle" /\ Sane(r) /\ crontab' \in {crontab, d}
         \/ /\ r = [proc[a] EXCEPT !.pc = "look"] /\ proc[a].cmd # "install" /\ crontab' = d
  <2>1. CASE crontab' = d /\ proc[a].cmd = "install" /\ End(a, "ok")
    <3>1. r = [Idle EXCEPT !.outcome = "ok"] /\ \A b \in Admin : b # a => proc'[b] = proc[b]
      BY <1>2, <1>4, <2>1, EndType
    <3>2. Sane(r) /\ r.pc = "idle"
      BY <3>1, FailedIsSane
    <3> QED
      BY <2>1, <3>1, <3>2
  <2>2. CASE crontab' = d /\ proc[a].cmd # "install" /\ Goto(a, "look")
    <3>1. "look" \in Calls
      BY DEF Calls
    <3> QED
      BY <1>2, <1>4, <2>2, <3>1, GotoType
  <2>3. CASE Fault /\ crontab' \in {crontab, d} /\ End(a, "failed")
    <3>1. r = [Idle EXCEPT !.outcome = "failed"] /\ \A b \in Admin : b # a => proc'[b] = proc[b]
      BY <1>2, <1>4, <2>3, EndType
    <3>2. Sane(r) /\ r.pc = "idle"
      BY <3>1, FailedIsSane
    <3> QED
      BY <2>3, <3>1, <3>2
  <2> QED
    BY <2>1, <2>2, <2>3 DEF WriteCrontab, d
<1>6. r = [proc[a] EXCEPT !.pc = "look"] /\ proc[a].cmd # "install" =>
        r.pc = "look" /\ r.cmd = "uninstall" /\ Sane(r)
  BY <1>2 DEF Sane, Commands
<1>7. (\A b \in Admin : Sane(proc[b]))'
  BY <1>4, <1>5, <1>6, SaneFrame
<1>8. UsersKept'
  <2>1. \/ Spoilt({"unread", "edit"})'
        \/ Same(crontab', users) /\ proc'[a].pc # "write"
    <3>1. r.pc # "write" /\ crontab' \in {crontab, d}
      BY <1>5, <1>6
    <3>2. Spoilt({"unread", "edit"})' <=> Spoilt({"unread", "edit"})
      BY <1>1 DEF Spoilt
    <3> QED
      BY <1>2, <1>3, <1>4, <3>1, <3>2 DEF Same
  <2> QED
    BY <1>1, <1>5, <2>1, UsersFrame
<1>9. OrderKept'
  <2>1. ASSUME ~ Spoilt({"unread", "overlap"})'
        PROVE  (Owns(crontab') # <<>> => script' # None) /\ (r.pc # "idle" => Reached(r)')
    <3>1. Reached(proc[a]) /\ (Owns(crontab) # <<>> => script # None)
      BY <1>1, <1>2, <2>1 DEF Spoilt
    <3>2. proc[a].cmd = "install" => script # None
      BY <1>1, <1>2, <3>1, InstallAssumption DEF Reached, Sane
    <3>3. Owns(crontab') \in {Owns(crontab), Owns(d)}
      BY <1>5
    <3>4. Owns(crontab') # <<>> => script' # None
      BY <1>1, <1>3, <3>1, <3>2, <3>3
    <3>5. ASSUME r.pc # "idle"
          PROVE  Reached(r)'
      <4>1. r.pc = "look" /\ r.cmd = "uninstall" /\ crontab' = d /\ proc[a].cmd # "install"
        BY <1>5, <1>6, <3>5
      <4>2. Owns(crontab') = <<>>
        BY <1>3, <4>1
      <4> QED
        BY <4>1, <4>2 DEF Reached, Owns
    <3> QED
      BY <3>4, <3>5
  <2>2. spoilt \subseteq spoilt'
    BY <1>1
  <2> QED
    BY <1>1, <1>4, <1>5, <2>1, <2>2, OrderFrame
<1> QED
  BY <1>7, <1>8, <1>9 DEF InstInv

\* Others edit between the calls of a command.
LEMMA EditInv ==
  ASSUME InstInv, InstTypeOK', EditCrontab
  PROVE  InstInv'
<1>1. /\ UNCHANGED <<script, staged, stateDir, proc>> /\ users' = Users(crontab')
      /\ spoilt \subseteq spoilt'
      /\ "edit" \in spoilt' \/ \A a \in Admin : proc[a].pc # "write"
  BY DEF EditCrontab
<1>2. Owns(crontab') = Owns(crontab)
  BY EditKeepsBlock DEF InstInv, InstTypeOK, Crontabs
<1>3. (\A b \in Admin : Sane(proc[b]))'
  BY <1>1 DEF InstInv, Sane
<1>4. UsersKept'
  <2>1. Spoilt({"unread", "edit"})' \/ \A a \in Admin : proc[a].pc # "write"
    BY <1>1 DEF Spoilt
  <2> QED
    BY <1>1, <2>1 DEF UsersKept, Same, Users, Rewritten
<1>5. OrderKept'
  <2>1. CASE Spoilt({"unread", "overlap"})'
    BY <2>1 DEF OrderKept
  <2>2. CASE ~ Spoilt({"unread", "overlap"})'
    <3>1. ~ Spoilt({"unread", "overlap"})
      BY <1>1, <2>2 DEF Spoilt
    <3>2. /\ Owns(crontab) # <<>> => script # None
          /\ \A a, b \in Busy : a = b
          /\ \A a \in Busy : Reached(proc[a])
      BY <3>1 DEF InstInv, OrderKept
    <3>3. Busy' = Busy
      BY <1>1 DEF Busy
    <3>4. \A a \in Busy : Reached(proc[a])'
      BY <1>1, <1>2, <3>2 DEF Reached, Owns
    <3>5. Owns(crontab)' # <<>> => script' # None
      BY <1>1, <1>2, <3>2 DEF Owns
    <3> QED
      BY <3>2, <3>3, <3>4, <3>5 DEF OrderKept
  <2> QED
    BY <2>1, <2>2
<1> QED
  BY <1>3, <1>4, <1>5 DEF InstInv

\* Every step keeps the invariant.
LEMMA InvStep == InstInv /\ [INext]_ivars => InstInv'
<1>1. SUFFICES ASSUME InstInv, [INext]_ivars
               PROVE  InstInv'
  OBVIOUS
<1>2. InstTypeOK'
  BY <1>1, TypeStep DEF InstInv
<1>3. CASE UNCHANGED ivars
  BY <1>1, <1>3 DEF ivars, InstInv, InstTypeOK, UsersKept, OrderKept, Sane, Reached, Busy,
     Spoilt, Owns, Users, Same, Rewritten
<1>4. CASE INext
  BY <1>1, <1>2, <1>4, BeginInv, LookInv, StageInv, CopyInv, SweepInv, DirInv, ListInv,
     WriteInv, RemoveInv, KillInv, EditInv DEF INext
<1> QED
  BY <1>1, <1>3, <1>4

\* The inductive invariant holds in every run of gc install and gc uninstall, for
\* any number of commands, releases, lines, faults and edits.
THEOREM InstallInvariance == ISpec => []InstInv
<1>1. InstInv /\ [INext]_ivars => InstInv'
  BY InvStep
<1> QED
  BY <1>1, InvInit, PTL DEF ISpec

\* No rewrite of the crontab (_ensure_crontab, uninstall) loses, adds or moves a
\* line of others, nor alters one that decodes and holds no other line break,
\* whichever calls fail and however many commands overlap.
THEOREM UserLinesAlwaysSurvive == ISpec => []UserLinesSurvive
<1>1. InstInv => UserLinesSurvive
  BY DEF InstInv, UsersKept, UserLinesSurvive, Same
<1> QED
  BY <1>1, InstallInvariance, PTL

\* cron never runs a collector that is not there, wherever install or uninstall
\* dies.
THEOREM LineAlwaysHasScript == ISpec => []LineHasScript
<1>1. InstInv => LineHasScript
  BY DEF InstInv, OrderKept, LineHasScript
<1> QED
  BY <1>1, InstallInvariance, PTL

-----------------------------------------------------------------------------
(* Success                                                                 *)

\* Command a reports success in this step.
Succeeds(a) == proc[a].pc # "idle" /\ proc'[a].pc = "idle" /\ proc'[a].outcome = "ok"

\* The other steps report no success.
LEMMA OthersSucceedNot ==
  ASSUME InstInv, NEW a \in Admin,
         \/ BeginInstall(a) \/ BeginUninstall(a) \/ Look(a)
         \/ Stage(a) \/ CopyScript(a) \/ SweepStaged(a) \/ EnsureStateDir(a) \/ Kill(a)
  PROVE  ~ Succeeds(a) /\ \A b \in Admin : b # a => proc'[b] = proc[b]
<1>1. InstTypeOK /\ proc[a] \in Commands
  BY DEF InstInv, InstTypeOK
<1>2. CASE BeginInstall(a) \/ BeginUninstall(a)
  <2>1. proc[a].pc = "idle"
    BY <1>2 DEF BeginInstall, BeginUninstall, Begin
  <2> QED
    BY <1>1, <1>2, <2>1, BeginType, BeginnersType DEF BeginInstall, BeginUninstall, Succeeds
<1>3. CASE Look(a)
  <2>1. \A s : LookSeen(proc[a], s).pc # "idle"
    BY <1>1 DEF LookSeen, Commands
  <2>2. /\ \A b \in Admin : b # a => proc'[b] = proc[b]
        /\ \/ \E s : proc'[a] = LookSeen(proc[a], s)
           \/ proc'[a] = [Idle EXCEPT !.outcome = "failed"]
    BY <1>3, LookOutcomes
  <2> QED
    BY <2>1, <2>2 DEF Succeeds, Idle
<1>4. ASSUME NEW pc \in Calls \ {"idle"}, \A b \in Admin : b # a => proc'[b] = proc[b],
             \/ proc'[a] = [proc[a] EXCEPT !.pc = pc]
             \/ proc'[a] = [Idle EXCEPT !.outcome = "failed"]
      PROVE  ~ Succeeds(a) /\ \A b \in Admin : b # a => proc'[b] = proc[b]
  BY <1>1, <1>4 DEF Succeeds, Idle, Commands, Calls
<1>5. {"copy", "sweep", "dir", "list"} \subseteq Calls \ {"idle"}
      /\ {"copy", "sweep", "dir", "list"} \subseteq Calls
  BY DEF Calls
<1>6. ASSUME NEW pc \in Calls \ {"idle"}, Goto(a, pc)
      PROVE  ~ Succeeds(a) /\ \A b \in Admin : b # a => proc'[b] = proc[b]
  BY <1>1, <1>4, <1>6, GotoType
<1>7. ASSUME End(a, "failed")
      PROVE  ~ Succeeds(a) /\ \A b \in Admin : b # a => proc'[b] = proc[b]
  BY <1>1, <1>4, <1>5, <1>7, EndType
<1>8. CASE Stage(a)
  BY <1>5, <1>6, <1>7, <1>8 DEF Stage, Call
<1>9. CASE CopyScript(a)
  BY <1>5, <1>6, <1>7, <1>9 DEF CopyScript, Call
<1>10. CASE SweepStaged(a)
  BY <1>5, <1>6, <1>7, <1>10 DEF SweepStaged
<1>11. CASE EnsureStateDir(a)
  BY <1>5, <1>6, <1>7, <1>11 DEF EnsureStateDir, Call
<1>12. CASE Kill(a)
  BY <1>7, <1>12 DEF Kill
<1> QED
  BY <1>2, <1>3, <1>8, <1>9, <1>10, <1>11, <1>12

\* What a command that succeeds has left.
Whole(a) ==
  IF proc[a].cmd = "install"
  THEN script' = proc[a].version /\ stateDir' /\ Owns(crontab') = Block(proc[a].auto)
  ELSE script' = None /\ Owns(crontab') = <<>>

\* install that finds the crontab as it should be has nothing left to do.
LEMMA ListWhole ==
  ASSUME InstInv, NEW a \in Admin, ListCrontab(a), Succeeds(a),
         ~ Spoilt({"unread", "overlap"})
  PROVE  Whole(a)
<1>1. /\ proc[a].pc = "list" /\ proc[a].pc # "idle"
      /\ UNCHANGED <<crontab, script, stateDir>>
  BY ListOutcomes
<1>2. /\ proc[a] \in Commands /\ crontab \in Crontabs /\ Reached(proc[a])
      /\ proc[a].cmd \in {"install", "uninstall"} /\ None \in Crontabs
  BY <1>1, AtWork DEF InstInv, InstTypeOK, Crontabs, Commands
<1>3. ASSUME NEW c \in Crontabs, proc'[a] = ListSeen(proc[a], c)
      PROVE  proc[a].cmd = "install" /\ c = Desired(proc[a], c)
  BY <1>2, <1>3 DEF ListSeen, Content, Succeeds, Commands
<1>4. proc'[a] # [Idle EXCEPT !.outcome = "failed"]
  BY DEF Succeeds, Idle
<1>5. proc'[a] # ListSeen(proc[a], None)
  BY <1>2, <1>3, DesiredCrontab
<1>6. /\ proc[a].cmd = "install" /\ Decoded(crontab) \in Crontabs
      /\ Decoded(crontab) = Desired(proc[a], Decoded(crontab))
  BY <1>2, <1>3, <1>4, <1>5, ListOutcomes, DecodedCrontab
<1>7. Owns(crontab) = Block(proc[a].auto)
  BY <1>2, <1>6, DesiredCrontab, DecodedCrontab
<1>8. Owns(crontab') = Block(proc[a].auto) /\ script = proc[a].version /\ stateDir
  BY <1>1, <1>2, <1>6, <1>7 DEF Reached
<1> QED
  BY <1>1, <1>6, <1>8 DEF Whole

\* install that has written the crontab is done.
LEMMA WriteWhole ==
  ASSUME InstInv, NEW a \in Admin, WriteCrontab(a), Succeeds(a),
         ~ Spoilt({"unread", "overlap"})
  PROVE  Whole(a)
<1>1. proc[a].pc = "write" /\ proc[a].pc # "idle" /\ UNCHANGED <<script, stateDir>>
  BY DEF WriteCrontab
<1>2. /\ InstTypeOK /\ proc[a] \in Commands /\ Reached(proc[a])
      /\ proc[a].cmd \in {"install", "uninstall"} /\ proc[a].read \in Crontabs
  BY <1>1, AtWork DEF InstInv, InstTypeOK, Crontabs, Commands
<1>3. "look" \in Calls \ {"idle"} /\ "look" \in Calls
  BY DEF Calls
<1>4. ASSUME Goto(a, "look")
      PROVE  FALSE
  <2>1. proc'[a] = [proc[a] EXCEPT !.pc = "look"]
    BY <1>2, <1>3, <1>4, GotoType
  <2> QED
    BY <1>2, <2>1 DEF Succeeds, Commands
<1>5. ASSUME End(a, "failed")
      PROVE  FALSE
  <2>1. proc'[a] = [Idle EXCEPT !.outcome = "failed"]
    BY <1>2, <1>5, EndType
  <2> QED
    BY <2>1 DEF Succeeds, Idle
<1>6. crontab' = Desired(proc[a], proc[a].read) /\ proc[a].cmd = "install"
  BY <1>4, <1>5 DEF WriteCrontab
<1>7. Owns(Desired(proc[a], proc[a].read)) = Block(proc[a].auto)
  BY <1>2, <1>6, DesiredCrontab
<1>8. Owns(crontab') = Block(proc[a].auto)
  BY <1>6, <1>7
<1> QED
  BY <1>1, <1>2, <1>6, <1>8 DEF Whole, Reached

\* uninstall that has removed the script is done.
LEMMA RemoveWhole ==
  ASSUME InstInv, NEW a \in Admin, RemoveScript(a), Succeeds(a),
         ~ Spoilt({"unread", "overlap"})
  PROVE  Whole(a)
<1>1. proc[a].pc = "remove" /\ proc[a].pc # "idle" /\ UNCHANGED crontab
  BY DEF RemoveScript
<1>2. /\ InstTypeOK /\ proc[a] \in Commands /\ Reached(proc[a]) /\ Sane(proc[a])
      /\ proc[a].cmd \in {"install", "uninstall"}
  BY <1>1, AtWork DEF InstInv, InstTypeOK, Commands
<1>3. proc[a].cmd = "uninstall" /\ Owns(crontab) = <<>>
  BY <1>1, <1>2 DEF Sane, Reached
<1>4. ASSUME End(a, "failed")
      PROVE  FALSE
  <2>1. proc'[a] = [Idle EXCEPT !.outcome = "failed"]
    BY <1>2, <1>4, EndType
  <2> QED
    BY <2>1 DEF Succeeds, Idle
<1>5. script' = None
  BY <1>1, <1>2, <1>3, <1>4 DEF RemoveScript, Reached
<1> QED
  BY <1>1, <1>3, <1>5 DEF Whole

\* gc install and gc uninstall that report success have left exactly their block
\* and script, or nothing of either.
THEOREM SuccessAlwaysWhole == ISpec => SuccessIsWhole
<1> DEFINE Good == \A a \in Admin : Succeeds(a) /\ ~ Spoilt({"unread", "overlap"}) => Whole(a)
<1>1. ASSUME InstInv, INext, NEW a \in Admin, Succeeds(a), ~ Spoilt({"unread", "overlap"})
      PROVE  Whole(a)
  <2>1. ~ UNCHANGED proc
    BY <1>1 DEF Succeeds
  <2>2. PICK b \in Admin :
          \/ BeginInstall(b) \/ BeginUninstall(b) \/ Look(b)
          \/ Stage(b) \/ CopyScript(b) \/ SweepStaged(b) \/ EnsureStateDir(b)
          \/ ListCrontab(b) \/ WriteCrontab(b) \/ RemoveScript(b) \/ Kill(b)
    BY <1>1, <2>1 DEF INext, EditCrontab
  <2>3. CASE ListCrontab(b)
    <3>1. b = a
      BY <1>1, <2>3, ListOutcomes DEF Succeeds
    <3> QED
      BY <1>1, <2>3, <3>1, ListWhole
  <2>4. CASE WriteCrontab(b)
    <3>1. \E r : proc' = [proc EXCEPT ![b] = r]
      BY <2>4 DEF WriteCrontab, Goto, End
    <3>2. b = a
      BY <1>1, <3>1 DEF Succeeds, InstInv, InstTypeOK
    <3> QED
      BY <1>1, <2>4, <3>2, WriteWhole
  <2>5. CASE RemoveScript(b)
    <3>1. \E r : proc' = [proc EXCEPT ![b] = r]
      BY <2>5 DEF RemoveScript, Goto, End
    <3>2. b = a
      BY <1>1, <3>1 DEF Succeeds, InstInv, InstTypeOK
    <3> QED
      BY <1>1, <2>5, <3>2, RemoveWhole
  <2>6. CASE \/ BeginInstall(b) \/ BeginUninstall(b) \/ Look(b)
             \/ Stage(b) \/ CopyScript(b) \/ SweepStaged(b) \/ EnsureStateDir(b) \/ Kill(b)
    BY <1>1, <2>6, OthersSucceedNot DEF Succeeds
  <2> QED
    BY <2>2, <2>3, <2>4, <2>5, <2>6
<1>2. InstInv /\ [INext]_ivars => [Good]_ivars
  BY <1>1
<1>3. [Good]_ivars => [\A a \in Admin :
       /\ proc[a].pc # "idle" /\ proc'[a].pc = "idle" /\ proc'[a].outcome = "ok"
       /\ ~Spoilt({"unread", "overlap"})
       => IF proc[a].cmd = "install"
          THEN /\ script' = proc[a].version /\ stateDir'
               /\ Owns(crontab') = Block(proc[a].auto)
          ELSE script' = None /\ Owns(crontab') = <<>>]_ivars
  BY DEF Succeeds, Whole
<1> HIDE DEF Good
<1> QED
  BY <1>2, <1>3, InstallInvariance, PTL DEF ISpec, SuccessIsWhole
=============================================================================
