--------------------------- MODULE NotifierProofs ---------------------------
(*************************************************************************)
(* Proofs about Notifier, for any events, descriptors, timers and loops, *)
(* however deep handlers nest them.                                      *)
(*************************************************************************)
EXTENDS Notifier, SequenceTheorems, FiniteSetTheorems, WellFoundedInduction, TLAPS

-----------------------------------------------------------------------------
(* Induction over the numbers of a set, and what the model's recursive   *)
(* functions over a sequence are: they exist, as each step of a sequence *)
(* makes the next value from the one before.                             *)
LEMMA Numbers ==
  ASSUME NEW T, 0 \in T, \A n \in Nat : n \in T => n + 1 \in T
  PROVE  Nat \subseteq T
<1> DEFINE R == {ss \in Nat \X Nat : ss[1] < ss[2]}
           not == Nat \ T
<1> SUFFICES ASSUME not # {} PROVE FALSE
  OBVIOUS
<1>1. IsWellFoundedOn(R, Nat)
  BY NatLessThanWellFounded DEF OpToRel
<1>2. PICK i \in not : \A j \in not : ~(<<j, i>> \in R)
  <2>1. not \subseteq Nat
    OBVIOUS
  <2> HIDE DEF R, not
  <2> QED BY <1>1, <2>1, WFMin
<1>3. i # 0 /\ i - 1 \in Nat /\ (i - 1) + 1 = i
  BY <1>2
<1>4. i - 1 \in not
  BY <1>2, <1>3
<1>5. <<i - 1, i>> \in Nat \X Nat /\ <<i - 1, i>>[1] < <<i - 1, i>>[2]
  BY <1>2, <1>3
<1> QED BY <1>2, <1>4, <1>5

KeptUpTo(s, these) ==
  LET kept[i \in 0 .. Len(s)] ==
          IF i = 0 THEN <<>>
          ELSE IF s[i] \in these THEN Append(kept[i - 1], s[i]) ELSE kept[i - 1]
  IN  kept

KeptBody(k, n, s, these) ==
  k = [i \in 0 .. n |-> IF i = 0 THEN <<>>
                        ELSE IF s[i] \in these THEN Append(k[i - 1], s[i]) ELSE k[i - 1]]

LEMMA KeptExists ==
  ASSUME NEW s, NEW these
  PROVE  \A n \in Nat : \E k : KeptBody(k, n, s, these)
<1> DEFINE T == {n \in Nat : \E k : KeptBody(k, n, s, these)}
<1>1. 0 \in T
  <2>1. KeptBody([i \in 0 .. 0 |-> <<>>], 0, s, these)
    BY DEF KeptBody
  <2> QED BY <2>1
<1>2. ASSUME NEW n \in Nat, n \in T PROVE n + 1 \in T
  <2>1. PICK k : KeptBody(k, n, s, these)
    BY <1>2
  <2> DEFINE end == IF s[n + 1] \in these THEN Append(k[n], s[n + 1]) ELSE k[n]
             h    == [i \in 0 .. n + 1 |-> IF i = n + 1 THEN end ELSE k[i]]
  <2>2. \A i \in 0 .. n : h[i] = k[i]
    OBVIOUS
  <2>3. \A i \in 0 .. n : k[i] = IF i = 0 THEN <<>>
                          ELSE IF s[i] \in these THEN Append(k[i - 1], s[i]) ELSE k[i - 1]
    BY <2>1, Zenon DEF KeptBody
  <2>4. h[n + 1] = end
    OBVIOUS
  <2>5. ASSUME NEW i \in 0 .. n + 1
        PROVE  h[i] = IF i = 0 THEN <<>>
                      ELSE IF s[i] \in these THEN Append(h[i - 1], s[i]) ELSE h[i - 1]
    <3>1. CASE i = n + 1
      <4>1. h[n] = k[n] /\ i - 1 = n /\ i # 0
        BY <2>2, <3>1
      <4> QED BY <2>4, <3>1, <4>1
    <3>2. CASE i \in 0 .. n
      <4>1. h[i] = k[i] /\ (i # 0 => h[i - 1] = k[i - 1])
        BY <2>2, <3>2
      <4> HIDE DEF h
      <4> QED BY <2>3, <3>2, <4>1
    <3> QED BY <3>1, <3>2
  <2>6. KeptBody(h, n + 1, s, these)
    <3> DEFINE g == [i \in 0 .. n + 1 |-> IF i = 0 THEN <<>>
                      ELSE IF s[i] \in these THEN Append(h[i - 1], s[i]) ELSE h[i - 1]]
    <3>1. h = [i \in 0 .. n + 1 |-> h[i]]
      OBVIOUS
    <3> HIDE DEF h
    <3>2. h = g
      BY <2>5, <3>1
    <3> QED BY <3>2 DEF KeptBody
  <2> HIDE DEF h
  <2> QED BY <2>6
<1> HIDE DEF T
<1>3. Nat \subseteq T
  BY <1>1, <1>2, Numbers
<1> QED BY <1>3 DEF T

LEMMA KeptSteps ==
  ASSUME NEW S, NEW s \in Seq(S), NEW these
  PROVE  /\ KeptUpTo(s, these)[0] = <<>>
         /\ \A i \in 1 .. Len(s) :
              KeptUpTo(s, these)[i] =
                IF s[i] \in these THEN Append(KeptUpTo(s, these)[i - 1], s[i])
                ELSE KeptUpTo(s, these)[i - 1]
         /\ Keeping(s, these) = KeptUpTo(s, these)[Len(s)]
<1> DEFINE k == KeptUpTo(s, these)
<1>1. Len(s) \in Nat
  OBVIOUS
<1>2. KeptBody(k, Len(s), s, these)
  <2>1. \E f : KeptBody(f, Len(s), s, these)
    BY <1>1, KeptExists
  <2> QED BY <2>1 DEF KeptUpTo, KeptBody
<1>3. \A i \in 0 .. Len(s) :
         k[i] = IF i = 0 THEN <<>>
                ELSE IF s[i] \in these THEN Append(k[i - 1], s[i]) ELSE k[i - 1]
  <2> HIDE DEF k
  <2> QED BY <1>2, Zenon DEF KeptBody
<1>4. Keeping(s, these) = k[Len(s)]
  BY DEF Keeping, KeptUpTo
<1> HIDE DEF k
<1>5. k[0] = <<>> /\ \A i \in 1 .. Len(s) : k[i] = IF s[i] \in these THEN Append(k[i - 1], s[i]) ELSE k[i - 1]
  BY <1>1, <1>3
<1> QED BY <1>4, <1>5 DEF k

(* What of a longer sequence is kept.                                    *)
LEMMA KeepingNone ==
  ASSUME NEW these
  PROVE  Keeping(<<>>, these) = <<>>
<1> DEFINE S == {0}
<1>1. <<>> \in Seq(S) /\ Len(<<>>) = 0
  OBVIOUS
<1> HIDE DEF S
<1>2. Keeping(<<>>, these) = KeptUpTo(<<>>, these)[Len(<<>>)] /\ KeptUpTo(<<>>, these)[0] = <<>>
  BY <1>1, KeptSteps
<1> QED BY <1>1, <1>2

LEMMA KeepingAppend ==
  ASSUME NEW S, NEW s \in Seq(S), NEW x \in S, NEW these
  PROVE  Keeping(Append(s, x), these) =
           IF x \in these THEN Append(Keeping(s, these), x) ELSE Keeping(s, these)
<1> DEFINE l == Append(s, x)
           k == KeptUpTo(s, these)
           m == KeptUpTo(l, these)
           T == {n \in Nat : n <= Len(s) => m[n] = k[n]}
<1>1. /\ l \in Seq(S) /\ Len(l) = Len(s) + 1 /\ Len(s) \in Nat /\ l[Len(s) + 1] = x
      /\ \A i \in 1 .. Len(s) : l[i] = s[i]
  OBVIOUS
<1> HIDE DEF l
<1>2. /\ m[0] = <<>> /\ Keeping(l, these) = m[Len(l)]
      /\ \A i \in 1 .. Len(l) : m[i] = IF l[i] \in these THEN Append(m[i - 1], l[i]) ELSE m[i - 1]
  BY <1>1, KeptSteps
<1>3. /\ k[0] = <<>> /\ Keeping(s, these) = k[Len(s)]
      /\ \A i \in 1 .. Len(s) : k[i] = IF s[i] \in these THEN Append(k[i - 1], s[i]) ELSE k[i - 1]
  BY KeptSteps
<1> HIDE DEF k, m
<1>4. 0 \in T
  BY <1>2, <1>3
<1>5. ASSUME NEW n \in Nat, n \in T PROVE n + 1 \in T
  <2> SUFFICES ASSUME n + 1 <= Len(s) PROVE m[n + 1] = k[n + 1]
    OBVIOUS
  <2>1. n + 1 \in 1 .. Len(s) /\ n + 1 \in 1 .. Len(l) /\ (n + 1) - 1 = n /\ m[n] = k[n]
    BY <1>1, <1>5
  <2> QED BY <1>1, <1>2, <1>3, <2>1
<1> HIDE DEF T
<1>6. Len(s) \in T
  BY <1>1, <1>4, <1>5, Numbers
<1>7. m[Len(s)] = k[Len(s)]
  BY <1>6 DEF T
<1>8. m[Len(s) + 1] = IF l[Len(s) + 1] \in these THEN Append(m[Len(s)], l[Len(s) + 1]) ELSE m[Len(s)]
  <2>1. Len(s) + 1 \in 1 .. Len(l) /\ (Len(s) + 1) - 1 = Len(s)
    BY <1>1
  <2> QED BY <1>2, <2>1
<1> QED BY <1>1, <1>2, <1>3, <1>7, <1>8 DEF l

(* Induction over sequences, as sequences are longer one by one.         *)
LEMMA Longer ==
  ASSUME NEW S, NEW T, <<>> \in T,
         \A s \in Seq(S), x \in S : s \in T => Append(s, x) \in T
  PROVE  Seq(S) \subseteq T
<1> DEFINE N == {n \in Nat : \A s \in Seq(S) : Len(s) = n => s \in T}
<1>1. 0 \in N
  <2>1. \A s \in Seq(S) : Len(s) = 0 => s = <<>>
    OBVIOUS
  <2> QED BY <2>1
<1>2. ASSUME NEW n \in Nat, n \in N PROVE n + 1 \in N
  <2> SUFFICES ASSUME NEW s \in Seq(S), Len(s) = n + 1 PROVE s \in T
    OBVIOUS
  <2>1. s # <<>>
    OBVIOUS
  <2>2. PICK t \in Seq(S), x \in S : s = Append(t, x)
    BY <2>1, SequenceEmptyOrAppend
  <2>3. Len(t) = n
    BY <2>2
  <2> QED BY <1>2, <2>2, <2>3
<1> HIDE DEF N
<1>3. Nat \subseteq N
  BY <1>1, <1>2, Numbers
<1> QED BY <1>3 DEF N

LEMMA KeepingIs ==
  ASSUME NEW S, NEW s \in Seq(S), NEW these
  PROVE  /\ Keeping(s, these) \in Seq(S)
         /\ ToSet(Keeping(s, these)) = ToSet(s) \cap these
<1> DEFINE T == {t \in Seq(S) : /\ Keeping(t, these) \in Seq(S)
                                /\ ToSet(Keeping(t, these)) = ToSet(t) \cap these}
<1>0. ASSUME NEW t \in Seq(S), NEW x \in S PROVE ToSet(Append(t, x)) = ToSet(t) \cup {x}
  <2>1. /\ DOMAIN Append(t, x) = DOMAIN t \cup {Len(t) + 1} /\ Append(t, x)[Len(t) + 1] = x
        /\ \A i \in DOMAIN t : Append(t, x)[i] = t[i]
    OBVIOUS
  <2> QED BY <2>1 DEF ToSet
<1>1. <<>> \in T
  <2>1. <<>> \in Seq(S) /\ ToSet(<<>>) = {}
    BY DEF ToSet
  <2> QED BY <2>1, KeepingNone
<1>2. ASSUME NEW t \in Seq(S), NEW x \in S, t \in T PROVE Append(t, x) \in T
  <2> DEFINE k == Keeping(t, these)
             l == Keeping(Append(t, x), these)
  <2>1. k \in Seq(S) /\ ToSet(k) = ToSet(t) \cap these
    BY <1>2
  <2>2. l = IF x \in these THEN Append(k, x) ELSE k
    BY KeepingAppend
  <2>3. ToSet(Append(t, x)) = ToSet(t) \cup {x}
    BY <1>0
  <2>4. Append(t, x) \in Seq(S)
    OBVIOUS
  <2> HIDE DEF k, l
  <2>5. ToSet(Append(k, x)) = ToSet(k) \cup {x} /\ Append(k, x) \in Seq(S)
    BY <1>0, <2>1
  <2>6. l \in Seq(S) /\ ToSet(l) = ToSet(Append(t, x)) \cap these
    <3>1. CASE x \in these
      BY <2>1, <2>2, <2>3, <2>5, <3>1, Zenon
    <3>2. CASE x \notin these
      BY <2>1, <2>2, <2>3, <3>2
    <3> QED BY <3>1, <3>2
  <2> QED BY <2>4, <2>6 DEF l
<1> HIDE DEF T
<1>3. s \in T
  BY <1>1, <1>2, Longer
<1> QED BY <1>3 DEF T

(* Insertion, removal and the ends of sequences.                         *)
LEMMA Inserted ==
  ASSUME NEW S, NEW s \in Seq(S), NEW x \in S, NEW p \in 1 .. Len(s) + 1
  PROVE  /\ InsertAt(s, p, x) \in Seq(S) /\ Len(InsertAt(s, p, x)) = Len(s) + 1
         /\ \A i \in 1 .. Len(s) + 1 :
              InsertAt(s, p, x)[i] = IF i < p THEN s[i] ELSE IF i = p THEN x ELSE s[i - 1]
<1> DEFINE a == SubSeq(s, 1, p - 1)
           b == SubSeq(s, p, Len(s))
           c == <<x>>
<1>1. /\ a \in Seq(S) /\ Len(a) = p - 1 /\ \A i \in 1 .. p - 1 : a[i] = s[i]
      /\ b \in Seq(S) /\ Len(b) = Len(s) + 1 - p /\ \A i \in 1 .. Len(b) : b[i] = s[p + i - 1]
      /\ c \in Seq(S) /\ Len(c) = 1 /\ c[1] = x
  <2>1. p \in Int /\ p - 1 \in Int /\ Len(s) \in Nat /\ p <= Len(s) + 1 /\ 1 <= p
    OBVIOUS
  <2>2. \A i \in 1 .. p - 1 : s[i] \in S
    OBVIOUS
  <2>3. \A i \in p .. Len(s) : s[i] \in S
    OBVIOUS
  <2>4. a \in Seq(S) /\ Len(a) = p - 1 /\ \A i \in 1 .. p - 1 : a[i] = s[i]
    BY <2>1, <2>2, SubSeqProperties
  <2>5. b \in Seq(S) /\ Len(b) = Len(s) + 1 - p /\ \A i \in 1 .. Len(b) : b[i] = s[p + i - 1]
    BY <2>1, <2>3, SubSeqProperties
  <2> QED BY <2>4, <2>5
<1>2. InsertAt(s, p, x) = (a \o c) \o b
  BY DEF InsertAt
<1> HIDE DEF a, b, c
<1> DEFINE d == a \o c
<1>3. /\ d \in Seq(S) /\ Len(d) = p
      /\ \A i \in 1 .. p : d[i] = IF i < p THEN s[i] ELSE x
  <2>1. /\ d \in Seq(S) /\ Len(d) = Len(a) + Len(c)
        /\ \A i \in 1 .. Len(a) + Len(c) : d[i] = IF i <= Len(a) THEN a[i] ELSE c[i - Len(a)]
    BY <1>1, ConcatProperties
  <2> HIDE DEF d
  <2>2. \A i \in 1 .. p - 1 : d[i] = s[i]
    <3>1. ASSUME NEW i \in 1 .. p - 1 PROVE d[i] = s[i]
      <4>1. i \in 1 .. Len(a) + Len(c) /\ i <= Len(a) /\ a[i] = s[i]
        BY <1>1
      <4> QED BY <2>1, <4>1
    <3> QED BY <3>1
  <2>3. d[p] = c[1]
    <3>1. p \in 1 .. Len(a) + Len(c) /\ ~(p <= Len(a)) /\ p - Len(a) = 1
      BY <1>1
    <3> QED BY <2>1, <3>1
  <2> QED BY <1>1, <2>1, <2>2, <2>3
<1> HIDE DEF d
<1>4. /\ d \o b \in Seq(S) /\ Len(d \o b) = Len(d) + Len(b)
      /\ \A i \in 1 .. Len(d) + Len(b) : (d \o b)[i] = IF i <= Len(d) THEN d[i] ELSE b[i - Len(d)]
  BY <1>1, <1>3, ConcatProperties
<1>5. InsertAt(s, p, x) = d \o b
  BY <1>2 DEF d
<1> DEFINE r == InsertAt(s, p, x)
<1>6. /\ r \in Seq(S) /\ Len(r) = Len(d) + Len(b)
      /\ \A i \in 1 .. Len(d) + Len(b) : r[i] = IF i <= Len(d) THEN d[i] ELSE b[i - Len(d)]
  BY <1>4, <1>5
<1> HIDE DEF r
<1>7. Len(r) = Len(s) + 1
  BY <1>1, <1>3, <1>6
<1>8. ASSUME NEW i \in 1 .. Len(s) + 1
      PROVE  r[i] = IF i < p THEN s[i] ELSE IF i = p THEN x ELSE s[i - 1]
  <2>1. i \in 1 .. Len(d) + Len(b)
    BY <1>1, <1>3
  <2>2. CASE i <= p
    BY <1>3, <1>6, <2>1, <2>2
  <2>3. CASE i > p
    <3>1. i - p \in 1 .. Len(b) /\ r[i] = b[i - p]
      BY <1>1, <1>3, <1>6, <2>1, <2>3
    <3>2. b[i - p] = s[p + (i - p) - 1] /\ p + (i - p) - 1 = i - 1
      BY <1>1, <3>1, SMTT(30)
    <3> QED BY <2>3, <3>1, <3>2
  <2> QED BY <2>2, <2>3
<1> QED BY <1>6, <1>7, <1>8 DEF r

LEMMA Removed ==
  ASSUME NEW S, NEW s \in Seq(S), NEW p \in 1 .. Len(s)
  PROVE  /\ RemoveAt(s, p) \in Seq(S) /\ Len(RemoveAt(s, p)) = Len(s) - 1
         /\ \A i \in 1 .. Len(s) - 1 : RemoveAt(s, p)[i] = IF i < p THEN s[i] ELSE s[i + 1]
<1> DEFINE a == SubSeq(s, 1, p - 1)
           b == SubSeq(s, p + 1, Len(s))
<1>1. /\ a \in Seq(S) /\ Len(a) = p - 1 /\ \A i \in 1 .. p - 1 : a[i] = s[i]
      /\ b \in Seq(S) /\ Len(b) = Len(s) - p /\ \A i \in 1 .. Len(b) : b[i] = s[p + i]
  <2>1. p \in Int /\ p - 1 \in Int /\ p + 1 \in Int /\ Len(s) \in Nat /\ p <= Len(s) /\ 1 <= p
    OBVIOUS
  <2>2. \A i \in 1 .. p - 1 : s[i] \in S
    OBVIOUS
  <2>3. \A i \in p + 1 .. Len(s) : s[i] \in S
    OBVIOUS
  <2>4. a \in Seq(S) /\ Len(a) = p - 1 /\ \A i \in 1 .. p - 1 : a[i] = s[i]
    BY <2>1, <2>2, SubSeqProperties
  <2>5. /\ b \in Seq(S) /\ Len(b) = IF p + 1 <= Len(s) THEN Len(s) - (p + 1) + 1 ELSE 0
        /\ \A i \in 1 .. Len(s) - (p + 1) + 1 : b[i] = s[p + 1 + i - 1]
    BY <2>1, <2>3, SubSeqProperties
  <2>6. Len(b) = Len(s) - p
    BY <2>1, <2>5
  <2>7. ASSUME NEW i \in 1 .. Len(b) PROVE b[i] = s[p + i]
    BY <2>1, <2>5, <2>6
  <2> QED BY <2>4, <2>5, <2>6, <2>7
<1>2. RemoveAt(s, p) = a \o b
  BY DEF RemoveAt
<1> HIDE DEF a, b
<1>3. /\ a \o b \in Seq(S) /\ Len(a \o b) = Len(a) + Len(b)
      /\ \A i \in 1 .. Len(a) + Len(b) : (a \o b)[i] = IF i <= Len(a) THEN a[i] ELSE b[i - Len(a)]
  BY <1>1, ConcatProperties
<1> DEFINE r == RemoveAt(s, p)
<1>4. /\ r \in Seq(S) /\ Len(r) = Len(a) + Len(b)
      /\ \A i \in 1 .. Len(a) + Len(b) : r[i] = IF i <= Len(a) THEN a[i] ELSE b[i - Len(a)]
  BY <1>2, <1>3
<1> HIDE DEF r
<1>5. ASSUME NEW i \in 1 .. Len(s) - 1 PROVE r[i] = IF i < p THEN s[i] ELSE s[i + 1]
  <2>1. i \in 1 .. Len(a) + Len(b)
    BY <1>1
  <2>2. CASE i < p
    BY <1>1, <1>4, <2>1, <2>2
  <2>3. CASE i >= p
    <3>1. i - (p - 1) \in 1 .. Len(b) /\ r[i] = b[i - (p - 1)]
      BY <1>1, <1>4, <2>1, <2>3
    <3>2. b[i - (p - 1)] = s[p + (i - (p - 1))] /\ p + (i - (p - 1)) = i + 1
      BY <1>1, <3>1
    <3> QED BY <2>3, <3>1, <3>2
  <2> QED BY <2>2, <2>3
<1> QED BY <1>1, <1>4, <1>5 DEF r

LEMMA Fronted ==
  ASSUME NEW S, NEW s \in Seq(S), s # <<>>
  PROVE  /\ Front(s) \in Seq(S) /\ Len(Front(s)) = Len(s) - 1
         /\ \A i \in 1 .. Len(s) - 1 : Front(s)[i] = s[i]
         /\ Last(s) \in S /\ s = Append(Front(s), Last(s))
<1>1. Len(s) \in Nat /\ Len(s) >= 1 /\ \A i \in 1 .. Len(s) : s[i] \in S
  OBVIOUS
<1> DEFINE f == SubSeq(s, 1, Len(s) - 1)
<1>2. f \in Seq(S) /\ Len(f) = Len(s) - 1 /\ \A i \in 1 .. Len(s) - 1 : f[i] = s[i]
  <2> DEFINE n == Len(s) - 1
  <2>1. n \in Nat /\ \A i \in 1 .. n : s[i] \in S
    BY <1>1
  <2> HIDE DEF n
  <2>2. /\ SubSeq(s, 1, n) \in Seq(S) /\ Len(SubSeq(s, 1, n)) = n
        /\ \A i \in 1 .. n : SubSeq(s, 1, n)[i] = s[i]
    <3>1. /\ SubSeq(s, 1, n) \in Seq(S)
          /\ Len(SubSeq(s, 1, n)) = IF 1 <= n THEN n - 1 + 1 ELSE 0
          /\ \A i \in 1 .. n - 1 + 1 : SubSeq(s, 1, n)[i] = s[1 + i - 1]
      BY <2>1, SubSeqProperties
    <3> QED BY <2>1, <3>1
  <2> QED BY <2>2 DEF n
<1>3. f = Front(s) /\ Last(s) = s[Len(s)]
  BY DEF Front, Last
<1> HIDE DEF f
<1>4. Append(f, Last(s)) \in Seq(S) /\ Len(Append(f, Last(s))) = Len(s)
  BY <1>1, <1>2, <1>3
<1>5. \A i \in 1 .. Len(s) : Append(f, Last(s))[i] = s[i]
  BY <1>1, <1>2, <1>3
<1>6. s = Append(f, Last(s))
  BY <1>4, <1>5, SeqEqual
<1> QED BY <1>1, <1>2, <1>3, <1>6

LEMMA TopSet ==
  ASSUME NEW S, stack \in Seq(S), Running, NEW f \in S, SetTop(f)
  PROVE  /\ Top \in S /\ Top = stack[Len(stack)] /\ Len(stack) \in Nat \ {0}
         /\ stack' \in Seq(S) /\ Len(stack') = Len(stack)
         /\ \A i \in 1 .. Len(stack) : stack'[i] = IF i = Len(stack) THEN f ELSE stack[i]
BY DEF Running, SetTop, Top, Last

LEMMA LoopLeft ==
  ASSUME NEW S, stack \in Seq(S), Running, Leave
  PROVE  /\ Top \in S /\ Top = stack[Len(stack)] /\ Len(stack) \in Nat \ {0}
         /\ stack' \in Seq(S) /\ Len(stack') = Len(stack) - 1
         /\ \A i \in 1 .. Len(stack) - 1 : stack'[i] = stack[i]
         /\ stack = Append(stack', Top)
<1>1. stack # <<>> /\ stack' = Front(stack) /\ Top = Last(stack)
  BY DEF Running, Leave, Top
<1> QED BY <1>1, Fronted DEF Top, Last

LEMMA Entered ==
  ASSUME NEW S, stack \in Seq(S), NEW f \in S, stack' = Append(stack, f)
  PROVE  /\ stack' \in Seq(S) /\ Len(stack') = Len(stack) + 1 /\ Len(stack) \in Nat
         /\ \A i \in 1 .. Len(stack) : stack'[i] = stack[i]
         /\ stack'[Len(stack) + 1] = f
OBVIOUS

-----------------------------------------------------------------------------
(* Whose turn it is.  Timers are in order; and what a drain or a pass    *)
(* stops at separates what had been made when it began from what came    *)
(* after, whatever loops inside it have begun since.                     *)
Timer  == [time : Int, token : Nat, id : Nat]
Idler  == [generation : Nat, id : Nat]
Doings == Kinds \cup {"none", "drain", "pass", "over"}

(* A loop as far as turns go: the values of its other fields are in X.   *)
LoopOf(X) ==
  [call : X, flags : X, pc : X, result : X, mode : X, until : X, at : X, ev : X, saved : X,
   doing : Doings, limit : Nat, time : X, seen : Nat]

Counting ==
  /\ made \in Nat /\ last_timer_id \in Nat /\ idle_generation \in Nat /\ now \in Nat
  /\ timers \in Seq(Timer) /\ idles \in Seq(Idler)
  /\ \A i \in 1 .. Len(timers) : timers[i].token <= last_timer_id /\ timers[i].id <= made
  /\ \A i \in 1 .. Len(idles) : idles[i].generation <= idle_generation /\ idles[i].id <= made

Before(t, u) ==
  \/ t.time < u.time
  \/ t.time = u.time /\ t.id < u.id

Ordered == \A i, j \in 1 .. Len(timers) : i < j => Before(timers[i], timers[j])

Draining(f) ==
  f.doing \in {"drain", "timer"} =>
    /\ f.limit <= last_timer_id /\ f.seen <= made
    /\ \A i \in 1 .. Len(timers) : timers[i].token <= f.limit => timers[i].id <= f.seen

Passing(f) ==
  f.doing \in {"pass", "idle"} =>
    /\ f.limit < idle_generation /\ f.seen <= made
    /\ \A i \in 1 .. Len(idles) : idles[i].generation <= f.limit => idles[i].id <= f.seen

InTurn ==
  /\ Counting /\ Ordered
  /\ \E X : stack \in Seq(LoopOf(X))
  /\ \A i \in 1 .. Len(stack) : Draining(stack[i]) /\ Passing(stack[i])

(* Nothing comes that counts, or it comes last.                          *)
NoneSooner ==
  /\ Counting' /\ Ordered'
  /\ made <= made' /\ last_timer_id <= last_timer_id' /\ idle_generation <= idle_generation'
  /\ \A i \in 1 .. Len(timers') :
       \/ \E j \in 1 .. Len(timers) : timers'[i] = timers[j]
       \/ timers'[i].token > last_timer_id
  /\ \A i \in 1 .. Len(idles') :
       \/ \E j \in 1 .. Len(idles) : idles'[i] = idles[j]
       \/ idles'[i].generation >= idle_generation

LEMMA StillDraining ==
  ASSUME Counting, NoneSooner, NEW X, NEW f \in LoopOf(X), Draining(f), Passing(f)
  PROVE  Draining(f)' /\ Passing(f)'
<1>1. f.limit \in Nat /\ f.seen \in Nat
  BY DEF LoopOf
<1>2. /\ made \in Nat /\ last_timer_id \in Nat /\ idle_generation \in Nat
      /\ made' \in Nat /\ last_timer_id' \in Nat /\ idle_generation' \in Nat
      /\ \A i \in 1 .. Len(timers') : timers'[i].token \in Nat
      /\ \A i \in 1 .. Len(idles') : idles'[i].generation \in Nat
  <2>1. /\ made' \in Nat /\ last_timer_id' \in Nat /\ idle_generation' \in Nat
        /\ timers' \in Seq(Timer) /\ idles' \in Seq(Idler)
    BY DEF Counting, NoneSooner
  <2>2. ASSUME NEW i \in 1 .. Len(timers') PROVE timers'[i].token \in Nat
    <3>1. timers'[i] \in Timer
      BY <2>1, ElementOfSeq
    <3> QED BY <3>1 DEF Timer
  <2>3. ASSUME NEW i \in 1 .. Len(idles') PROVE idles'[i].generation \in Nat
    <3>1. idles'[i] \in Idler
      BY <2>1, ElementOfSeq
    <3> QED BY <3>1 DEF Idler
  <2> QED BY <2>1, <2>2, <2>3 DEF Counting
<1>3. Draining(f)'
  <2> SUFFICES ASSUME f.doing \in {"drain", "timer"}
               PROVE  /\ f.limit <= last_timer_id' /\ f.seen <= made'
                      /\ \A i \in 1 .. Len(timers') : timers'[i].token <= f.limit => timers'[i].id <= f.seen
    BY DEF Draining
  <2>1. /\ f.limit <= last_timer_id /\ f.seen <= made
        /\ \A i \in 1 .. Len(timers) : timers[i].token <= f.limit => timers[i].id <= f.seen
    BY DEF Draining
  <2>2. ASSUME NEW i \in 1 .. Len(timers'), timers'[i].token <= f.limit PROVE timers'[i].id <= f.seen
    <3>1. ~(timers'[i].token > last_timer_id)
      BY <1>1, <1>2, <2>1, <2>2
    <3>2. PICK j \in 1 .. Len(timers) : timers'[i] = timers[j]
      BY <3>1 DEF NoneSooner
    <3> QED BY <2>1, <2>2, <3>2
  <2> QED BY <1>1, <1>2, <2>1, <2>2 DEF NoneSooner
<1>4. Passing(f)'
  <2> SUFFICES ASSUME f.doing \in {"pass", "idle"}
               PROVE  /\ f.limit < idle_generation' /\ f.seen <= made'
                      /\ \A i \in 1 .. Len(idles') : idles'[i].generation <= f.limit => idles'[i].id <= f.seen
    BY DEF Passing
  <2>1. /\ f.limit < idle_generation /\ f.seen <= made
        /\ \A i \in 1 .. Len(idles) : idles[i].generation <= f.limit => idles[i].id <= f.seen
    BY DEF Passing
  <2>2. ASSUME NEW i \in 1 .. Len(idles'), idles'[i].generation <= f.limit PROVE idles'[i].id <= f.seen
    <3>1. ~(idles'[i].generation >= idle_generation)
      BY <1>1, <1>2, <2>1, <2>2
    <3>2. PICK j \in 1 .. Len(idles) : idles'[i] = idles[j]
      BY <3>1 DEF NoneSooner
    <3> QED BY <2>1, <2>2, <3>2
  <2> QED BY <1>1, <1>2, <2>1, <2>2 DEF NoneSooner
<1> QED BY <1>3, <1>4

LEMMA QuietTurns ==
  ASSUME Counting, Ordered, UNCHANGED <<timers, last_timer_id, idles, idle_generation>>,
         made' \in Nat, made <= made', now' \in Nat
  PROVE  NoneSooner
<1>1. /\ made \in Nat /\ last_timer_id \in Nat /\ idle_generation \in Nat
      /\ \A i \in 1 .. Len(timers) : timers[i].id \in Nat
      /\ \A i \in 1 .. Len(idles) : idles[i].id \in Nat
  <2>1. ASSUME NEW i \in 1 .. Len(timers) PROVE timers[i].id \in Nat
    <3>1. timers[i] \in Timer
      BY ElementOfSeq DEF Counting
    <3> QED BY <3>1 DEF Timer
  <2>2. ASSUME NEW i \in 1 .. Len(idles) PROVE idles[i].id \in Nat
    <3>1. idles[i] \in Idler
      BY ElementOfSeq DEF Counting
    <3> QED BY <3>1 DEF Idler
  <2> QED BY <2>1, <2>2 DEF Counting
<1>2. Counting'
  BY <1>1 DEF Counting
<1>3. Ordered'
  BY DEF Ordered, Before
<1> QED BY <1>1, <1>2, <1>3 DEF NoneSooner

LEMMA OutsideTurns ==
  ASSUME InTurn, NoneSooner, UNCHANGED stack
  PROVE  InTurn'
<1>1. PICK X : stack \in Seq(LoopOf(X))
  BY DEF InTurn
<1>2. ASSUME NEW i \in 1 .. Len(stack) PROVE Draining(stack[i])' /\ Passing(stack[i])'
  <2>1. stack[i] \in LoopOf(X) /\ Draining(stack[i]) /\ Passing(stack[i]) /\ Counting
    BY <1>1, ElementOfSeq DEF InTurn
  <2> DEFINE f == stack[i]
  <2>2. f' = f
    OBVIOUS
  <2> HIDE DEF f
  <2>3. f \in LoopOf(X) /\ Draining(f) /\ Passing(f)
    BY <2>1 DEF f
  <2>4. ASSUME NEW g \in LoopOf(X), Draining(g), Passing(g) PROVE Draining(g)' /\ Passing(g)'
    BY <2>1, <2>4, StillDraining
  <2>5. PICK g : g = f
    OBVIOUS
  <2>6. Draining(g)' /\ Passing(g)'
    BY <2>3, <2>4, <2>5
  <2> QED BY <2>2, <2>5, <2>6 DEF f, Draining, Passing
<1> QED BY <1>1, <1>2 DEF InTurn, NoneSooner

(* The innermost loop goes on, one begins or one ends.                   *)
SameTurn(f, g) == f.limit = g.limit /\ f.seen = g.seen

LEMMA LoopsOf ==
  ASSUME NEW X, NEW Z, X \subseteq Z
  PROVE  LoopOf(X) \subseteq LoopOf(Z)
BY DEF LoopOf

LEMMA TopTurns ==
  ASSUME InTurn, NoneSooner, Running, NEW Y, NEW f \in LoopOf(Y), SetTop(f),
         Draining(f)', Passing(f)'
  PROVE  InTurn'
<1>1. PICK X : stack \in Seq(LoopOf(X))
  BY DEF InTurn
<1> DEFINE S == LoopOf(X \cup Y)
<1>2. stack \in Seq(S) /\ f \in S
  <2>1. LoopOf(X) \subseteq S /\ LoopOf(Y) \subseteq S
    <3>1. X \subseteq X \cup Y /\ Y \subseteq X \cup Y
      OBVIOUS
    <3> QED BY <3>1, LoopsOf
  <2> HIDE DEF S
  <2> QED BY <1>1, <2>1
<1> HIDE DEF S
<1>3. /\ stack' \in Seq(S) /\ Len(stack') = Len(stack) /\ Len(stack) \in Nat
      /\ \A i \in 1 .. Len(stack) : stack'[i] = IF i = Len(stack) THEN f ELSE stack[i]
  BY <1>2, TopSet
<1>4. ASSUME NEW i \in 1 .. Len(stack') PROVE (Draining(stack[i]) /\ Passing(stack[i]))'
  <2>1. CASE i = Len(stack)
    <3>1. stack'[i] = f
      BY <1>3, <2>1
    <3> QED BY <3>1 DEF Draining, Passing
  <2>2. CASE i # Len(stack)
    <3>1. i \in 1 .. Len(stack) /\ stack'[i] = stack[i]
      BY <1>3, <2>2
    <3>2. stack[i] \in LoopOf(X) /\ Draining(stack[i]) /\ Passing(stack[i]) /\ Counting
      BY <1>1, <3>1, ElementOfSeq DEF InTurn
    <3>3. PICK g : g = stack[i]
      OBVIOUS
    <3>4. g \in LoopOf(X) /\ Draining(g) /\ Passing(g)
      BY <3>2, <3>3
    <3>5. Draining(g)' /\ Passing(g)'
      BY <3>2, <3>4, StillDraining
    <3> QED BY <3>1, <3>3, <3>5 DEF Draining, Passing
  <2> QED BY <2>1, <2>2
<1> QED BY <1>3, <1>4 DEF InTurn, NoneSooner, S

LEMMA TopStays ==
  ASSUME InTurn, NoneSooner, Running, NEW Y, NEW f \in LoopOf(Y), SetTop(f),
         \/ f.doing \notin {"drain", "timer", "pass", "idle"}
         \/ SameTurn(f, Top) /\ {f.doing, Top.doing} \subseteq {"drain", "timer"}
         \/ SameTurn(f, Top) /\ {f.doing, Top.doing} \subseteq {"pass", "idle"}
  PROVE  InTurn'
<1>1. PICK X : stack \in Seq(LoopOf(X))
  BY DEF InTurn
<1>2. Top \in LoopOf(X) /\ Draining(Top) /\ Passing(Top) /\ Counting
  <2>1. Top = stack[Len(stack)] /\ Len(stack) \in 1 .. Len(stack)
    BY <1>1 DEF Running, Top, Last
  <2> QED BY <1>1, <2>1, ElementOfSeq DEF InTurn
<1>3. PICK g : g = Top
  OBVIOUS
<1>4. Draining(g)' /\ Passing(g)'
  BY <1>2, <1>3, StillDraining
<1>5. Draining(f)' /\ Passing(f)'
  BY <1>3, <1>4 DEF Draining, Passing, SameTurn
<1> QED BY <1>5, TopTurns

LEMMA TopIs ==
  ASSUME InTurn, Running
  PROVE  \E X : Top \in LoopOf(X)
<1>1. PICK X : stack \in Seq(LoopOf(X))
  BY DEF InTurn
<1>2. Top = stack[Len(stack)] /\ Len(stack) \in 1 .. Len(stack)
  BY <1>1 DEF Running, Top, Last
<1> QED BY <1>1, <1>2, ElementOfSeq

LEMMA LeftTurns ==
  ASSUME InTurn, NoneSooner, Running, Leave
  PROVE  InTurn'
<1>1. PICK X : stack \in Seq(LoopOf(X))
  BY DEF InTurn
<1>2. /\ stack' \in Seq(LoopOf(X)) /\ Len(stack') = Len(stack) - 1 /\ Len(stack) \in Nat
      /\ \A i \in 1 .. Len(stack) - 1 : stack'[i] = stack[i]
  BY <1>1, LoopLeft
<1>3. ASSUME NEW i \in 1 .. Len(stack') PROVE (Draining(stack[i]) /\ Passing(stack[i]))'
  <2>1. i \in 1 .. Len(stack) /\ stack'[i] = stack[i]
    BY <1>2
  <2>2. stack[i] \in LoopOf(X) /\ Draining(stack[i]) /\ Passing(stack[i]) /\ Counting
    BY <1>1, <2>1, ElementOfSeq DEF InTurn
  <2>3. PICK g : g = stack[i]
    OBVIOUS
  <2>4. g \in LoopOf(X) /\ Draining(g) /\ Passing(g)
    BY <2>2, <2>3
  <2>5. Draining(g)' /\ Passing(g)'
    BY <2>2, <2>4, StillDraining
  <2> QED BY <2>1, <2>3, <2>5 DEF Draining, Passing
<1> QED BY <1>2, <1>3 DEF InTurn, NoneSooner

LEMMA EnteredTurns ==
  ASSUME InTurn, NoneSooner, NEW call, NEW flags, NEW pc, stack' = Append(stack, Loop(call, flags, pc))
  PROVE  InTurn'
<1>1. PICK X : stack \in Seq(LoopOf(X))
  BY DEF InTurn
<1> DEFINE Y == {call, flags, pc, service_mode, 0, "first", Nil}
           f == Loop(call, flags, pc)
           S == LoopOf(X \cup Y)
<1>2. f \in S /\ f.doing = "none" /\ stack \in Seq(S)
  <2>1. LoopOf(X) \subseteq S
    <3>1. X \subseteq X \cup Y
      OBVIOUS
    <3> QED BY <3>1, LoopsOf
  <2>2. f \in S /\ f.doing = "none"
    BY DEF Loop, LoopOf, Doings
  <2> HIDE DEF S
  <2> QED BY <1>1, <2>1, <2>2
<1> HIDE DEF S, f
<1>3. /\ stack' \in Seq(S) /\ Len(stack') = Len(stack) + 1 /\ Len(stack) \in Nat
      /\ \A i \in 1 .. Len(stack) : stack'[i] = stack[i]
      /\ stack'[Len(stack) + 1] = f
  <2>1. stack' = Append(stack, f)
    BY DEF f
  <2> QED BY <1>2, <2>1, Entered
<1>4. ASSUME NEW i \in 1 .. Len(stack') PROVE (Draining(stack[i]) /\ Passing(stack[i]))'
  <2>1. CASE i = Len(stack) + 1
    BY <1>2, <1>3, <2>1 DEF Draining, Passing
  <2>2. CASE i # Len(stack) + 1
    <3>1. i \in 1 .. Len(stack) /\ stack'[i] = stack[i]
      BY <1>3, <2>2
    <3>2. stack[i] \in LoopOf(X) /\ Draining(stack[i]) /\ Passing(stack[i]) /\ Counting
      BY <1>1, <3>1, ElementOfSeq DEF InTurn
    <3>3. PICK g : g = stack[i]
      OBVIOUS
    <3>4. g \in LoopOf(X) /\ Draining(g) /\ Passing(g)
      BY <3>2, <3>3
    <3>5. Draining(g)' /\ Passing(g)'
      BY <3>2, <3>4, StillDraining
    <3> QED BY <3>1, <3>3, <3>5 DEF Draining, Passing
  <2> QED BY <2>1, <2>2
<1> QED BY <1>3, <1>4 DEF InTurn, NoneSooner, S

LEMMA Least ==
  ASSUME NEW S \in SUBSET Nat, S # {}
  PROVE  Min(S) \in S /\ \A j \in S : Min(S) <= j
<1>1. \E i \in S : \A j \in S : i <= j
  <2> DEFINE T == {n \in Nat : \A m \in 0 .. n : m \notin S}
  <2> SUFFICES ASSUME \A i \in S : \E j \in S : ~(i <= j) PROVE FALSE
    OBVIOUS
  <2>1. 0 \in T
    <3>1. 0 \notin S
      OBVIOUS
    <3> QED BY <3>1
  <2>2. ASSUME NEW n \in Nat, n \in T PROVE n + 1 \in T
    <3>1. n + 1 \notin S
      <4> SUFFICES ASSUME n + 1 \in S PROVE FALSE
        OBVIOUS
      <4>1. PICK j \in S : ~(n + 1 <= j)
        OBVIOUS
      <4>2. j \in 0 .. n
        BY <4>1
      <4> QED BY <2>2, <4>2
    <3>2. \A m \in 0 .. n + 1 : m \in 0 .. n \/ m = n + 1
      OBVIOUS
    <3> QED BY <2>2, <3>1, <3>2
  <2> HIDE DEF T
  <2>3. Nat \subseteq T
    BY <2>1, <2>2, Numbers
  <2>4. PICK i \in S : TRUE
    OBVIOUS
  <2>5. i \in T /\ i \in 0 .. i
    BY <2>3, <2>4
  <2> QED BY <2>4, <2>5 DEF T
<1> QED BY <1>1 DEF Min

LEMMA TimersAre ==
  ASSUME Counting, NEW i \in 1 .. Len(timers)
  PROVE  /\ timers[i] \in Timer /\ timers[i].time \in Int /\ timers[i].token \in Nat
         /\ timers[i].id \in Nat /\ timers[i].token <= last_timer_id /\ timers[i].id <= made
<1>1. timers[i] \in Timer
  BY ElementOfSeq DEF Counting
<1> QED BY <1>1 DEF Timer, Counting

LEMMA IdlersAre ==
  ASSUME Counting, NEW i \in 1 .. Len(idles)
  PROVE  /\ idles[i] \in Idler /\ idles[i].generation \in Nat /\ idles[i].id \in Nat
         /\ idles[i].generation <= idle_generation /\ idles[i].id <= made
<1>1. idles[i] \in Idler
  BY ElementOfSeq DEF Counting
<1> QED BY <1>1 DEF Idler, Counting

(* A new timer goes behind every one of its time, and is younger.        *)
LEMMA TimerComes ==
  ASSUME Counting, Ordered, NEW ms \in Time, CreateTimer(ms)
  PROVE  NoneSooner
<1> DEFINE t == [time |-> now + ms, token |-> NewToken, id |-> made + 1]
           p == IF Later(t.time) = {} THEN Len(timers) + 1 ELSE Min(Later(t.time))
<1>1. /\ timers' = InsertAt(timers, p, t) /\ last_timer_id' = last_timer_id + 1 /\ made' = made + 1
      /\ UNCHANGED <<idles, idle_generation, now>>
  BY DEF CreateTimer, NewToken, idleVars
<1>2. /\ made \in Nat /\ last_timer_id \in Nat /\ now \in Nat /\ ms \in Nat
      /\ timers \in Seq(Timer) /\ Len(timers) \in Nat /\ DOMAIN timers = 1 .. Len(timers)
  BY BoundsAssumption DEF Counting, Time
<1>3. t \in Timer /\ t.time = now + ms /\ t.token = last_timer_id + 1 /\ t.id = made + 1 /\ t.time \in Int
  BY <1>2 DEF Timer, NewToken
<1> HIDE DEF t
<1>4. /\ p \in 1 .. Len(timers) + 1
      /\ \A i \in 1 .. p - 1 : ~(t.time < timers[i].time)
      /\ p <= Len(timers) => t.time < timers[p].time
  <2>1. CASE Later(t.time) = {}
    <3>1. \A i \in 1 .. Len(timers) : ~(t.time < timers[i].time)
      BY <1>2, <2>1 DEF Later
    <3> QED BY <1>2, <2>1, <3>1
  <2>2. CASE Later(t.time) # {}
    <3>1. Later(t.time) \in SUBSET Nat /\ Later(t.time) \subseteq 1 .. Len(timers)
      BY <1>2 DEF Later
    <3>2. p \in Later(t.time) /\ \A j \in Later(t.time) : p <= j
      BY <2>2, <3>1, Least
    <3>3. p \in 1 .. Len(timers) /\ t.time < timers[p].time
      BY <1>2, <3>2 DEF Later
    <3>4. ASSUME NEW i \in 1 .. p - 1, t.time < timers[i].time PROVE FALSE
      <4>1. i \in Later(t.time) /\ i < p
        BY <1>2, <3>3, <3>4 DEF Later
      <4> QED BY <3>2, <3>3, <4>1
    <3> QED BY <1>2, <3>3, <3>4
  <2> QED BY <2>1, <2>2
<1> HIDE DEF p
<1>5. /\ timers' \in Seq(Timer) /\ Len(timers') = Len(timers) + 1
      /\ \A i \in 1 .. Len(timers) + 1 :
           timers'[i] = IF i < p THEN timers[i] ELSE IF i = p THEN t ELSE timers[i - 1]
  <2>1. timers \in Seq(Timer) /\ t \in Timer /\ p \in 1 .. Len(timers) + 1
    BY <1>2, <1>3, <1>4
  <2>2. /\ InsertAt(timers, p, t) \in Seq(Timer) /\ Len(InsertAt(timers, p, t)) = Len(timers) + 1
        /\ \A i \in 1 .. Len(timers) + 1 :
             InsertAt(timers, p, t)[i] = IF i < p THEN timers[i] ELSE IF i = p THEN t ELSE timers[i - 1]
    BY <2>1, Inserted
  <2>3. timers' = InsertAt(timers, p, t)
    BY <1>1
  <2> QED BY <2>2, <2>3
<1>6. ASSUME NEW i \in 1 .. Len(timers')
      PROVE  \/ i < p /\ i \in 1 .. Len(timers) /\ timers'[i] = timers[i]
             \/ i = p /\ timers'[i] = t
             \/ i > p /\ i - 1 \in 1 .. Len(timers) /\ i - 1 >= p /\ timers'[i] = timers[i - 1]
  BY <1>2, <1>4, <1>5
<1>7. Counting'
  <2>0. \A i \in 1 .. Len(timers) :
           timers[i].token \in Nat /\ timers[i].id \in Nat /\ timers[i].token <= last_timer_id /\ timers[i].id <= made
    BY TimersAre
  <2>1. ASSUME NEW i \in 1 .. Len(timers') PROVE timers'[i].token <= last_timer_id' /\ timers'[i].id <= made'
    <3>1. CASE i = p
      BY <1>1, <1>2, <1>3, <1>6, <3>1
    <3>2. CASE i # p
      <4>1. \E j \in 1 .. Len(timers) : timers'[i] = timers[j]
        BY <1>6, <3>2
      <4> QED BY <1>1, <1>2, <2>0, <4>1
    <3> QED BY <3>1, <3>2
  <2>2. \A i \in 1 .. Len(idles') : idles'[i].generation <= idle_generation' /\ idles'[i].id <= made'
    BY <1>1, <1>2, IdlersAre
  <2> QED BY <1>1, <1>2, <1>5, <2>1, <2>2 DEF Counting
<1>8. Ordered'
  <2> SUFFICES ASSUME NEW i \in 1 .. Len(timers'), NEW j \in 1 .. Len(timers'), i < j
               PROVE  Before(timers'[i], timers'[j])
    BY DEF Ordered, Before
  <2>1. \A m, n \in 1 .. Len(timers) : m < n => Before(timers[m], timers[n])
    BY DEF Ordered
  <2>2. ASSUME NEW m \in 1 .. Len(timers), m < p PROVE Before(timers[m], t)
    <3>1. /\ timers[m].time \in Int /\ timers[m].id \in Nat /\ timers[m].id <= made
          /\ ~(t.time < timers[m].time)
      <4>1. m \in 1 .. p - 1
        BY <1>2, <1>4, <2>2
      <4> QED BY <1>4, <4>1, TimersAre
    <3> QED BY <1>2, <1>3, <3>1, SMTT(30) DEF Before
  <2>3. ASSUME NEW m \in 1 .. Len(timers), m >= p PROVE Before(t, timers[m])
    <3>1. p \in 1 .. Len(timers) /\ t.time < timers[p].time
      BY <1>2, <1>4, <2>3
    <3>2. m = p \/ Before(timers[p], timers[m])
      BY <2>1, <2>3, <3>1
    <3>3. timers[m].time \in Int /\ timers[p].time \in Int
      BY <3>1, TimersAre
    <3> QED BY <1>3, <3>1, <3>2, <3>3 DEF Before
  <2>4. CASE i < p /\ j = p
    BY <1>6, <2>2, <2>4
  <2>5. CASE i = p
    <3>1. timers'[i] = t /\ j - 1 \in 1 .. Len(timers) /\ j - 1 >= p /\ timers'[j] = timers[j - 1]
      BY <1>4, <1>6, <2>5
    <3> QED BY <2>3, <3>1
  <2>6. CASE i < p /\ j < p
    <3>1. /\ i \in 1 .. Len(timers) /\ timers'[i] = timers[i]
          /\ j \in 1 .. Len(timers) /\ timers'[j] = timers[j]
      BY <1>4, <1>6, <2>6
    <3> QED BY <2>1, <3>1
  <2>7. CASE i # p /\ j > p
    <3>1. \E m, n \in 1 .. Len(timers) : m < n /\ timers'[i] = timers[m] /\ timers'[j] = timers[n]
      <4>1. j - 1 \in 1 .. Len(timers) /\ timers'[j] = timers[j - 1]
        BY <1>4, <1>6, <2>7
      <4>2. CASE i < p
        BY <1>4, <1>6, <2>7, <4>1, <4>2
      <4>3. CASE i > p
        BY <1>4, <1>6, <2>7, <4>1, <4>3
      <4> QED BY <1>4, <2>7, <4>2, <4>3
    <3> QED BY <2>1, <3>1
  <2> QED BY <1>4, <2>4, <2>5, <2>6, <2>7
<1>9. \A i \in 1 .. Len(timers') : \/ \E j \in 1 .. Len(timers) : timers'[i] = timers[j]
                                   \/ timers'[i].token > last_timer_id
  BY <1>2, <1>3, <1>6
<1>10. /\ made <= made' /\ last_timer_id <= last_timer_id' /\ idle_generation <= idle_generation'
       /\ \A i \in 1 .. Len(idles') : \E j \in 1 .. Len(idles) : idles'[i] = idles[j]
  BY <1>1, <1>2 DEF Counting
<1> QED BY <1>7, <1>8, <1>9, <1>10 DEF NoneSooner

LEMMA TimerGoes ==
  ASSUME Counting, Ordered, NEW p \in 1 .. Len(timers), timers' = RemoveAt(timers, p),
         UNCHANGED <<last_timer_id, idles, idle_generation, made, now>>
  PROVE  NoneSooner
<1>1. timers \in Seq(Timer) /\ Len(timers) \in Nat /\ made \in Nat /\ last_timer_id \in Nat /\ idle_generation \in Nat
  BY DEF Counting
<1>2. /\ timers' \in Seq(Timer) /\ Len(timers') = Len(timers) - 1
      /\ \A i \in 1 .. Len(timers) - 1 : timers'[i] = IF i < p THEN timers[i] ELSE timers[i + 1]
  BY <1>1, Removed
<1>3. ASSUME NEW i \in 1 .. Len(timers')
      PROVE  \/ i < p /\ i \in 1 .. Len(timers) /\ timers'[i] = timers[i]
             \/ i >= p /\ i + 1 \in 1 .. Len(timers) /\ timers'[i] = timers[i + 1]
  BY <1>1, <1>2
<1>4. Counting'
  <2>1. \A i \in 1 .. Len(timers') : timers'[i].token <= last_timer_id' /\ timers'[i].id <= made'
    BY <1>3, TimersAre
  <2> QED BY <1>2, <2>1 DEF Counting
<1>5. Ordered'
  <2> SUFFICES ASSUME NEW i \in 1 .. Len(timers'), NEW j \in 1 .. Len(timers'), i < j
               PROVE  Before(timers'[i], timers'[j])
    BY DEF Ordered, Before
  <2>1. \E m, n \in 1 .. Len(timers) : m < n /\ timers'[i] = timers[m] /\ timers'[j] = timers[n]
    <3>1. CASE j < p
      BY <1>3, <3>1
    <3>2. CASE j >= p
      BY <1>3, <3>2
    <3> QED BY <3>1, <3>2, SMTT(30)
  <2> QED BY <2>1 DEF Ordered
<1>6. /\ made <= made' /\ last_timer_id <= last_timer_id' /\ idle_generation <= idle_generation'
      /\ \A i \in 1 .. Len(idles') : \E j \in 1 .. Len(idles) : idles'[i] = idles[j]
      /\ \A i \in 1 .. Len(timers') : \E j \in 1 .. Len(timers) : timers'[i] = timers[j]
  BY <1>1, <1>3
<1> QED BY <1>4, <1>5, <1>6 DEF NoneSooner

LEMMA TailIsRemoval ==
  ASSUME NEW S, NEW s \in Seq(S), s # <<>>
  PROVE  1 \in 1 .. Len(s) /\ Tail(s) = RemoveAt(s, 1)
<1>1. Len(s) \in Nat /\ Len(s) >= 1
  OBVIOUS
<1> DEFINE t == Tail(s)
           r == RemoveAt(s, 1)
<1>2. t \in Seq(S) /\ Len(t) = Len(s) - 1 /\ \A i \in 1 .. Len(s) - 1 : t[i] = s[i + 1]
  BY <1>1
<1>3. r \in Seq(S) /\ Len(r) = Len(s) - 1 /\ \A i \in 1 .. Len(s) - 1 : r[i] = s[i + 1]
  <2>1. 1 \in 1 .. Len(s)
    BY <1>1
  <2> QED BY <1>1, <2>1, Removed
<1> HIDE DEF t, r
<1>4. t = r
  BY <1>1, <1>2, <1>3, SeqEqual
<1> QED BY <1>1, <1>4 DEF t, r

(* Idle handlers come with the generation there is, and go.              *)
LEMMA IdlersGo ==
  ASSUME Counting, Ordered, idles' \in Seq(Idler),
         \A i \in 1 .. Len(idles') : \E j \in 1 .. Len(idles) : idles'[i] = idles[j],
         UNCHANGED <<timers, last_timer_id, made, now>>,
         idle_generation' \in Nat, idle_generation <= idle_generation'
  PROVE  NoneSooner
<1>1. made \in Nat /\ last_timer_id \in Nat /\ idle_generation \in Nat
  BY DEF Counting
<1>2. Counting'
  <2>1. ASSUME NEW i \in 1 .. Len(idles')
        PROVE  idles'[i].generation <= idle_generation' /\ idles'[i].id <= made'
    <3>1. PICK j \in 1 .. Len(idles) : idles'[i] = idles[j]
      OBVIOUS
    <3>2. idles[j].generation \in Nat /\ idles[j].generation <= idle_generation /\ idles[j].id <= made
      BY IdlersAre
    <3> QED BY <1>1, <3>1, <3>2
  <2> QED BY <2>1 DEF Counting
<1>3. Ordered'
  BY DEF Ordered, Before
<1>4. \A i \in 1 .. Len(timers') : \E j \in 1 .. Len(timers) : timers'[i] = timers[j]
  OBVIOUS
<1>5. made <= made' /\ last_timer_id <= last_timer_id'
  BY <1>1
<1> QED BY <1>2, <1>3, <1>4, <1>5 DEF NoneSooner

LEMMA IdlerComes ==
  ASSUME Counting, Ordered, DoWhenIdle
  PROVE  NoneSooner
<1> DEFINE h == [generation |-> idle_generation, id |-> made + 1]
<1>1. /\ idles' = Append(idles, h) /\ made' = made + 1
      /\ UNCHANGED <<timers, last_timer_id, idle_generation, now>>
  BY DEF DoWhenIdle, timerVars
<1>2. made \in Nat /\ last_timer_id \in Nat /\ idle_generation \in Nat /\ idles \in Seq(Idler) /\ timers \in Seq(Timer)
  BY DEF Counting
<1>3. h \in Idler /\ h.generation = idle_generation /\ h.id = made + 1
  BY <1>2 DEF Idler
<1> HIDE DEF h
<1>4. /\ idles' \in Seq(Idler) /\ Len(idles') = Len(idles) + 1 /\ Len(idles) \in Nat
      /\ \A i \in 1 .. Len(idles) : idles'[i] = idles[i]
      /\ idles'[Len(idles) + 1] = h
  BY <1>1, <1>2, <1>3
<1>5. ASSUME NEW i \in 1 .. Len(idles')
      PROVE  idles'[i] = h \/ \E j \in 1 .. Len(idles) : idles'[i] = idles[j]
  <2>1. i = Len(idles) + 1 \/ i \in 1 .. Len(idles)
    BY <1>4
  <2> QED BY <1>4, <2>1
<1>6. Counting'
  <2>1. ASSUME NEW i \in 1 .. Len(idles')
        PROVE  idles'[i].generation <= idle_generation' /\ idles'[i].id <= made'
    <3>1. CASE idles'[i] = h
      BY <1>1, <1>2, <1>3, <3>1
    <3>2. ASSUME NEW j \in 1 .. Len(idles), idles'[i] = idles[j]
          PROVE  idles'[i].generation <= idle_generation' /\ idles'[i].id <= made'
      <4>1. idles[j].generation <= idle_generation /\ idles[j].id <= made /\ idles[j].id \in Nat
        BY IdlersAre
      <4> QED BY <1>1, <1>2, <3>2, <4>1
    <3> QED BY <1>5, <3>1, <3>2
  <2>2. ASSUME NEW i \in 1 .. Len(timers')
        PROVE  timers'[i].token <= last_timer_id' /\ timers'[i].id <= made'
    <3>1. timers[i].token <= last_timer_id /\ timers[i].id <= made /\ timers[i].id \in Nat
      BY <1>1, TimersAre
    <3> QED BY <1>1, <1>2, <3>1
  <2> QED BY <1>1, <1>2, <1>4, <2>1, <2>2 DEF Counting
<1>7. Ordered'
  BY <1>1 DEF Ordered, Before
<1>8. \A i \in 1 .. Len(timers') : \E j \in 1 .. Len(timers) : timers'[i] = timers[j]
  BY <1>1
<1>9. made <= made' /\ last_timer_id <= last_timer_id' /\ idle_generation <= idle_generation'
  BY <1>1, <1>2
<1>10. \A i \in 1 .. Len(idles') : \/ \E j \in 1 .. Len(idles) : idles'[i] = idles[j]
                                   \/ idles'[i].generation >= idle_generation
  BY <1>2, <1>3, <1>5
<1> QED BY <1>6, <1>7, <1>8, <1>9, <1>10 DEF NoneSooner

LEMMA IdlersKept ==
  ASSUME Counting, NEW these
  PROVE  /\ Keeping(idles, these) \in Seq(Idler)
         /\ \A i \in 1 .. Len(Keeping(idles, these)) :
              \E j \in 1 .. Len(idles) : Keeping(idles, these)[i] = idles[j]
<1> DEFINE k == Keeping(idles, these)
<1>1. k \in Seq(Idler) /\ ToSet(k) = ToSet(idles) \cap these /\ idles \in Seq(Idler)
  BY KeepingIs DEF Counting
<1> HIDE DEF k
<1>2. ASSUME NEW i \in 1 .. Len(k) PROVE \E j \in 1 .. Len(idles) : k[i] = idles[j]
  <2>1. k[i] \in ToSet(k)
    BY <1>1 DEF ToSet
  <2>2. k[i] \in ToSet(idles)
    BY <1>1, <2>1
  <2> QED BY <1>1, <2>2 DEF ToSet
<1> QED BY <1>1, <1>2 DEF k

LEMMA IdlerServed ==
  ASSUME Counting, idles # <<>>
  PROVE  /\ Tail(idles) \in Seq(Idler)
         /\ \A i \in 1 .. Len(Tail(idles)) : \E j \in 1 .. Len(idles) : Tail(idles)[i] = idles[j]
<1>1. idles \in Seq(Idler)
  BY DEF Counting
<1>2. Len(idles) \in Nat /\ Len(idles) >= 1
  BY <1>1
<1> DEFINE t == Tail(idles)
<1>3. t \in Seq(Idler) /\ Len(t) = Len(idles) - 1 /\ \A i \in 1 .. Len(t) : t[i] = idles[i + 1]
  BY <1>1, HeadTailProperties
<1> HIDE DEF t
<1>4. ASSUME NEW i \in 1 .. Len(t) PROVE \E j \in 1 .. Len(idles) : t[i] = idles[j]
  BY <1>2, <1>3
<1> QED BY <1>3, <1>4 DEF t

LEMMA QuietIs ==
  ASSUME InTurn, UNCHANGED <<timers, last_timer_id, idles, idle_generation, made, now>>
  PROVE  NoneSooner
<1>1. Counting /\ Ordered /\ made \in Nat /\ now \in Nat
  BY DEF InTurn, Counting
<1> QED BY <1>1, QuietTurns

(* Steps of the client's code.                                           *)
LEMMA ClientTurns ==
  ASSUME InTurn, Client
  PROVE  InTurn'
<1>1. Counting /\ Ordered /\ made \in Nat /\ now \in Nat /\ idle_generation \in Nat
      /\ timers \in Seq(Timer) /\ idles \in Seq(Idler)
  BY DEF InTurn, Counting
<1>2. ASSUME NEW p \in {"tail", "head", "mark"}, QueueWindow(p) PROVE InTurn'
  <2>1. /\ UNCHANGED <<timers, last_timer_id, idles, idle_generation, now, stack>> /\ made' = made + 1
    BY <1>2 DEF QueueWindow, timerVars, idleVars
  <2>2. made' \in Nat /\ made <= made' /\ now' \in Nat
    BY <1>1, <2>1
  <2> QED BY <1>1, <2>1, <2>2, QuietTurns, OutsideTurns
<1>3. ASSUME NEW ms \in Time, CreateTimer(ms) PROVE InTurn'
  <2>1. UNCHANGED stack
    BY <1>3 DEF CreateTimer
  <2> QED BY <1>1, <1>3, <2>1, TimerComes, OutsideTurns
<1>4. ASSUME NEW i \in DOMAIN timers, DeleteTimer(i) PROVE InTurn'
  <2>1. /\ i \in 1 .. Len(timers) /\ timers' = RemoveAt(timers, i)
        /\ UNCHANGED <<last_timer_id, idles, idle_generation, made, now, stack>>
    BY <1>1, <1>4 DEF DeleteTimer, idleVars
  <2> QED BY <1>1, <2>1, TimerGoes, OutsideTurns
<1>5. ASSUME DoWhenIdle PROVE InTurn'
  <2>1. UNCHANGED stack
    BY <1>5 DEF DoWhenIdle
  <2> QED BY <1>1, <1>5, <2>1, IdlerComes, OutsideTurns
<1>6. ASSUME NEW same, CancelIdle(same) PROVE InTurn'
  <2> DEFINE these == {h \in ToSet(idles) : h.id \notin same}
  <2>1. /\ idles' = Keeping(idles, these)
        /\ UNCHANGED <<timers, last_timer_id, idle_generation, made, now, stack>>
    BY <1>6 DEF CancelIdle, timerVars
  <2> HIDE DEF these
  <2>2. /\ idles' \in Seq(Idler)
        /\ \A i \in 1 .. Len(idles') : \E j \in 1 .. Len(idles) : idles'[i] = idles[j]
    <3>1. /\ Keeping(idles, these) \in Seq(Idler)
          /\ \A i \in 1 .. Len(Keeping(idles, these)) :
               \E j \in 1 .. Len(idles) : Keeping(idles, these)[i] = idles[j]
      BY <1>1, IdlersKept
    <3> QED BY <2>1, <3>1
  <2>3. idle_generation' \in Nat /\ idle_generation <= idle_generation'
    BY <1>1, <2>1
  <2> QED BY <1>1, <2>1, <2>2, <2>3, IdlersGo, OutsideTurns
<1>7. ASSUME NEW fd, NEW mask, CreateFile(fd, mask) PROVE InTurn'
  <2>1. /\ UNCHANGED <<timers, last_timer_id, idles, idle_generation, now, stack>>
        /\ made' = made + 1 \/ made' = made
    BY <1>7 DEF CreateFile, timerVars, idleVars
  <2>2. made' \in Nat /\ made <= made' /\ now' \in Nat
    BY <1>1, <2>1
  <2> QED BY <1>1, <2>1, <2>2, QuietTurns, OutsideTurns
<1>8. ASSUME NEW fd, DeleteFile(fd) PROVE InTurn'
  BY <1>8, QuietIs, OutsideTurns DEF DeleteFile, timerVars, idleVars
<1>9. ASSUME NEW gone, DeleteEvents(gone) PROVE InTurn'
  BY <1>9, QuietIs, OutsideTurns DEF DeleteEvents, timerVars, idleVars
<1>10. ASSUME NEW flags, DoOneEvent(flags) PROVE InTurn'
  BY <1>10, QuietIs, EnteredTurns DEF DoOneEvent, timerVars, idleVars
<1>11. ASSUME ServiceAll PROVE InTurn'
  BY <1>11, QuietIs, EnteredTurns DEF ServiceAll, timerVars, idleVars
<1> QED BY <1>2, <1>3, <1>4, <1>5, <1>6, <1>7, <1>8, <1>9, <1>10, <1>11 DEF Client

(* Steps of a loop that begins or ends no drain and no pass.             *)
LEMMA PlainTurns ==
  ASSUME InTurn, ServeWindow \/ ServeFile \/ ServeNothing \/ DrainEnds \/ Refuse
  PROVE  InTurn'
<1>1. /\ UNCHANGED <<timers, last_timer_id, idles, idle_generation, made, now>> /\ Running
  BY DEF ServeWindow, ServeFile, ServeNothing, DrainEnds, Refuse, Serving, Left, Starts, timerVars, idleVars
<1>2. PICK X : Top \in LoopOf(X)
  BY <1>1, TopIs
<1>3. PICK t : t = Top
  OBVIOUS
<1>4. NoneSooner /\ t \in LoopOf(X)
  BY <1>1, <1>2, <1>3, QuietIs
<1>5. ASSUME NEW e, NEW d \in {"window", "file", "over"}, SetTop(Started(e, d)) PROVE InTurn'
  <2> DEFINE Y == X \cup {e, event_count}
             f == [t EXCEPT !.ev = e, !.saved = event_count, !.doing = d]
  <2>1. f \in LoopOf(Y) /\ f.doing = d
    BY <1>4 DEF LoopOf, Doings, Kinds
  <2>2. SetTop(f)
    BY <1>3, <1>5 DEF Started
  <2> HIDE DEF f, Y
  <2>3. f.doing \notin {"drain", "timer", "pass", "idle"}
    BY <2>1
  <2> QED BY <1>1, <1>4, <2>1, <2>2, <2>3, TopStays
<1>6. CASE ServeWindow
  BY <1>5, <1>6 DEF ServeWindow
<1>7. CASE ServeFile
  BY <1>5, <1>7 DEF ServeFile
<1>8. CASE ServeNothing
  <2> DEFINE pc == IF t.pc = "serve" THEN "setup" ELSE "idle"
             Y  == X \cup {"first", "setup", "idle"}
             f  == [t EXCEPT !.at = "first", !.pc = pc]
  <2>1. f \in LoopOf(Y) /\ f.doing = t.doing
    BY <1>4 DEF LoopOf
  <2>2. SetTop(f) /\ t.doing = "none"
    BY <1>3, <1>8 DEF ServeNothing, Serving
  <2> HIDE DEF f, Y
  <2>3. f.doing \notin {"drain", "timer", "pass", "idle"}
    BY <2>1, <2>2
  <2> QED BY <1>1, <1>4, <2>1, <2>2, <2>3, TopStays
<1>9. CASE DrainEnds
  <2> DEFINE f == [t EXCEPT !.doing = "over"]
  <2>1. f \in LoopOf(X) /\ f.doing = "over"
    BY <1>4 DEF LoopOf, Doings
  <2>2. SetTop(f)
    BY <1>3, <1>9 DEF DrainEnds
  <2> HIDE DEF f
  <2>3. f.doing \notin {"drain", "timer", "pass", "idle"}
    BY <2>1
  <2> QED BY <1>1, <1>4, <2>1, <2>2, <2>3, TopStays
<1>10. CASE Refuse
  <2> DEFINE at == event[Top.ev].next
             Y  == X \cup {at, Nil, 0}
             f  == [t EXCEPT !.doing = "none", !.at = at, !.ev = Nil, !.saved = 0]
  <2>1. f \in LoopOf(Y) /\ f.doing = "none"
    <3> HIDE DEF at
    <3> QED BY <1>4 DEF LoopOf, Doings
  <2>2. SetTop(f)
    BY <1>3, <1>10 DEF Refuse
  <2> HIDE DEF f, Y
  <2>3. f.doing \notin {"drain", "timer", "pass", "idle"}
    BY <2>1
  <2> QED BY <1>1, <1>4, <2>1, <2>2, <2>3, TopStays
<1> QED BY <1>6, <1>7, <1>8, <1>9, <1>10

(* Steps of a loop between handlers.                                     *)
LEMMA RoundTurns ==
  ASSUME InTurn,
         \/ Setup \/ WaitEnds \/ FilesQueued \/ CheckQueues \/ CheckQueuesNothing \/ NoPass \/ Foreign
         \/ \E fd \in Fds, types \in SUBSET Dirs : FileReady(fd, types)
  PROVE  InTurn'
<1>1. /\ UNCHANGED <<timers, last_timer_id, idles, idle_generation, now>>
      /\ made' = made + 1 \/ made' = made
      /\ Running /\ Top.doing = "none"
  BY DEF Setup, WaitEnds, FilesQueued, CheckQueues, CheckQueuesNothing, NoPass, Foreign, FileReady, At, Left,
         timerVars, idleVars
<1>2. PICK X : Top \in LoopOf(X)
  BY <1>1, TopIs
<1>3. PICK t : t = Top
  OBVIOUS
<1>4. NoneSooner /\ t \in LoopOf(X) /\ t.doing = "none"
  <2>1. Counting /\ Ordered /\ made \in Nat /\ now \in Nat
    BY DEF InTurn, Counting
  <2>2. made' \in Nat /\ made <= made' /\ now' \in Nat
    BY <1>1, <2>1
  <2> QED BY <1>1, <1>2, <1>3, <2>1, <2>2, QuietTurns
<1>5. ASSUME NEW pc, NEW until, NEW result,
             \/ SetTop([Top EXCEPT !.pc = pc])
             \/ SetTop([Top EXCEPT !.pc = pc, !.until = until])
             \/ SetTop([Top EXCEPT !.pc = pc, !.result = result, !.until = until])
      PROVE  InTurn'
  <2> DEFINE Y == X \cup {pc, until, result}
             f == [t EXCEPT !.pc = pc]
             g == [t EXCEPT !.pc = pc, !.until = until]
             h == [t EXCEPT !.pc = pc, !.result = result, !.until = until]
  <2>1. {f, g, h} \subseteq LoopOf(Y) /\ f.doing = "none" /\ g.doing = "none" /\ h.doing = "none"
    <3>1. t \in LoopOf(Y)
      BY <1>4 DEF LoopOf
    <3>2. f \in LoopOf(Y) /\ f.doing = "none"
      BY <1>4, <3>1 DEF LoopOf
    <3>3. g \in LoopOf(Y) /\ g.doing = "none"
      BY <1>4, <3>1 DEF LoopOf
    <3>4. h \in LoopOf(Y) /\ h.doing = "none"
      BY <1>4, <3>1 DEF LoopOf
    <3> QED BY <3>2, <3>3, <3>4
  <2>2. PICK l \in {f, g, h} : SetTop(l)
    BY <1>3, <1>5
  <2>3. l \in LoopOf(Y) /\ l.doing = "none"
    BY <2>1, <2>2
  <2> HIDE DEF f, g, h, Y
  <2>4. l.doing \notin {"drain", "timer", "pass", "idle"}
    BY <2>3
  <2> QED BY <1>1, <1>4, <2>2, <2>3, <2>4, TopStays
<1>6. CASE Setup \/ WaitEnds \/ FilesQueued \/ CheckQueues \/ CheckQueuesNothing \/ Foreign
  BY <1>5, <1>6 DEF Setup, WaitEnds, FilesQueued, CheckQueues, CheckQueuesNothing, Foreign
<1>7. ASSUME NEW fd \in Fds, NEW types \in SUBSET Dirs, FileReady(fd, types) PROVE InTurn'
  BY <1>5, <1>7 DEF FileReady
<1>8. CASE NoPass
  BY <1>1, <1>4, <1>5, <1>8, LeftTurns DEF NoPass
<1> QED BY <1>6, <1>7, <1>8

LEMMA OverTurns ==
  ASSUME InTurn, Handled \/ PassEnds \/ Tick \/ \E fd \in Fds : QueueFile(fd)
  PROVE  InTurn'
<1>1. /\ UNCHANGED <<timers, last_timer_id, idles, idle_generation, made>>
      /\ now' = now \/ now' = now + 1
  BY DEF Handled, PassEnds, Tick, QueueFile, Left, timerVars, idleVars
<1>2. NoneSooner
  <2>1. Counting /\ Ordered /\ made \in Nat /\ now \in Nat
    BY DEF InTurn, Counting
  <2>2. made' \in Nat /\ made <= made' /\ now' \in Nat
    BY <1>1, <2>1
  <2> QED BY <1>1, <2>1, <2>2, QuietTurns
<1>3. CASE Handled
  <2>1. CASE Top.call = "one"
    BY <1>2, <1>3, <2>1, LeftTurns DEF Handled
  <2>2. CASE Top.call # "one"
    <3>1. PICK X : Top \in LoopOf(X)
      BY <1>3, TopIs DEF Handled
    <3>2. PICK t : t = Top
      OBVIOUS
    <3> DEFINE Y == X \cup {"first", Nil, 0}
               f == [t EXCEPT !.doing = "none", !.at = "first", !.ev = Nil, !.saved = 0,
                              !.limit = 0, !.time = 0, !.seen = 0]
    <3>3. f \in LoopOf(Y) /\ f.doing = "none"
      BY <3>1, <3>2 DEF LoopOf, Doings
    <3>4. SetTop(f) /\ Running
      BY <1>3, <2>2, <3>2 DEF Handled
    <3> HIDE DEF f, Y
    <3>5. f.doing \notin {"drain", "timer", "pass", "idle"}
      BY <3>3
    <3> QED BY <1>2, <3>3, <3>4, <3>5, TopStays
  <2> QED BY <2>1, <2>2
<1>4. CASE PassEnds
  BY <1>2, <1>4, LeftTurns DEF PassEnds
<1>5. CASE Tick
  BY <1>2, <1>5, OutsideTurns DEF Tick
<1>6. ASSUME NEW fd \in Fds, QueueFile(fd) PROVE InTurn'
  BY <1>2, <1>6, OutsideTurns DEF QueueFile
<1> QED BY <1>3, <1>4, <1>5, <1>6

(* A drain and a pass begin: what there is had been made.                *)
LEMMA DrainTurns ==
  ASSUME InTurn, ServeTimers
  PROVE  InTurn'
<1>1. /\ UNCHANGED <<timers, last_timer_id, idles, idle_generation, made, now>> /\ Running
      /\ SetTop([Started(Chosen, "drain") EXCEPT !.limit = last_timer_id, !.time = now, !.seen = made])
  BY DEF ServeTimers, Serving, Starts, idleVars
<1>2. PICK X : Top \in LoopOf(X)
  BY <1>1, TopIs
<1>3. PICK t, e : t = Top /\ e = Chosen
  OBVIOUS
<1>4. NoneSooner /\ t \in LoopOf(X) /\ Counting
  BY <1>1, <1>2, <1>3, QuietIs DEF InTurn
<1>5. made \in Nat /\ last_timer_id \in Nat
  BY <1>4 DEF Counting
<1>6. PICK limit \in Nat, seen \in Nat : limit = last_timer_id /\ seen = made
  BY <1>5
<1> PICK time, saved : time = now /\ saved = event_count
  OBVIOUS
<1> DEFINE Y == X \cup {e, saved, time}
           f == [t EXCEPT !.ev = e, !.saved = saved, !.doing = "drain",
                          !.limit = limit, !.time = time, !.seen = seen]
<1>7. f \in LoopOf(Y) /\ f.doing = "drain" /\ f.limit = limit /\ f.seen = seen
  <2>1. X \subseteq Y /\ e \in Y /\ saved \in Y /\ time \in Y
    OBVIOUS
  <2> HIDE DEF Y
  <2>2. t \in LoopOf(Y) /\ "drain" \in Doings
    BY <1>4, <2>1 DEF LoopOf, Doings
  <2>3. PICK u \in LoopOf(Y) : u = [t EXCEPT !.ev = e, !.saved = saved, !.time = time]
    <3>1. PICK v \in LoopOf(Y) : v = [t EXCEPT !.ev = e]
      BY <2>1, <2>2 DEF LoopOf
    <3>2. PICK w \in LoopOf(Y) : w = [v EXCEPT !.saved = saved]
      BY <2>1, <3>1 DEF LoopOf
    <3>3. [w EXCEPT !.time = time] \in LoopOf(Y)
      BY <2>1, <3>2 DEF LoopOf
    <3>4. [w EXCEPT !.time = time] = [t EXCEPT !.ev = e, !.saved = saved, !.time = time]
      BY <2>2, <3>1, <3>2 DEF LoopOf
    <3> QED BY <3>3, <3>4
  <2>4. [u EXCEPT !.doing = "drain", !.limit = limit, !.seen = seen] \in LoopOf(Y)
    <3>1. PICK v \in LoopOf(Y) : v = [u EXCEPT !.doing = "drain"]
      BY <2>2, <2>3 DEF LoopOf
    <3>2. PICK w \in LoopOf(Y) : w = [v EXCEPT !.limit = limit]
      BY <1>6, <3>1 DEF LoopOf
    <3>3. [w EXCEPT !.seen = seen] \in LoopOf(Y)
      BY <1>6, <3>2 DEF LoopOf
    <3>4. [w EXCEPT !.seen = seen] = [u EXCEPT !.doing = "drain", !.limit = limit, !.seen = seen]
      BY <2>3, <3>1, <3>2 DEF LoopOf
    <3> QED BY <3>3, <3>4
  <2>5. f = [u EXCEPT !.doing = "drain", !.limit = limit, !.seen = seen]
    BY <2>2, <2>3 DEF LoopOf
  <2>6. f.doing = "drain" /\ f.limit = limit /\ f.seen = seen
    BY <2>2 DEF LoopOf
  <2> QED BY <2>4, <2>5, <2>6
<1>8. SetTop(f)
  BY <1>1, <1>3, <1>6 DEF Started
<1> HIDE DEF f, Y
<1>9. Draining(f)
  <2>1. \A i \in 1 .. Len(timers) : timers[i].id <= f.seen
    BY <1>4, <1>6, <1>7, TimersAre
  <2> QED BY <1>5, <1>6, <1>7, <2>1 DEF Draining
<1>10. PICK g : g = f
  OBVIOUS
<1>11. Draining(g)' /\ Passing(g)'
  BY <1>4, <1>7, <1>9, <1>10, StillDraining DEF Passing
<1>12. Draining(f)' /\ Passing(f)'
  <2>1. f.doing \notin {"pass", "idle"}
    BY <1>7
  <2>2. Draining(f)
    BY <1>9
  <2> QED BY <1>1, <2>1, <2>2 DEF Draining, Passing
<1> QED BY <1>1, <1>4, <1>7, <1>8, <1>12, TopTurns

LEMMA PassTurns ==
  ASSUME InTurn, BeginPass
  PROVE  InTurn'
<1>1. /\ UNCHANGED <<timers, last_timer_id, idles, made, now>> /\ Running
      /\ idle_generation' = idle_generation + 1
      /\ SetTop([Top EXCEPT !.doing = "pass", !.limit = idle_generation, !.seen = made])
  BY DEF BeginPass, At, timerVars
<1>2. PICK X : Top \in LoopOf(X)
  BY <1>1, TopIs
<1>3. PICK t : t = Top
  OBVIOUS
<1>4. t \in LoopOf(X) /\ Counting /\ Ordered
  BY <1>2, <1>3 DEF InTurn
<1>5. made \in Nat /\ idle_generation \in Nat /\ idles \in Seq(Idler)
  BY <1>4 DEF Counting
<1>6. NoneSooner
  <2>1. idle_generation' \in Nat /\ idle_generation <= idle_generation'
    BY <1>1, <1>5
  <2>2. /\ idles' \in Seq(Idler)
        /\ \A i \in 1 .. Len(idles') : \E j \in 1 .. Len(idles) : idles'[i] = idles[j]
    BY <1>1, <1>5
  <2> QED BY <1>1, <1>4, <2>1, <2>2, IdlersGo
<1>7. PICK limit \in Nat, seen \in Nat : limit = idle_generation /\ seen = made
  BY <1>5
<1> DEFINE f == [t EXCEPT !.doing = "pass", !.limit = limit, !.seen = seen]
<1>8. f \in LoopOf(X) /\ f.doing = "pass" /\ f.limit = limit /\ f.seen = seen
  BY <1>4 DEF LoopOf, Doings
<1>9. SetTop(f)
  BY <1>1, <1>3, <1>7
<1> HIDE DEF f
<1>10. Passing(f)'
  <2>1. \A i \in 1 .. Len(idles) : idles[i].id <= made
    BY <1>4, IdlersAre
  <2>2. f.limit < idle_generation' /\ f.seen <= made' /\ \A i \in 1 .. Len(idles') : idles'[i].id <= f.seen
    BY <1>1, <1>5, <1>7, <1>8, <2>1
  <2> QED BY <2>2 DEF Passing
<1>11. Draining(f)'
  <2>1. f.doing \notin {"drain", "timer"}
    BY <1>8
  <2> QED BY <2>1 DEF Draining
<1> QED BY <1>1, <1>6, <1>8, <1>9, <1>10, <1>11, TopTurns

(* A handler is called, and returns.                                     *)
LEMMA CallTurns ==
  ASSUME InTurn, RunTimer \/ RunIdle \/ CodeReturns
  PROVE  InTurn'
<1>0. Running
  BY DEF RunTimer, RunIdle, CodeReturns
<1>1. PICK X : Top \in LoopOf(X)
  BY <1>0, TopIs
<1>2. PICK t : t = Top
  OBVIOUS
<1>3. t \in LoopOf(X) /\ Counting /\ Ordered
  BY <1>1, <1>2 DEF InTurn
<1>4. ASSUME NEW d \in Doings, SetTop([Top EXCEPT !.doing = d]), NoneSooner,
             \/ d \in {"none", "over"}
             \/ {d, Top.doing} \subseteq {"drain", "timer"}
             \/ {d, Top.doing} \subseteq {"pass", "idle"}
      PROVE  InTurn'
  <2> DEFINE f == [t EXCEPT !.doing = d]
  <2>1. f \in LoopOf(X) /\ f.doing = d /\ f.limit = t.limit /\ f.seen = t.seen
    BY <1>3 DEF LoopOf
  <2>2. SetTop(f)
    BY <1>2, <1>4
  <2> HIDE DEF f
  <2>3. \/ f.doing \notin {"drain", "timer", "pass", "idle"}
        \/ SameTurn(f, Top) /\ {f.doing, Top.doing} \subseteq {"drain", "timer"}
        \/ SameTurn(f, Top) /\ {f.doing, Top.doing} \subseteq {"pass", "idle"}
    BY <1>2, <1>4, <2>1 DEF SameTurn
  <2> QED BY <1>0, <1>4, <2>1, <2>2, <2>3, TopStays
<1>5. CASE RunTimer
  <2>1. /\ timers' = Tail(timers) /\ timers # <<>> /\ Top.doing = "drain"
        /\ UNCHANGED <<last_timer_id, idles, idle_generation, made, now>>
        /\ SetTop([Top EXCEPT !.doing = "timer"])
    BY <1>5 DEF RunTimer, Due, idleVars
  <2>2. 1 \in 1 .. Len(timers) /\ Tail(timers) = RemoveAt(timers, 1)
    BY <1>3, <2>1, TailIsRemoval DEF Counting
  <2>3. NoneSooner
    BY <1>3, <2>1, <2>2, TimerGoes
  <2> QED BY <1>4, <2>1, <2>3 DEF Doings, Kinds
<1>6. CASE RunIdle
  <2>1. /\ idles' = Tail(idles) /\ idles # <<>> /\ Top.doing = "pass"
        /\ UNCHANGED <<timers, last_timer_id, idle_generation, made, now>>
        /\ SetTop([Top EXCEPT !.doing = "idle"])
    BY <1>6 DEF RunIdle, There, timerVars
  <2>2. /\ idles' \in Seq(Idler)
        /\ \A i \in 1 .. Len(idles') : \E j \in 1 .. Len(idles) : idles'[i] = idles[j]
    <3>1. /\ Tail(idles) \in Seq(Idler)
          /\ \A i \in 1 .. Len(Tail(idles)) : \E j \in 1 .. Len(idles) : Tail(idles)[i] = idles[j]
      BY <1>3, <2>1, IdlerServed
    <3> QED BY <2>1, <3>1
  <2>3. idle_generation' \in Nat /\ idle_generation <= idle_generation'
    BY <1>3, <2>1 DEF Counting
  <2>4. NoneSooner
    BY <1>3, <2>1, <2>2, <2>3, IdlersGo
  <2> QED BY <1>4, <2>1, <2>4 DEF Doings, Kinds
<1>7. CASE CodeReturns
  <2>1. NoneSooner
    BY <1>7, QuietIs DEF CodeReturns, Left, timerVars, idleVars
  <2>2. PICK d : d = CASE Top.doing = "timer" -> "drain" [] Top.doing = "idle" -> "pass" [] OTHER -> "over"
    OBVIOUS
  <2>3. SetTop([Top EXCEPT !.doing = d])
    BY <1>7, <2>2 DEF CodeReturns
  <2>4. \/ d = "over"
        \/ d = "drain" /\ Top.doing = "timer"
        \/ d = "pass" /\ Top.doing = "idle"
    BY <2>2
  <2> QED BY <1>4, <2>1, <2>3, <2>4 DEF Doings
<1> QED BY <1>5, <1>6, <1>7

LEMMA TurnsKept ==
  ASSUME InTurn, [Next]_vars
  PROVE  InTurn'
<1>1. CASE UNCHANGED vars
  BY <1>1, QuietIs, OutsideTurns DEF vars, timerVars, idleVars
<1>2. CASE Next
  BY <1>2, ClientTurns, PlainTurns, RoundTurns, OverTurns, DrainTurns, PassTurns, CallTurns
     DEF Next, LoopStep
<1> QED BY <1>1, <1>2

LEMMA TurnsBegin == Init => InTurn
<1> SUFFICES ASSUME Init PROVE InTurn
  OBVIOUS
<1>1. /\ timers = <<>> /\ idles = <<>> /\ stack = <<>> /\ made = 0 /\ now = 0
      /\ last_timer_id = 0 /\ idle_generation = 0
  BY DEF Init
<1>2. Counting /\ Ordered
  BY <1>1 DEF Counting, Ordered
<1>3. stack \in Seq(LoopOf({}))
  BY <1>1
<1> QED BY <1>1, <1>2, <1>3 DEF InTurn

(* Timers and idle handlers are served in turn, whoever serves them: in  *)
(* the order of their times and then of their making, and never one made *)
(* since the drain or pass that serves it began (service_timers and      *)
(* service_idle, with the token and the generation to stop at).          *)
THEOREM TimersInTurn == Spec => ServedInTurn
<1> DEFINE Order ==
      /\ RunTimer => \A t \in ToSet(timers') :
             \/ timers[1].time < t.time
             \/ timers[1].time = t.time /\ timers[1].id < t.id
      /\ RunTimer => timers[1].id <= Top.seen
      /\ RunIdle => idles[1].id <= Top.seen
<1>1. ASSUME InTurn PROVE Order
  <2>0. /\ timers \in Seq(Timer) /\ idles \in Seq(Idler) /\ Counting /\ Ordered
        /\ Running => Draining(Top) /\ Passing(Top)
    <3>1. PICK X : stack \in Seq(LoopOf(X))
      BY <1>1 DEF InTurn
    <3>2. Running => Top = stack[Len(stack)] /\ Len(stack) \in 1 .. Len(stack)
      BY <3>1 DEF Running, Top, Last
    <3> QED BY <1>1, <3>2 DEF InTurn, Counting
  <2>1. ASSUME RunTimer PROVE /\ \A t \in ToSet(timers') : Before(timers[1], t)
                              /\ timers[1].id <= Top.seen
    <3>1. /\ timers' = Tail(timers) /\ timers # <<>> /\ Top.doing = "drain" /\ Running
          /\ timers[1].token <= Top.limit
      BY <2>1 DEF RunTimer, Due
    <3>2. 1 \in 1 .. Len(timers) /\ Tail(timers) = RemoveAt(timers, 1)
      BY <2>0, <3>1, TailIsRemoval
    <3>3. /\ timers' \in Seq(Timer) /\ Len(timers') = Len(timers) - 1 /\ Len(timers) \in Nat
          /\ \A i \in 1 .. Len(timers) - 1 : timers'[i] = timers[i + 1]
      BY <2>0, <3>1, HeadTailProperties
    <3>4. ASSUME NEW t \in ToSet(timers') PROVE Before(timers[1], t)
      <4>1. PICK i \in 1 .. Len(timers') : t = timers'[i]
        BY <3>3 DEF ToSet
      <4>2. t = timers[i + 1] /\ i + 1 \in 1 .. Len(timers) /\ 1 < i + 1
        BY <3>3, <4>1
      <4> QED BY <2>0, <3>2, <4>2 DEF Ordered
    <3>5. timers[1].id <= Top.seen
      BY <2>0, <3>1, <3>2 DEF Draining
    <3> QED BY <3>4, <3>5
  <2>2. ASSUME RunIdle PROVE idles[1].id <= Top.seen
    <3>1. idles # <<>> /\ Top.doing = "pass" /\ Running /\ idles[1].generation <= Top.limit
      BY <2>2 DEF RunIdle, There
    <3>2. 1 \in 1 .. Len(idles)
      BY <2>0, <3>1
    <3> QED BY <2>0, <3>1, <3>2 DEF Passing
  <2> QED BY <2>1, <2>2 DEF Before
<1>2. Spec => []InTurn
  BY TurnsBegin, TurnsKept, PTL DEF Spec
<1> HIDE DEF Order
<1>3. ServedInTurn <=> [][Order]_vars
  BY DEF ServedInTurn, Order
<1> QED BY <1>1, <1>2, <1>3, PTL DEF Spec

-----------------------------------------------------------------------------
(* The links.  The walk along them ends, as it takes no more steps than  *)
(* there are events; along the links of a sequence of different events   *)
(* it finds that sequence.                                               *)
Places == [kind : Kinds \cup {"free"}, fd : Fds \cup {Nil}, armed : BOOLEAN, next : Events \cup {Nil}]
Lists  == [Events -> Places]
Begun == Seq(Events) \ {<<>>}

WalkStep(list, w, q) ==
  IF Len(q) < Cardinality(Events) /\ list[Last(q)].next # Nil
  THEN w[Append(q, list[Last(q)].next)] ELSE q

Walk(list) ==
  LET walk[q \in Seq(Events) \ {<<>>}] ==
          IF Len(q) < Cardinality(Events) /\ list[Last(q)].next # Nil
          THEN walk[Append(q, list[Last(q)].next)] ELSE q
  IN  walk

LEMMA BegunAre ==
  ASSUME NEW list \in Lists, NEW q \in Begun
  PROVE  /\ q \in Seq(Events) /\ Len(q) \in Nat \ {0} /\ Last(q) \in Events /\ Last(q) = q[Len(q)]
         /\ list[Last(q)].next \in Events \cup {Nil}
         /\ list[Last(q)].next # Nil =>
              /\ Append(q, list[Last(q)].next) \in Begun
              /\ Len(Append(q, list[Last(q)].next)) = Len(q) + 1
<1>1. q \in Seq(Events) /\ Len(q) \in Nat \ {0} /\ Last(q) = q[Len(q)]
  BY DEF Begun, Last
<1>2. Last(q) \in Events
  BY <1>1
<1>3. list[Last(q)].next \in Events \cup {Nil}
  BY <1>2 DEF Lists, Places
<1>4. ASSUME NEW e \in Events PROVE Append(q, e) \in Begun /\ Len(Append(q, e)) = Len(q) + 1
  <2>1. Append(q, e) \in Seq(Events) /\ Append(q, e) # <<>> /\ Len(Append(q, e)) = Len(q) + 1
    BY <1>1, AppendProperties
  <2> QED BY <2>1 DEF Begun
<1> QED BY <1>1, <1>2, <1>3, <1>4

LEMMA CardinalityEvents == Cardinality(Events) \in Nat
BY EventsAssumption, FS_CardinalityType

LEMMA WalkExists ==
  ASSUME NEW list \in Lists
  PROVE  \A q \in Begun : Walk(list)[q] = WalkStep(list, Walk(list), q)
<1> DEFINE N == Cardinality(Events)
           Long(n) == {q \in Begun : Len(q) >= N - n}
           Walks(w, n) == \A q \in Long(n) : w[q] = WalkStep(list, w, q)
           T == {n \in Nat : \E w \in [Begun -> Seq(Events)] : Walks(w, n)}
<1>0. N \in Nat
  BY CardinalityEvents
<1> HIDE DEF N
<1>1. 0 \in T
  <2> DEFINE w == [q \in Begun |-> q]
  <2>1. w \in [Begun -> Seq(Events)]
    BY DEF Begun
  <2>2. ASSUME NEW q \in Long(0) PROVE w[q] = WalkStep(list, w, q)
    <3>1. ~(Len(q) < Cardinality(Events)) /\ q \in Begun
      BY <1>0, <2>2, BegunAre DEF N
    <3> QED BY <3>1 DEF WalkStep
  <2> HIDE DEF w
  <2> QED BY <2>1, <2>2
<1>2. ASSUME NEW n \in Nat, n \in T PROVE n + 1 \in T
  <2>1. PICK w \in [Begun -> Seq(Events)] : Walks(w, n)
    BY <1>2
  <2> DEFINE h == [q \in Begun |-> IF q \in Long(n) THEN w[q] ELSE WalkStep(list, w, q)]
  <2>2. ASSUME NEW q \in Begun PROVE WalkStep(list, w, q) \in Seq(Events)
    BY <2>1, BegunAre DEF WalkStep
  <2>3. h \in [Begun -> Seq(Events)]
    BY <2>1, <2>2
  <2>4. ASSUME NEW q \in Begun PROVE h[q] = IF q \in Long(n) THEN w[q] ELSE WalkStep(list, w, q)
    OBVIOUS
  <2> HIDE DEF h
  <2>5. ASSUME NEW q \in Long(n + 1) PROVE h[q] = WalkStep(list, h, q)
    <3>1. q \in Begun /\ Len(q) \in Nat /\ Len(q) >= N - (n + 1)
      BY <2>5, BegunAre
    <3>2. h[q] = WalkStep(list, w, q)
      BY <2>1, <2>4, <3>1
    <3>3. WalkStep(list, w, q) = WalkStep(list, h, q)
      <4> SUFFICES ASSUME list[Last(q)].next # Nil
                   PROVE  w[Append(q, list[Last(q)].next)] = h[Append(q, list[Last(q)].next)]
        BY DEF WalkStep
      <4>1. /\ Append(q, list[Last(q)].next) \in Begun
            /\ Len(Append(q, list[Last(q)].next)) = Len(q) + 1
        BY <3>1, BegunAre
      <4>2. Len(q) + 1 >= N - n
        BY <1>0, <3>1
      <4>3. Append(q, list[Last(q)].next) \in Long(n)
        BY <4>1, <4>2
      <4> QED BY <2>4, <4>1, <4>3
    <3> QED BY <3>2, <3>3
  <2> QED BY <2>3, <2>5
<1> HIDE DEF T
<1>3. N \in T
  BY <1>0, <1>1, <1>2, Numbers
<1>4. PICK w \in [Begun -> Seq(Events)] : Walks(w, N)
  BY <1>3 DEF T
<1>5. \A q \in Begun : q \in Long(N)
  BY <1>0, BegunAre
<1>6. w = [q \in Begun |-> WalkStep(list, w, q)]
  BY <1>4, <1>5
<1>7. \E x : x = [q \in Begun |-> WalkStep(list, x, q)]
  BY <1>6
<1>8. Walk(list) = CHOOSE x : x = [q \in Begun |-> WalkStep(list, x, q)]
  BY DEF Walk, WalkStep, Begun
<1>9. Walk(list) = [q \in Begun |-> WalkStep(list, Walk(list), q)]
  BY <1>7, <1>8
<1> QED BY <1>9

LEMMA WalkTyped ==
  ASSUME NEW list \in Lists, NEW e \in Events \cup {Nil}
  PROVE  From(list, e) \in Seq(Events)
<1> DEFINE N == Cardinality(Events)
           w == Walk(list)
           T == {n \in Nat : \A q \in Begun : Len(q) >= N - n => w[q] \in Seq(Events)}
<1>0. N \in Nat
  BY CardinalityEvents
<1>1. \A q \in Begun : w[q] = WalkStep(list, w, q)
  BY WalkExists
<1> HIDE DEF N, w
<1>2. 0 \in T
  <2>1. ASSUME NEW q \in Begun, Len(q) >= N PROVE w[q] \in Seq(Events)
    <3>1. ~(Len(q) < Cardinality(Events))
      BY <1>0, <2>1, BegunAre DEF N
    <3> QED BY <1>1, <3>1, BegunAre DEF WalkStep
  <2> QED BY <1>0, <2>1
<1>3. ASSUME NEW n \in Nat, n \in T PROVE n + 1 \in T
  <2>1. ASSUME NEW q \in Begun, Len(q) >= N - (n + 1) PROVE w[q] \in Seq(Events)
    <3>1. CASE list[Last(q)].next = Nil
      BY <1>1, <3>1, BegunAre DEF WalkStep
    <3>2. CASE list[Last(q)].next # Nil
      <4>1. /\ Append(q, list[Last(q)].next) \in Begun /\ Len(q) \in Nat
            /\ Len(Append(q, list[Last(q)].next)) = Len(q) + 1
        BY <3>2, BegunAre
      <4>2. Len(q) + 1 >= N - n
        BY <1>0, <2>1, <4>1
      <4>3. w[Append(q, list[Last(q)].next)] \in Seq(Events)
        BY <1>3, <4>1, <4>2
      <4> QED BY <1>1, <4>3, BegunAre DEF WalkStep
    <3> QED BY <3>1, <3>2
  <2> QED BY <2>1
<1> HIDE DEF T
<1>4. N \in T
  BY <1>0, <1>2, <1>3, Numbers
<1>5. CASE e = Nil
  BY <1>5 DEF From
<1>6. CASE e # Nil
  <2>1. <<e>> \in Begun /\ Len(<<e>>) \in Nat
    BY <1>6 DEF Begun
  <2>2. w[<<e>>] \in Seq(Events)
    BY <1>0, <1>4, <2>1 DEF T
  <2>3. From(list, e) = w[<<e>>]
    BY <1>6 DEF From, Walk, w
  <2> QED BY <2>2, <2>3
<1> QED BY <1>5, <1>6

(* A sequence of different events is the list its links make.            *)
ListOf(list, head, q) ==
  /\ q \in Seq(Events)
  /\ \A i, j \in 1 .. Len(q) : q[i] = q[j] => i = j
  /\ head = IF q = <<>> THEN Nil ELSE q[1]
  /\ \A i \in 1 .. Len(q) : list[q[i]].next = IF i < Len(q) THEN q[i + 1] ELSE Nil

LEMMA NoLongerThanEvents ==
  ASSUME NEW q \in Seq(Events), \A i, j \in 1 .. Len(q) : q[i] = q[j] => i = j
  PROVE  /\ Len(q) <= Cardinality(Events) /\ Len(q) \in Nat
         /\ IsFiniteSet(ToSet(q)) /\ Cardinality(ToSet(q)) = Len(q)
<1>1. Len(q) \in Nat /\ DOMAIN q = 1 .. Len(q)
  OBVIOUS
<1>2. q \in Bijection(1 .. Len(q), ToSet(q))
  BY <1>1 DEF Bijection, Injection, Surjection, IsInjective, ToSet
<1>3. ExistsBijection(1 .. Len(q), ToSet(q))
  BY <1>2 DEF ExistsBijection
<1>4. IsFiniteSet(ToSet(q)) /\ Cardinality(ToSet(q)) = Len(q)
  BY <1>1, <1>3, FS_CountingElements, FS_NatBijection
<1>5. ToSet(q) \in SUBSET Events
  BY <1>1 DEF ToSet
<1>6. Cardinality(ToSet(q)) <= Cardinality(Events)
  BY <1>5, EventsAssumption, FS_Subset
<1> QED BY <1>1, <1>4, <1>6

LEMMA WalkFinds ==
  ASSUME NEW list \in Lists, NEW head, NEW q, ListOf(list, head, q)
  PROVE  From(list, head) = q
<1>1. CASE q = <<>>
  BY <1>1 DEF From, ListOf
<1>2. CASE q # <<>>
  <2> DEFINE w == Walk(list)
             n == Len(q)
             T == {m \in Nat : m < n => w[SubSeq(q, 1, n - m)] = q}
  <2>0. /\ q \in Begun /\ n \in Nat \ {0} /\ n <= Cardinality(Events) /\ Cardinality(Events) \in Nat
        /\ head = q[1] /\ head \in Events /\ \A i \in 1 .. n : q[i] \in Events
    BY <1>2, NoLongerThanEvents, CardinalityEvents DEF ListOf, Begun
  <2>1. \A p \in Begun : w[p] = WalkStep(list, w, p)
    BY WalkExists
  <2> HIDE DEF w
  <2>2. 0 \in T
    <3>1. SubSeq(q, 1, n - 0) = q
      BY <2>0, SubSeqFull DEF Begun
    <3>2. list[Last(q)].next = Nil
      <4>1. n \in 1 .. Len(q) /\ Last(q) = q[n]
        BY <2>0 DEF Last
      <4> QED BY <4>1 DEF ListOf
    <3>3. w[q] = q
      BY <2>0, <2>1, <3>2 DEF WalkStep
    <3> QED BY <3>1, <3>3
  <2>3. ASSUME NEW m \in Nat, m \in T PROVE m + 1 \in T
    <3> SUFFICES ASSUME m + 1 < n PROVE w[SubSeq(q, 1, n - (m + 1))] = q
      OBVIOUS
    <3> DEFINE k == n - (m + 1)
               p == SubSeq(q, 1, k)
    <3>1. k \in 1 .. n /\ k < n /\ k + 1 \in 1 .. n /\ k \in Nat /\ k + 1 = n - m /\ m < n
      BY <2>0
    <3>2. p \in Seq(Events) /\ Len(p) = k /\ \A i \in 1 .. k : p[i] = q[i]
      BY <2>0, <3>1 DEF Begun
    <3>3. w[SubSeq(q, 1, k + 1)] = q
      BY <2>3, <3>1
    <3>4. SubSeq(q, 1, k + 1) = Append(p, q[k + 1])
      <4>1. k + 1 \in 1 .. Len(q) /\ 1 \in 1 .. Len(q) /\ (k + 1) - 1 = k /\ k + 1 \in 1 .. k + 1
        BY <3>1
      <4>2. SubSeq(q, 1, k + 1) = SubSeq(q, 1, (k + 1) - 1) \o <<q[k + 1]>>
        BY <2>0, <3>1, <4>1, SubSeqRecursiveSecond DEF Begun
      <4>3. Append(p, q[k + 1]) = p \o <<q[k + 1]>>
        BY <2>0, <3>1, <3>2, AppendIsConcat
      <4> QED BY <4>1, <4>2, <4>3
    <3> HIDE DEF p, k
    <3>5. p \in Begun /\ Last(p) = q[k]
      <4>1. p # <<>> /\ k \in 1 .. k
        BY <3>1, <3>2
      <4> QED BY <3>2, <4>1 DEF Begun, Last
    <3>6. list[q[k]].next = q[k + 1] /\ q[k + 1] # Nil
      <4>1. k \in 1 .. Len(q) /\ k < Len(q)
        BY <3>1
      <4>2. q[k + 1] \in Events
        BY <2>0, <3>1
      <4> QED BY <4>1, <4>2, EventsAssumption DEF ListOf
    <3>7. Len(p) < Cardinality(Events)
      BY <2>0, <3>1, <3>2
    <3>8. w[p] = w[Append(p, q[k + 1])]
      BY <2>1, <3>5, <3>6, <3>7 DEF WalkStep
    <3>9. w[p] = q
      BY <3>3, <3>4, <3>8
    <3> QED BY <3>9 DEF p, k
  <2> HIDE DEF T
  <2>4. n - 1 \in T
    <3>1. n - 1 \in Nat
      BY <2>0
    <3> QED BY <2>2, <2>3, <3>1, Numbers
  <2>5. w[SubSeq(q, 1, 1)] = q
    <3>1. n - 1 \in Nat /\ n - 1 < n /\ n - (n - 1) = 1
      BY <2>0
    <3> QED BY <2>4, <3>1 DEF T
  <2>6. SubSeq(q, 1, 1) = <<head>>
    <3> DEFINE s1 == SubSeq(q, 1, 1)
               s2 == <<head>>
    <3>1. s1 \in Seq(Events) /\ Len(s1) = 1 /\ s1[1] = q[1]
      BY <2>0 DEF Begun
    <3>2. s2 \in Seq(Events) /\ Len(s2) = 1 /\ s2[1] = head
      BY <2>0
    <3> HIDE DEF s1, s2
    <3>3. s1 = s2
      <4>1. \A i \in 1 .. Len(s1) : s1[i] = s2[i]
        BY <2>0, <3>1, <3>2
      <4> QED BY <3>1, <3>2, <4>1, SeqEqual
    <3> QED BY <3>3 DEF s1, s2
  <2>7. From(list, head) = w[<<head>>]
    <3>1. head # Nil
      BY <2>0, EventsAssumption
    <3> QED BY <3>1 DEF From, Walk, w
  <2> QED BY <2>5, <2>6, <2>7
<1> QED BY <1>1, <1>2

(* What is queued is what is not free; `last` is behind the rest, and    *)
(* the mark behind an event that is there.                               *)
OneList ==
  /\ event \in Lists /\ ListOf(event, first, Queue)
  /\ \A e \in Events : event[e].kind = "free" => event[e] = Free
  /\ \A e \in Events : event[e].kind # "free" => e \in ToSet(Queue)
  /\ \A e \in ToSet(Queue) : event[e].kind # "free"
  /\ last = IF Queue = <<>> THEN Nil ELSE Last(Queue)
  /\ marker \in ToSet(Queue) \cup {Nil}

LEMMA QueueIs ==
  ASSUME OneList
  PROVE  /\ Queue \in Seq(Events) /\ Len(Queue) \in Nat /\ DOMAIN Queue = 1 .. Len(Queue)
         /\ \A i \in 1 .. Len(Queue) : Queue[i] \in Events /\ Queue[i] # Nil
         /\ \A i \in 1 .. Len(Queue) : Queue[i] \in ToSet(Queue)
         /\ ToSet(Queue) = {e \in Events : event[e] # Free}
         /\ \A e \in ToSet(Queue) : \E i \in 1 .. Len(Queue) : Queue[i] = e
         /\ Queue = <<>> <=> first = Nil
         /\ Queue = <<>> <=> Len(Queue) = 0
         /\ \A i, j \in 1 .. Len(Queue) : Queue[i] = Queue[j] => i = j
         /\ \A i \in 1 .. Len(Queue) : event[Queue[i]].next = IF i < Len(Queue) THEN Queue[i + 1] ELSE Nil
         /\ Queue # <<>> => first = Queue[1] /\ last = Queue[Len(Queue)]
         /\ first \in Events \cup {Nil} /\ last \in Events \cup {Nil} /\ marker \in Events \cup {Nil}
<1>1. /\ Queue \in Seq(Events) /\ Len(Queue) \in Nat /\ DOMAIN Queue = 1 .. Len(Queue)
      /\ \A i \in 1 .. Len(Queue) : Queue[i] \in Events
      /\ Queue = <<>> <=> Len(Queue) = 0
  BY DEF OneList, ListOf
<1>2. /\ \A i \in 1 .. Len(Queue) : Queue[i] \in ToSet(Queue)
      /\ \A e \in ToSet(Queue) : \E i \in 1 .. Len(Queue) : Queue[i] = e
  BY <1>1 DEF ToSet
<1>3. /\ Queue # <<>> => first = Queue[1] /\ last = Queue[Len(Queue)]
      /\ Queue = <<>> => first = Nil /\ last = Nil
  BY DEF OneList, ListOf, Last
<1>4. Queue # <<>> => 1 \in 1 .. Len(Queue) /\ Len(Queue) \in 1 .. Len(Queue)
  BY <1>1
<1>5. ToSet(Queue) = {e \in Events : event[e] # Free}
  <2>1. Free.kind = "free"
    BY DEF Free
  <2>2. ToSet(Queue) \subseteq Events
    BY <1>1, <1>2
  <2> QED BY <2>1, <2>2 DEF OneList
<1>6. Nil \notin Events
  BY EventsAssumption
<1>7. marker \in Events \cup {Nil}
  BY <1>5 DEF OneList
<1>8. /\ \A i, j \in 1 .. Len(Queue) : Queue[i] = Queue[j] => i = j
      /\ \A i \in 1 .. Len(Queue) : event[Queue[i]].next = IF i < Len(Queue) THEN Queue[i + 1] ELSE Nil
  BY DEF OneList, ListOf
<1> HIDE DEF Queue
<1> QED BY <1>1, <1>2, <1>3, <1>4, <1>5, <1>6, <1>7, <1>8

(* What has the same kind and is as ready to be served.                  *)
Same(f, g) == f.kind = g.kind /\ f.fd = g.fd /\ f.armed = g.armed

(* The list becomes another one.                                         *)
LEMMA ListBecomes ==
  ASSUME NEW q, event' \in Lists, ListOf(event', first', q),
         \A x \in Events : event'[x].kind = "free" => event'[x] = Free,
         \A x \in Events : event'[x].kind # "free" <=> x \in ToSet(q),
         last' = IF q = <<>> THEN Nil ELSE q[Len(q)],
         marker' \in ToSet(q) \cup {Nil}
  PROVE  OneList' /\ Queue' = q
<1>1. PICK list, head : list = event' /\ head = first'
  OBVIOUS
<1>2. From(list, head) = q
  BY <1>1, WalkFinds
<1>3. Queue' = q
  BY <1>1, <1>2 DEF Queue
<1>4. ToSet(q) \subseteq Events
  BY DEF ListOf, ToSet
<1> QED BY <1>3, <1>4 DEF OneList, Last

LEMMA ToSetIs ==
  ASSUME NEW S, NEW q \in Seq(S)
  PROVE  /\ \A i \in 1 .. Len(q) : q[i] \in ToSet(q)
         /\ \A x \in ToSet(q) : \E i \in 1 .. Len(q) : q[i] = x
         /\ ToSet(q) \subseteq S /\ Len(q) \in Nat
<1>1. DOMAIN q = 1 .. Len(q) /\ \A i \in 1 .. Len(q) : q[i] \in S
  OBVIOUS
<1> QED BY <1>1 DEF ToSet

(* An event comes into the list: behind another one, or as the first.    *)
LEMMA Spliced ==
  ASSUME OneList, NEW e \in Events, event[e] = Free, NEW p \in 1 .. Len(Queue) + 1,
         event' \in Lists, event'[e].kind # "free",
         event'[e].next = IF p <= Len(Queue) THEN Queue[p] ELSE Nil,
         \A x \in Events : x # e => event'[x].kind = event[x].kind,
         \A x \in Events : x # e /\ ~(p > 1 /\ x = Queue[p - 1]) => event'[x] = event[x],
         p > 1 => event'[Queue[p - 1]].next = e,
         first' = IF p = 1 THEN e ELSE first,
         last' = IF p = Len(Queue) + 1 THEN e ELSE last,
         marker' \in {marker, e}
  PROVE  OneList' /\ Queue' = InsertAt(Queue, p, e)
<1>1. PICK q : q = Queue
  OBVIOUS
<1>2. /\ q \in Seq(Events) /\ Len(q) \in Nat /\ p \in 1 .. Len(q) + 1 /\ p \in Int
      /\ \A i \in 1 .. Len(q) : q[i] \in Events /\ q[i] \in ToSet(q)
      /\ \A x \in ToSet(q) : x \in Events /\ event[x].kind # "free"
      /\ \A x \in Events : event[x].kind # "free" => x \in ToSet(q)
      /\ \A i, j \in 1 .. Len(q) : q[i] = q[j] => i = j
      /\ \A i \in 1 .. Len(q) : event[q[i]].next = IF i < Len(q) THEN q[i + 1] ELSE Nil
      /\ q = <<>> <=> Len(q) = 0
      /\ q # <<>> => first = q[1] /\ last = q[Len(q)]
      /\ marker \in ToSet(q) \cup {Nil}
  BY <1>1, QueueIs DEF OneList
<1>3. e \notin ToSet(q)
  BY <1>2 DEF Free
<1>4. PICK r : r = InsertAt(q, p, e)
  OBVIOUS
<1>5. /\ r \in Seq(Events) /\ Len(r) = Len(q) + 1 /\ r # <<>>
      /\ \A i \in 1 .. Len(q) + 1 : r[i] = IF i < p THEN q[i] ELSE IF i = p THEN e ELSE q[i - 1]
  BY <1>2, <1>4, Inserted, SMTT(30)
<1>6. ToSet(r) = ToSet(q) \cup {e}
  <2>1. ASSUME NEW x \in ToSet(r) PROVE x \in ToSet(q) \cup {e}
    <3>1. PICK i \in 1 .. Len(r) : r[i] = x
      BY <1>5, ToSetIs
    <3>2. CASE i < p
      <4>1. i \in 1 .. Len(q) /\ r[i] = q[i]
        BY <1>2, <1>5, <3>2
      <4> QED BY <1>2, <3>1, <4>1
    <3>3. CASE i > p
      <4>1. i - 1 \in 1 .. Len(q) /\ r[i] = q[i - 1]
        BY <1>2, <1>5, <3>3
      <4> QED BY <1>2, <3>1, <4>1
    <3>4. CASE i = p
      <4>1. r[i] = e
        BY <1>2, <1>5, <3>4
      <4> QED BY <3>1, <4>1
    <3>5. i < p \/ i = p \/ i > p
      BY <1>2
    <3> QED BY <3>2, <3>3, <3>4, <3>5
  <2>2. ASSUME NEW x \in ToSet(q) PROVE x \in ToSet(r)
    <3>1. PICK i \in 1 .. Len(q) : q[i] = x
      BY <1>2, ToSetIs
    <3>2. CASE i < p
      <4>1. i \in 1 .. Len(r) /\ r[i] = x
        BY <1>2, <1>5, <3>1, <3>2
      <4> QED BY <1>5, <4>1, ToSetIs
    <3>3. CASE ~(i < p)
      <4>1. i + 1 \in 1 .. Len(r) /\ ~(i + 1 < p) /\ i + 1 # p /\ (i + 1) - 1 = i
        BY <1>2, <1>5, <3>1, <3>3
      <4>2. r[i + 1] = x
        BY <1>5, <3>1, <4>1
      <4> QED BY <1>5, <4>1, <4>2, ToSetIs
    <3> QED BY <3>2, <3>3
  <2>3. e \in ToSet(r)
    <3>1. p \in 1 .. Len(r) /\ r[p] = e
      BY <1>2, <1>5
    <3> QED BY <1>5, <3>1, ToSetIs
  <2> QED BY <2>1, <2>2, <2>3
<1>7. ASSUME NEW i \in 1 .. Len(r), NEW j \in 1 .. Len(r), r[i] = r[j] PROVE i = j
  <2>1. \A k \in 1 .. Len(r) : /\ k < p => k \in 1 .. Len(q) /\ r[k] = q[k]
                               /\ k = p => r[k] = e
                               /\ k > p => k - 1 \in 1 .. Len(q) /\ r[k] = q[k - 1]
    BY <1>2, <1>5
  <2>0. \A k \in 1 .. Len(r) : k = p <=> r[k] = e
    <3>1. \A k \in 1 .. Len(q) : q[k] # e
      BY <1>2, <1>3
    <3>2. \A k \in 1 .. Len(r) : k < p \/ k = p \/ k > p
      BY <1>2, <1>5
    <3>3. ASSUME NEW k \in 1 .. Len(r) PROVE k = p <=> r[k] = e
      <4>1. CASE k < p
        BY <2>1, <3>1, <4>1
      <4>2. CASE k = p
        BY <2>1, <4>2
      <4>3. CASE k > p
        <5>1. k - 1 \in 1 .. Len(q) /\ r[k] = q[k - 1]
          BY <2>1, <3>3, <4>3
        <5>2. r[k] # e
          BY <3>1, <5>1
        <5>3. k # p
          BY <1>2, <1>5, <4>3
        <5> QED BY <5>2, <5>3
      <4> QED BY <3>2, <4>1, <4>2, <4>3
    <3> QED BY <3>3
  <2>2. i = p <=> j = p
    BY <1>7, <2>0
  <2>3. i < p <=> j < p
    BY <1>2, <1>7, <2>1, <2>2
  <2> QED BY <1>2, <1>7, <2>1, <2>2, <2>3, SMTT(30)
<1>8. ASSUME NEW i \in 1 .. Len(r)
      PROVE  event'[r[i]].next = IF i < Len(r) THEN r[i + 1] ELSE Nil
  <2>1. CASE i < p - 1
    <3>1. /\ i \in 1 .. Len(q) /\ i + 1 \in 1 .. Len(q) + 1 /\ i + 1 < p /\ i < Len(q)
          /\ p - 1 \in 1 .. Len(q) /\ i # p - 1 /\ i < Len(r)
      BY <1>2, <1>5, <2>1
    <3>2. r[i] = q[i] /\ r[i + 1] = q[i + 1]
      BY <1>5, <2>1, <3>1
    <3>3. q[i] # q[p - 1] /\ q[i] # e
      BY <1>2, <1>3, <3>1
    <3>4. event'[q[i]] = event[q[i]]
      BY <1>1, <1>2, <3>1, <3>3
    <3> QED BY <1>2, <3>1, <3>2, <3>4
  <2>2. CASE i = p - 1
    <3>1. i \in 1 .. Len(q) /\ i + 1 \in 1 .. Len(q) + 1 /\ i < p /\ i + 1 = p /\ i < Len(r) /\ p > 1
      BY <1>2, <1>5, <2>2
    <3>2. r[i] = q[p - 1] /\ r[i + 1] = e
      BY <1>5, <2>2, <3>1
    <3> QED BY <1>1, <3>1, <3>2
  <2>3. CASE i = p
    <3>1. r[i] = e
      BY <1>2, <1>5, <2>3
    <3>2. i <= Len(q) <=> i < Len(r)
      BY <1>2, <1>5, <2>3
    <3>3. i <= Len(q) => r[i + 1] = q[p]
      <4>1. i <= Len(q) => i + 1 \in 1 .. Len(q) + 1 /\ ~(i + 1 < p) /\ i + 1 # p /\ (i + 1) - 1 = p
        BY <1>2, <2>3
      <4> QED BY <1>5, <4>1
    <3> QED BY <1>1, <2>3, <3>1, <3>2, <3>3
  <2>4. CASE i > p
    <3>1. /\ i - 1 \in 1 .. Len(q) /\ ~(i < p) /\ i # p /\ (i - 1 < Len(q) <=> i < Len(r))
          /\ i < Len(r) => i + 1 \in 1 .. Len(q) + 1 /\ ~(i + 1 < p) /\ i + 1 # p /\ (i + 1) - 1 = i
          /\ (i - 1) + 1 = i
      BY <1>2, <1>5, <2>4
    <3>2. r[i] = q[i - 1] /\ (i < Len(r) => r[i + 1] = q[i])
      BY <1>5, <3>1
    <3>3. p > 1 => p - 1 \in 1 .. Len(q) /\ p - 1 # i - 1
      BY <1>2, <2>4
    <3>4. q[i - 1] # e /\ ~(p > 1 /\ q[i - 1] = q[p - 1])
      BY <1>2, <1>3, <3>1, <3>3
    <3>5. event'[q[i - 1]] = event[q[i - 1]]
      BY <1>1, <1>2, <3>1, <3>4
    <3>6. event[q[i - 1]].next = IF i - 1 < Len(q) THEN q[(i - 1) + 1] ELSE Nil
      BY <1>2, <3>1
    <3> QED BY <3>1, <3>2, <3>5, <3>6
  <2>5. i < p - 1 \/ i = p - 1 \/ i = p \/ i > p
    BY <1>2, <1>5
  <2> QED BY <2>1, <2>2, <2>3, <2>4, <2>5
<1>9. first' = r[1]
  <2>1. CASE p = 1
    <3>1. 1 \in 1 .. Len(q) + 1
      BY <1>2
    <3> QED BY <1>5, <2>1, <3>1
  <2>2. CASE p # 1
    <3>1. 1 \in 1 .. Len(q) + 1 /\ 1 < p /\ q # <<>>
      BY <1>2, <2>2
    <3> QED BY <1>2, <1>5, <2>2, <3>1
  <2> QED BY <2>1, <2>2
<1>10. last' = r[Len(r)]
  <2>1. Len(r) \in 1 .. Len(q) + 1
    BY <1>2, <1>5
  <2>2. CASE p = Len(q) + 1
    BY <1>1, <1>5, <2>1, <2>2
  <2>3. CASE p # Len(q) + 1
    <3>1. ~(Len(r) < p) /\ Len(r) # p /\ Len(r) - 1 = Len(q) /\ q # <<>>
      BY <1>2, <1>5, <2>3
    <3> QED BY <1>1, <1>2, <1>5, <2>1, <2>3, <3>1
  <2> QED BY <2>2, <2>3
<1>11. marker' \in ToSet(r) \cup {Nil}
  BY <1>2, <1>6
<1>12. \A x \in Events : event'[x].kind # "free" <=> x \in ToSet(r)
  BY <1>2, <1>3, <1>6
<1>13. ASSUME NEW x \in Events, event'[x].kind = "free" PROVE event'[x] = Free
  <2>1. x # e /\ event[x].kind = "free"
    BY <1>13
  <2>2. ~(p > 1 /\ x = Queue[p - 1])
    <3>1. p > 1 => p - 1 \in 1 .. Len(q)
      BY <1>2
    <3> QED BY <1>1, <1>2, <2>1, <3>1
  <2> QED BY <2>1, <2>2 DEF OneList
<1>14. ListOf(event', first', r)
  BY <1>5, <1>7, <1>8, <1>9 DEF ListOf
<1>15. last' = IF r = <<>> THEN Nil ELSE r[Len(r)]
  BY <1>5, <1>10
<1>16. OneList' /\ Queue' = r
  BY <1>11, <1>12, <1>13, <1>14, <1>15, ListBecomes
<1> QED BY <1>1, <1>4, <1>16

(* One event has come, at a place, and nothing but links has changed     *)
(* beside it.                                                            *)
Came(e, v, p) ==
  /\ p \in 1 .. Len(Queue) + 1
  /\ OneList' /\ Queue' = InsertAt(Queue, p, e)
  /\ Same(event'[e], v) /\ \A x \in Events : x # e => Same(event'[x], event[x])

LEMMA TailComes ==
  ASSUME OneList, NEW e \in Events, event[e] = Free,
         NEW v \in Places, v.kind # "free", v.next = Nil, QueueTail(e, v)
  PROVE  Came(e, v, Len(Queue) + 1)
<1>0. event \in Lists
  BY DEF OneList
<1>1. PICK put : put = [event EXCEPT ![e] = v]
  OBVIOUS
<1>2. put \in Lists /\ put[e] = v /\ \A x \in Events : x # e => put[x] = event[x]
  BY <1>0, <1>1 DEF Lists
<1>3. /\ event' = [put EXCEPT ![IF first = Nil THEN e ELSE last].next = IF first = Nil THEN Nil ELSE e]
      /\ first' = (IF first = Nil THEN e ELSE first) /\ last' = e /\ marker' = marker
  BY <1>1 DEF QueueTail
<1>4. PICK q : q = Queue
  OBVIOUS
<1>5. /\ q \in Seq(Events) /\ Len(q) \in Nat /\ \A i \in 1 .. Len(q) : q[i] \in Events /\ event[q[i]] # Free
      /\ q = <<>> <=> first = Nil
      /\ q = <<>> <=> Len(q) = 0
      /\ q # <<>> => last = q[Len(q)] /\ last \in Events
  BY <1>4, QueueIs
<1>6. /\ event' \in Lists /\ event'[e].next = Nil /\ Same(event'[e], v)
      /\ \A x \in Events : x # e => Same(event'[x], event[x])
      /\ \A x \in Events : x # e /\ ~(first # Nil /\ x = last) => event'[x] = event[x]
      /\ first # Nil => event'[last].next = e
  <2>1. CASE first = Nil
    <3>1. event' = [put EXCEPT ![e].next = Nil]
      BY <1>3, <2>1
    <3>2. PICK new : new = event'
      OBVIOUS
    <3>3. /\ new \in Lists /\ \A x \in Events : x # e => new[x] = put[x]
          /\ new[e].next = Nil /\ new[e].kind = put[e].kind
          /\ new[e].fd = put[e].fd /\ new[e].armed = put[e].armed
      BY <1>2, <3>1, <3>2 DEF Lists, Places
    <3> QED BY <1>2, <2>1, <3>2, <3>3 DEF Same
  <2>2. CASE first # Nil
    <3>0. last \in Events /\ last # e
      <4>1. q # <<>> /\ Len(q) \in 1 .. Len(q)
        BY <1>5, <2>2
      <4> QED BY <1>5, <4>1
    <3>1. event' = [put EXCEPT ![last].next = e]
      BY <1>3, <2>2
    <3>2. PICK new : new = event'
      OBVIOUS
    <3>3. /\ new \in Lists /\ \A x \in Events : x # last => new[x] = put[x]
          /\ new[last].next = e /\ new[last].kind = put[last].kind
          /\ new[last].fd = put[last].fd /\ new[last].armed = put[last].armed
      BY <1>2, <3>0, <3>1, <3>2 DEF Lists, Places
    <3> QED BY <1>2, <2>2, <3>0, <3>2, <3>3 DEF Same
  <2> QED BY <2>1, <2>2
<1>7. PICK p : p = Len(Queue) + 1
  OBVIOUS
<1>8. /\ p \in 1 .. Len(Queue) + 1 /\ ~(p <= Len(Queue)) /\ (p > 1 <=> first # Nil)
      /\ p > 1 => last = Queue[p - 1]
      /\ p = 1 <=> first = Nil
  BY <1>4, <1>5, <1>7
<1>9. OneList' /\ Queue' = InsertAt(Queue, p, e)
  <2>1. event'[e].kind # "free"
    BY <1>6 DEF Same
  <2>2. event'[e].next = IF p <= Len(Queue) THEN Queue[p] ELSE Nil
    BY <1>6, <1>8
  <2>3. \A x \in Events : x # e => event'[x].kind = event[x].kind
    BY <1>6 DEF Same
  <2>4. \A x \in Events : x # e /\ ~(p > 1 /\ x = Queue[p - 1]) => event'[x] = event[x]
    BY <1>6, <1>8
  <2>5. p > 1 => event'[Queue[p - 1]].next = e
    BY <1>6, <1>8
  <2>6. first' = IF p = 1 THEN e ELSE first
    BY <1>3, <1>8
  <2>7. last' = IF p = Len(Queue) + 1 THEN e ELSE last
    BY <1>3, <1>7
  <2>8. event' \in Lists /\ marker' \in {marker, e} /\ p \in 1 .. Len(Queue) + 1
    BY <1>3, <1>6, <1>8
  <2> QED BY <2>1, <2>2, <2>3, <2>4, <2>5, <2>6, <2>7, <2>8, Spliced
<1> QED BY <1>6, <1>7, <1>8, <1>9 DEF Came

LEMMA HeadComes ==
  ASSUME OneList, NEW e \in Events, event[e] = Free,
         NEW v \in Places, v.kind # "free", QueueHead(e, v)
  PROVE  Came(e, v, 1)
<1>0. event \in Lists
  BY DEF OneList
<1>1. /\ first' = e /\ last' = (IF first = Nil THEN e ELSE last) /\ marker' = marker
      /\ event' = [event EXCEPT ![e] = [v EXCEPT !.next = first]]
  BY DEF QueueHead
<1>2. PICK q : q = Queue
  OBVIOUS
<1>3. /\ Len(q) \in Nat /\ first \in Events \cup {Nil}
      /\ q = <<>> <=> first = Nil
      /\ q = <<>> <=> Len(q) = 0
      /\ q # <<>> => first = q[1]
  BY <1>2, QueueIs
<1>4. PICK w : w = [v EXCEPT !.next = first]
  OBVIOUS
<1>5. w \in Places /\ w.next = first /\ Same(w, v) /\ w.kind # "free"
  BY <1>3, <1>4 DEF Places, Same
<1>6. PICK new : new = event'
  OBVIOUS
<1>7. new = [event EXCEPT ![e] = w]
  BY <1>1, <1>4, <1>6
<1>8. new \in Lists /\ new[e] = w /\ \A x \in Events : x # e => new[x] = event[x]
  BY <1>0, <1>5, <1>7 DEF Lists
<1>9. PICK p : p = 1
  OBVIOUS
<1>10. /\ p \in 1 .. Len(Queue) + 1 /\ ~(p > 1) /\ (p <= Len(Queue) <=> first # Nil)
       /\ p <= Len(Queue) => first = Queue[p]
       /\ p = Len(Queue) + 1 <=> first = Nil
  BY <1>2, <1>3, <1>9
<1>11. OneList' /\ Queue' = InsertAt(Queue, p, e)
  <2>1. event'[e].kind # "free" /\ event' \in Lists /\ marker' \in {marker, e}
    BY <1>1, <1>5, <1>6, <1>8
  <2>2. event'[e].next = IF p <= Len(Queue) THEN Queue[p] ELSE Nil
    BY <1>5, <1>6, <1>8, <1>10
  <2>3. \A x \in Events : x # e => event'[x].kind = event[x].kind
    BY <1>6, <1>8
  <2>4. \A x \in Events : x # e /\ ~(p > 1 /\ x = Queue[p - 1]) => event'[x] = event[x]
    BY <1>6, <1>8
  <2>5. p > 1 => event'[Queue[p - 1]].next = e
    BY <1>10
  <2>6. first' = IF p = 1 THEN e ELSE first
    BY <1>1, <1>9
  <2>7. last' = IF p = Len(Queue) + 1 THEN e ELSE last
    BY <1>1, <1>10
  <2> QED BY <1>10, <2>1, <2>2, <2>3, <2>4, <2>5, <2>6, <2>7, Spliced
<1> QED BY <1>5, <1>6, <1>8, <1>9, <1>10, <1>11 DEF Came, Same

(* How far the mark is.                                                  *)
LEMMA MarkedIs ==
  ASSUME OneList
  PROVE  /\ Marked \in 0 .. Len(Queue)
         /\ marker = Nil <=> Marked = 0
         /\ marker # Nil => Queue[Marked] = marker
         /\ \A i \in 1 .. Len(Queue) : Queue[i] = marker => i = Marked
<1>1. PICK q : q = Queue
  OBVIOUS
<1>2. /\ DOMAIN q = 1 .. Len(q) /\ Len(q) \in Nat /\ \A i \in 1 .. Len(q) : q[i] # Nil
      /\ \A i, j \in 1 .. Len(q) : q[i] = q[j] => i = j
      /\ \A x \in ToSet(q) : \E i \in 1 .. Len(q) : q[i] = x
      /\ marker \in ToSet(q) \cup {Nil}
  BY <1>1, QueueIs DEF OneList
<1>3. Marked = IF marker = Nil THEN 0 ELSE CHOOSE i \in 1 .. Len(q) : q[i] = marker
  BY <1>1, <1>2 DEF Marked
<1>4. CASE marker = Nil
  BY <1>1, <1>2, <1>3, <1>4
<1>5. CASE marker # Nil
  <2>1. \E i \in 1 .. Len(q) : q[i] = marker
    BY <1>2, <1>5
  <2>2. Marked \in 1 .. Len(q) /\ q[Marked] = marker
    BY <1>3, <1>5, <2>1
  <2> QED BY <1>1, <1>2, <1>5, <2>2
<1> QED BY <1>4, <1>5

LEMMA MarkComes ==
  ASSUME OneList, NEW e \in Events, event[e] = Free,
         NEW v \in Places, v.kind # "free", QueueMark(e, v)
  PROVE  Came(e, v, Marked + 1)
<1>0. event \in Lists
  BY DEF OneList
<1>1. PICK q : q = Queue
  OBVIOUS
<1>2. /\ q \in Seq(Events) /\ Len(q) \in Nat /\ first \in Events \cup {Nil}
      /\ \A i \in 1 .. Len(q) : q[i] \in Events /\ q[i] # Nil /\ event[q[i]] # Free
      /\ \A i \in 1 .. Len(q) : event[q[i]].next = IF i < Len(q) THEN q[i + 1] ELSE Nil
      /\ q = <<>> <=> first = Nil
      /\ q = <<>> <=> Len(q) = 0
      /\ q # <<>> => first = q[1]
  BY <1>1, QueueIs
<1>3. PICK m : m = Marked
  OBVIOUS
<1>4. /\ m \in 0 .. Len(q) /\ (marker = Nil <=> m = 0) /\ (marker # Nil => q[m] = marker)
  BY <1>1, <1>3, MarkedIs
<1>5. PICK after : after = IF marker = Nil THEN first ELSE event[marker].next
  OBVIOUS
<1>6. after = (IF m + 1 <= Len(q) THEN q[m + 1] ELSE Nil) /\ after \in Events \cup {Nil}
      /\ (after = Nil <=> m = Len(q))
  <2>1. after = IF m + 1 <= Len(q) THEN q[m + 1] ELSE Nil
    <3>1. CASE marker = Nil
      BY <1>2, <1>4, <1>5, <3>1
    <3>2. CASE marker # Nil
      <4>1. m \in 1 .. Len(q) /\ (m < Len(q) <=> m + 1 <= Len(q))
        BY <1>2, <1>4, <3>2
      <4> QED BY <1>2, <1>4, <1>5, <3>2, <4>1
    <3> QED BY <3>1, <3>2
  <2>2. m + 1 <= Len(q) => m + 1 \in 1 .. Len(q)
    BY <1>2, <1>4
  <2>3. m + 1 <= Len(q) <=> m # Len(q)
    BY <1>2, <1>4
  <2> QED BY <1>2, <2>1, <2>2, <2>3
<1>7. PICK w : w = [v EXCEPT !.next = after]
  OBVIOUS
<1>8. w \in Places /\ w.next = after /\ Same(w, v) /\ w.kind # "free"
  BY <1>6, <1>7 DEF Places, Same
<1>9. PICK put : put = [event EXCEPT ![e] = w]
  OBVIOUS
<1>10. put \in Lists /\ put[e] = w /\ \A x \in Events : x # e => put[x] = event[x]
  BY <1>0, <1>8, <1>9 DEF Lists
<1>11. /\ event' = IF marker = Nil THEN put ELSE [put EXCEPT ![marker].next = e]
       /\ first' = (IF marker = Nil THEN e ELSE first)
       /\ last' = (IF after = Nil THEN e ELSE last) /\ marker' = e
  BY <1>5, <1>7, <1>9 DEF QueueMark
<1>12. marker # Nil => marker \in Events /\ marker # e
  <2>1. marker # Nil => m \in 1 .. Len(q)
    BY <1>2, <1>4
  <2> QED BY <1>2, <1>4, <2>1
<1>13. /\ event' \in Lists /\ event'[e].next = after /\ Same(event'[e], v)
       /\ \A x \in Events : x # e => Same(event'[x], event[x])
       /\ \A x \in Events : x # e /\ x # marker => event'[x] = event[x]
       /\ marker # Nil => event'[marker].next = e
  <2>1. CASE marker = Nil
    BY <1>8, <1>10, <1>11, <2>1 DEF Same
  <2>2. CASE marker # Nil
    <3>1. PICK new : new = event'
      OBVIOUS
    <3>2. /\ new \in Lists /\ \A x \in Events : x # marker => new[x] = put[x]
          /\ new[marker].next = e /\ new[marker].kind = put[marker].kind
          /\ new[marker].fd = put[marker].fd /\ new[marker].armed = put[marker].armed
      BY <1>10, <1>11, <1>12, <2>2, <3>1 DEF Lists, Places
    <3> QED BY <1>8, <1>10, <1>12, <2>2, <3>1, <3>2 DEF Same
  <2> QED BY <2>1, <2>2
<1>14. PICK p : p = m + 1
  OBVIOUS
<1>15. /\ p \in 1 .. Len(Queue) + 1 /\ (p > 1 <=> marker # Nil) /\ (p = 1 <=> marker = Nil)
       /\ p > 1 => Queue[p - 1] = marker
       /\ after = IF p <= Len(Queue) THEN Queue[p] ELSE Nil
       /\ p = Len(Queue) + 1 <=> after = Nil
  BY <1>1, <1>2, <1>4, <1>6, <1>14
<1>16. OneList' /\ Queue' = InsertAt(Queue, p, e)
  <2>1. event'[e].kind # "free" /\ event' \in Lists /\ marker' \in {marker, e}
    BY <1>11, <1>13 DEF Same
  <2>2. event'[e].next = IF p <= Len(Queue) THEN Queue[p] ELSE Nil
    BY <1>13, <1>15
  <2>3. \A x \in Events : x # e => event'[x].kind = event[x].kind
    BY <1>13 DEF Same
  <2>4. \A x \in Events : x # e /\ ~(p > 1 /\ x = Queue[p - 1]) => event'[x] = event[x]
    <3>1. Nil \notin Events
      BY EventsAssumption
    <3> QED BY <1>13, <1>15, <3>1
  <2>5. p > 1 => event'[Queue[p - 1]].next = e
    BY <1>13, <1>15
  <2>6. first' = IF p = 1 THEN e ELSE first
    BY <1>11, <1>15
  <2>7. last' = IF p = Len(Queue) + 1 THEN e ELSE last
    BY <1>11, <1>15
  <2> QED BY <1>15, <2>1, <2>2, <2>3, <2>4, <2>5, <2>6, <2>7, Spliced
<1> QED BY <1>3, <1>13, <1>14, <1>15, <1>16 DEF Came

(* queue_event: the event that comes is one no loop serves.              *)
Positions == {"tail", "head", "mark"}

LEMMA Comes ==
  ASSUME OneList, NEW v \in Places, v.kind # "free", v.next = Nil,
         NEW position \in Positions, queue_event(v, position)
  PROVE  \E e \in Events : Unused(e) /\ \E p : Came(e, v, p)
<1>1. Storage \in Events /\ Unused(Storage)
  BY DEF queue_event, Storage
<1>2. PICK e \in Events : e = Storage /\ Unused(e)
  BY <1>1
<1>3. event[e] = Free
  BY <1>2 DEF Unused
<1>4. CASE position = "tail"
  <2>1. QueueTail(e, v)
    BY <1>2, <1>4 DEF queue_event
  <2> QED BY <1>2, <1>3, <2>1, TailComes
<1>5. CASE position = "head"
  <2>1. QueueHead(e, v)
    BY <1>2, <1>5 DEF queue_event
  <2> QED BY <1>2, <1>3, <2>1, HeadComes
<1>6. CASE position = "mark"
  <2>1. QueueMark(e, v)
    BY <1>2, <1>6 DEF queue_event
  <2> QED BY <1>2, <1>3, <2>1, MarkComes
<1> QED BY <1>4, <1>5, <1>6 DEF Positions

-----------------------------------------------------------------------------
(* An event leaves the list, whatever the list has become meanwhile.     *)
LEMMA TakenOut ==
  ASSUME NEW q \in Seq(Events), NEW i \in 1 .. Len(q), NEW r, r = RemoveAt(q, i),
         \A j, k \in 1 .. Len(q) : q[j] = q[k] => j = k
  PROVE  /\ r \in Seq(Events) /\ Len(r) = Len(q) - 1 /\ Len(q) \in Nat \ {0}
         /\ \A k \in 1 .. Len(q) - 1 : r[k] = IF k < i THEN q[k] ELSE q[k + 1]
         /\ ToSet(r) = ToSet(q) \ {q[i]}
         /\ \A j, k \in 1 .. Len(r) : r[j] = r[k] => j = k
         /\ (r = <<>> <=> Len(r) = 0)
<1>1. /\ r \in Seq(Events) /\ Len(r) = Len(q) - 1 /\ Len(q) \in Nat \ {0} /\ i \in Int
      /\ \A k \in 1 .. Len(q) - 1 : r[k] = IF k < i THEN q[k] ELSE q[k + 1]
      /\ r = <<>> <=> Len(r) = 0
  BY Removed, SMTT(30)
<1>2. \A k \in 1 .. Len(r) : /\ k < i => k \in 1 .. Len(q) /\ k # i /\ r[k] = q[k]
                             /\ ~(k < i) => k + 1 \in 1 .. Len(q) /\ k + 1 # i /\ r[k] = q[k + 1]
  BY <1>1
<1>3. ASSUME NEW j \in 1 .. Len(r), NEW k \in 1 .. Len(r), r[j] = r[k] PROVE j = k
  <2>1. CASE j < i /\ k < i
    BY <1>2, <1>3, <2>1
  <2>2. CASE j < i /\ ~(k < i)
    <3>1. j = k + 1
      BY <1>2, <1>3, <2>2
    <3> QED BY <1>1, <2>2, <3>1
  <2>3. CASE ~(j < i) /\ k < i
    <3>1. j + 1 = k
      BY <1>2, <1>3, <2>3
    <3> QED BY <1>1, <2>3, <3>1
  <2>4. CASE ~(j < i) /\ ~(k < i)
    <3>1. j + 1 = k + 1
      BY <1>2, <1>3, <2>4
    <3> QED BY <1>1, <3>1
  <2> QED BY <2>1, <2>2, <2>3, <2>4
<1>4. ASSUME NEW x \in ToSet(r) PROVE x \in ToSet(q) /\ x # q[i]
  <2>1. PICK k \in 1 .. Len(r) : r[k] = x
    BY <1>1, ToSetIs
  <2>2. PICK j \in 1 .. Len(q) : j # i /\ x = q[j]
    BY <1>2, <2>1
  <2> QED BY <2>2, ToSetIs
<1>5. ASSUME NEW x \in ToSet(q), x # q[i] PROVE x \in ToSet(r)
  <2>1. PICK k \in 1 .. Len(q) : q[k] = x
    BY ToSetIs
  <2>2. k # i
    BY <1>5, <2>1
  <2>3. CASE k < i
    <3>1. k \in 1 .. Len(r) /\ r[k] = x
      BY <1>1, <2>1, <2>3
    <3> QED BY <1>1, <3>1, ToSetIs
  <2>4. CASE k > i
    <3>1. k - 1 \in 1 .. Len(r) /\ ~(k - 1 < i) /\ (k - 1) + 1 = k
      BY <1>1, <2>4
    <3>2. r[k - 1] = x
      BY <1>1, <2>1, <3>1
    <3> QED BY <1>1, <3>1, <3>2, ToSetIs
  <2> QED BY <1>1, <2>2, <2>3, <2>4
<1> QED BY <1>1, <1>3, <1>4, <1>5

(* What the walk of Unlink finds.                                        *)
Found(e) == IF e = first THEN Nil ELSE CHOOSE p \in ToSet(Queue) : event[p].next = e

LEMMA FoundBefore ==
  ASSUME OneList, NEW i \in 1 .. Len(Queue)
  PROVE  Found(Queue[i]) = IF i = 1 THEN Nil ELSE Queue[i - 1]
<1>0. PICK prev : prev = Found(Queue[i])
  OBVIOUS
<1>1. PICK q : q = Queue
  OBVIOUS
<1>2. /\ Len(q) \in Nat /\ i \in 1 .. Len(q) /\ i \in Int
      /\ \A k \in 1 .. Len(q) : q[k] \in ToSet(q) /\ q[k] # Nil
      /\ \A x \in ToSet(q) : \E k \in 1 .. Len(q) : q[k] = x
      /\ \A j, k \in 1 .. Len(q) : q[j] = q[k] => j = k
      /\ \A k \in 1 .. Len(q) : event[q[k]].next = IF k < Len(q) THEN q[k + 1] ELSE Nil
      /\ Len(q) # 0 => first = q[1]
  BY <1>1, QueueIs
<1>3. first = q[1] /\ 1 \in 1 .. Len(q)
  BY <1>2
<1>4. CASE i = 1
  BY <1>0, <1>1, <1>3, <1>4 DEF Found
<1>5. CASE i # 1
  <2>1. q[i] # first /\ i - 1 \in 1 .. Len(q) /\ i - 1 < Len(q) /\ (i - 1) + 1 = i
    BY <1>2, <1>3, <1>5
  <2>2. event[q[i - 1]].next = q[i] /\ q[i - 1] \in ToSet(q)
    BY <1>2, <2>1
  <2>3. prev \in ToSet(q) /\ event[prev].next = q[i]
    BY <1>0, <1>1, <2>1, <2>2 DEF Found
  <2>4. PICK k \in 1 .. Len(q) : q[k] = prev
    BY <1>2, <2>3
  <2>5. k < Len(q) /\ q[k + 1] = q[i]
    BY <1>2, <2>3, <2>4
  <2>6. k + 1 \in 1 .. Len(q)
    BY <1>2, <2>5
  <2>7. k + 1 = i
    BY <1>2, <2>5, <2>6
  <2>8. k = i - 1
    BY <1>2, <2>7
  <2> QED BY <1>0, <1>1, <1>5, <2>4, <2>8
<1> QED BY <1>4, <1>5

Gone(e) ==
  /\ e \in Events => event'[e] = Free
  /\ \A x \in Events : x # e => Same(event'[x], event[x])

LEMMA Unlinked ==
  ASSUME OneList, NEW e \in Events, e \in ToSet(Queue), Unlink(e)
  PROVE  /\ OneList' /\ Gone(e)
         /\ \E i \in 1 .. Len(Queue) : Queue[i] = e /\ Queue' = RemoveAt(Queue, i)
<1>1. PICK q : q = Queue
  OBVIOUS
<1>2. /\ q \in Seq(Events) /\ Len(q) \in Nat
      /\ \A k \in 1 .. Len(q) : q[k] \in Events /\ q[k] \in ToSet(q) /\ q[k] # Nil
      /\ \A x \in ToSet(q) : x \in Events /\ event[x].kind # "free"
      /\ \A x \in Events : event[x].kind # "free" => x \in ToSet(q)
      /\ \A x \in ToSet(q) : \E k \in 1 .. Len(q) : q[k] = x
      /\ \A j, k \in 1 .. Len(q) : q[j] = q[k] => j = k
      /\ \A k \in 1 .. Len(q) : event[q[k]].next = IF k < Len(q) THEN q[k + 1] ELSE Nil
      /\ Len(q) # 0 => first = q[1] /\ last = q[Len(q)]
      /\ marker \in ToSet(q) \cup {Nil}
      /\ event \in Lists
  BY <1>1, QueueIs DEF OneList
<1>3. PICK i \in 1 .. Len(q) : q[i] = e
  BY <1>1, <1>2
<1>4. PICK r : r = RemoveAt(q, i)
  OBVIOUS
<1>5. /\ r \in Seq(Events) /\ Len(r) = Len(q) - 1 /\ Len(q) \in Nat \ {0} /\ i \in Int
      /\ \A k \in 1 .. Len(q) - 1 : r[k] = IF k < i THEN q[k] ELSE q[k + 1]
      /\ ToSet(r) = ToSet(q) \ {e}
      /\ \A j, k \in 1 .. Len(r) : r[j] = r[k] => j = k
      /\ (r = <<>> <=> Len(r) = 0)
  <2>1. q \in Seq(Events) /\ \A j, k \in 1 .. Len(q) : q[j] = q[k] => j = k
    BY <1>2
  <2>2. /\ r \in Seq(Events) /\ Len(r) = Len(q) - 1 /\ Len(q) \in Nat \ {0}
        /\ \A k \in 1 .. Len(q) - 1 : r[k] = IF k < i THEN q[k] ELSE q[k + 1]
        /\ ToSet(r) = ToSet(q) \ {q[i]}
        /\ \A j, k \in 1 .. Len(r) : r[j] = r[k] => j = k
        /\ (r = <<>> <=> Len(r) = 0)
    BY <1>4, <2>1, TakenOut
  <2> QED BY <1>3, <2>2
<1>6. PICK after : after = event[e].next
  OBVIOUS
<1>7. after = (IF i < Len(q) THEN q[i + 1] ELSE Nil) /\ after \in Events \cup {Nil}
      /\ (after = Nil <=> i = Len(q))
  <2>1. after = IF i < Len(q) THEN q[i + 1] ELSE Nil
    BY <1>2, <1>3, <1>6
  <2>2. i < Len(q) => i + 1 \in 1 .. Len(q)
    BY <1>2
  <2>3. i < Len(q) <=> i # Len(q)
    BY <1>2
  <2> QED BY <1>2, <2>1, <2>2, <2>3
<1>8. PICK prev : prev = Found(e)
  OBVIOUS
<1>9. prev = IF i = 1 THEN Nil ELSE q[i - 1]
  BY <1>1, <1>3, <1>8, FoundBefore
<1>10. i # 1 => i - 1 \in 1 .. Len(q) /\ prev \in Events /\ prev # Nil /\ prev # e
  <2>1. i # 1 => i - 1 \in 1 .. Len(q) /\ i - 1 # i
    BY <1>2
  <2> QED BY <1>2, <1>3, <1>9, <2>1
<1>11. /\ event' = IF prev = Nil THEN [event EXCEPT ![e] = Free]
                   ELSE [event EXCEPT ![e] = Free, ![prev].next = after]
       /\ first' = (IF prev = Nil THEN after ELSE first)
       /\ last' = (IF after = Nil THEN prev ELSE last)
       /\ marker' = (IF marker = e THEN prev ELSE marker)
  BY <1>6, <1>8 DEF Unlink, MarkWithout, Found
<1>12. prev = Nil <=> i = 1
  BY <1>9, <1>10
<1>13. Free \in Places
  BY DEF Free, Places
<1>14. /\ event' \in Lists /\ event'[e] = Free
       /\ \A x \in Events : x # e => Same(event'[x], event[x])
       /\ \A x \in Events : x # e /\ x # prev => event'[x] = event[x]
       /\ i # 1 => event'[prev].next = after
  <2>1. PICK put : put = [event EXCEPT ![e] = Free]
    OBVIOUS
  <2>2. put \in Lists /\ put[e] = Free /\ \A x \in Events : x # e => put[x] = event[x]
    BY <1>2, <1>13, <2>1 DEF Lists
  <2>3. CASE i = 1
    BY <1>11, <1>12, <2>1, <2>2, <2>3 DEF Same
  <2>4. CASE i # 1
    <3>1. prev \in Events /\ prev # Nil /\ prev # e
      BY <1>10, <2>4
    <3>2. event' = [put EXCEPT ![prev].next = after]
      BY <1>11, <2>1, <3>1
    <3>3. PICK new : new = event'
      OBVIOUS
    <3>4. /\ new \in Lists /\ \A x \in Events : x # prev => new[x] = put[x]
          /\ new[prev].next = after /\ new[prev].kind = put[prev].kind
          /\ new[prev].fd = put[prev].fd /\ new[prev].armed = put[prev].armed
      BY <1>7, <2>2, <3>1, <3>2, <3>3 DEF Lists, Places
    <3>5. new[e] = Free
      BY <2>2, <3>1, <3>4
    <3>6. \A x \in Events : x # e => Same(new[x], event[x])
      BY <2>2, <3>1, <3>4 DEF Same
    <3> QED BY <2>2, <3>3, <3>4, <3>5, <3>6
  <2> QED BY <2>3, <2>4
<1>15. ASSUME NEW k \in 1 .. Len(r)
       PROVE  event'[r[k]].next = IF k < Len(r) THEN r[k + 1] ELSE Nil
  <2>1. CASE k < i - 1
    <3>1. /\ k \in 1 .. Len(q) /\ k < Len(q) /\ k < Len(r) /\ k < i /\ k + 1 < i /\ k # i /\ k # i - 1
          /\ k \in 1 .. Len(q) - 1 /\ k + 1 \in 1 .. Len(q) - 1 /\ i # 1 /\ i - 1 \in 1 .. Len(q)
      BY <1>2, <1>5, <2>1
    <3>2. r[k] = q[k] /\ r[k + 1] = q[k + 1]
      BY <1>5, <3>1
    <3>3. q[k] # e /\ q[k] # prev
      BY <1>2, <1>3, <1>9, <3>1
    <3> QED BY <1>2, <1>14, <3>1, <3>2, <3>3, SMTT(30)
  <2>2. CASE k = i - 1
    <3>1. /\ k < i /\ k \in 1 .. Len(q) - 1 /\ i # 1 /\ (k < Len(r) <=> i < Len(q)) /\ k + 1 = i
          /\ k < Len(r) => i \in 1 .. Len(q) - 1 /\ ~(i < i)
      BY <1>2, <1>5, <2>2
    <3>2. r[k] = prev /\ (k < Len(r) => r[k + 1] = q[i + 1])
      BY <1>5, <1>9, <2>2, <3>1
    <3> QED BY <1>7, <1>14, <3>1, <3>2
  <2>3. CASE k >= i
    <3>1. /\ ~(k < i) /\ k \in 1 .. Len(q) - 1 /\ k + 1 \in 1 .. Len(q) /\ k + 1 # i
          /\ (k < Len(r) <=> k + 1 < Len(q))
          /\ k < Len(r) => k + 1 \in 1 .. Len(q) - 1 /\ ~(k + 1 < i)
      BY <1>2, <1>5, <2>3
    <3>2. r[k] = q[k + 1] /\ (k < Len(r) => r[k + 1] = q[(k + 1) + 1])
      BY <1>5, <3>1
    <3>3. i # 1 => i - 1 \in 1 .. Len(q) /\ i - 1 # k + 1
      BY <1>2, <1>5, <2>3
    <3>4. q[k + 1] # e /\ q[k + 1] # prev
      BY <1>2, <1>3, <1>9, <3>1, <3>3
    <3>5. event'[q[k + 1]] = event[q[k + 1]]
      BY <1>2, <1>14, <3>1, <3>4
    <3>6. event[q[k + 1]].next = IF k + 1 < Len(q) THEN q[(k + 1) + 1] ELSE Nil
      BY <1>2, <3>1
    <3> QED BY <3>1, <3>2, <3>5, <3>6
  <2>4. k < i - 1 \/ k = i - 1 \/ k >= i
    BY <1>5
  <2> QED BY <2>1, <2>2, <2>3, <2>4
<1>16. first' = IF r = <<>> THEN Nil ELSE r[1]
  <2>1. CASE i = 1
    <3>1. Len(q) = 1 <=> r = <<>>
      BY <1>5
    <3>2. r # <<>> => 1 \in 1 .. Len(q) - 1 /\ ~(1 < i) /\ i < Len(q) /\ i + 1 = 1 + 1
      BY <1>5, <2>1
    <3>3. r # <<>> => r[1] = q[1 + 1]
      BY <1>5, <3>2
    <3> QED BY <1>7, <1>11, <1>12, <2>1, <3>1, <3>2, <3>3
  <2>2. CASE i # 1
    <3>1. 1 \in 1 .. Len(q) - 1 /\ 1 < i /\ r # <<>> /\ Len(q) # 0
      BY <1>5, <2>2
    <3> QED BY <1>2, <1>5, <1>11, <1>12, <2>2, <3>1
  <2> QED BY <2>1, <2>2
<1>17. last' = IF r = <<>> THEN Nil ELSE r[Len(r)]
  <2>1. CASE i = Len(q)
    <3>1. last' = prev
      BY <1>7, <1>11, <2>1
    <3>2. r = <<>> <=> i = 1
      BY <1>5, <2>1
    <3>3. r # <<>> => Len(r) \in 1 .. Len(q) - 1 /\ Len(r) < i /\ Len(r) = i - 1
      BY <1>5, <2>1
    <3>4. r # <<>> => r[Len(r)] = q[Len(r)]
      BY <1>5, <3>3
    <3> QED BY <1>9, <3>1, <3>2, <3>3, <3>4
  <2>2. CASE i # Len(q)
    <3>1. Len(r) \in 1 .. Len(q) - 1 /\ ~(Len(r) < i) /\ Len(r) + 1 = Len(q) /\ r # <<>> /\ Len(q) # 0
      BY <1>5, <2>2
    <3>2. r[Len(r)] = q[Len(q)]
      BY <1>5, <3>1
    <3> QED BY <1>2, <1>7, <1>11, <2>2, <3>1, <3>2
  <2> QED BY <2>1, <2>2
<1>18. marker' \in ToSet(r) \cup {Nil}
  <2>1. i # 1 => prev \in ToSet(r)
    BY <1>2, <1>5, <1>9, <1>10
  <2> QED BY <1>2, <1>5, <1>11, <1>12, <2>1
<1>19. \A x \in Events : event'[x].kind # "free" <=> x \in ToSet(r)
  BY <1>2, <1>5, <1>14 DEF Free, Same
<1>20. ASSUME NEW x \in Events, event'[x].kind = "free" PROVE event'[x] = Free
  <2>1. CASE x = e
    BY <1>14, <2>1
  <2>2. CASE x # e
    <3>1. event[x].kind = "free"
      BY <1>14, <1>20, <2>2 DEF Same
    <3>2. i # 1 => event[prev].kind # "free"
      BY <1>2, <1>9, <1>10
    <3>3. x # prev
      BY <1>2, <1>12, <3>1, <3>2, EventsAssumption
    <3>4. event'[x] = event[x] /\ event[x] = Free
      BY <1>14, <2>2, <3>1, <3>3 DEF OneList
    <3> QED BY <3>4
  <2> QED BY <2>1, <2>2
<1>21. ListOf(event', first', r)
  BY <1>5, <1>15, <1>16 DEF ListOf
<1>22. OneList' /\ Queue' = r
  BY <1>14, <1>17, <1>18, <1>19, <1>20, <1>21, ListBecomes
<1> QED BY <1>1, <1>3, <1>4, <1>14, <1>22 DEF Gone

LEMMA NotThere ==
  ASSUME OneList, NEW e \in Events, e \notin ToSet(Queue), Unlink(e)
  PROVE  OneList' /\ Gone(e) /\ Queue' = Queue
<1>1. UNCHANGED <<event, first, last, marker>>
  BY DEF Unlink
<1>2. event[e] = Free
  BY QueueIs
<1>3. Queue' = Queue
  BY <1>1 DEF Queue
<1>4. OneList'
  BY <1>1, <1>3 DEF OneList, ListOf
<1> QED BY <1>1, <1>2, <1>3, <1>4 DEF Gone, Same

(* What is kept of different events are different events.                *)
Different(s) == \A i, j \in 1 .. Len(s) : s[i] = s[j] => i = j

LEMMA DifferentLonger ==
  ASSUME NEW S, NEW s \in Seq(S), NEW x \in S
  PROVE  Different(Append(s, x)) <=> Different(s) /\ x \notin ToSet(s)
<1> DEFINE l == Append(s, x)
<1>1. /\ Len(l) = Len(s) + 1 /\ Len(s) \in Nat /\ l[Len(s) + 1] = x
      /\ \A i \in 1 .. Len(s) : l[i] = s[i]
  OBVIOUS
<1> HIDE DEF l
<1>2. ASSUME Different(l) PROVE Different(s) /\ x \notin ToSet(s)
  <2>1. Different(s)
    BY <1>1, <1>2 DEF Different
  <2>2. ASSUME x \in ToSet(s) PROVE FALSE
    <3>1. PICK i \in 1 .. Len(s) : s[i] = x
      BY <2>2, ToSetIs
    <3>2. i \in 1 .. Len(l) /\ Len(s) + 1 \in 1 .. Len(l) /\ i # Len(s) + 1 /\ l[i] = l[Len(s) + 1]
      BY <1>1, <3>1
    <3> QED BY <1>2, <3>2 DEF Different
  <2> QED BY <2>1, <2>2
<1>3. ASSUME Different(s), x \notin ToSet(s) PROVE Different(l)
  <2>1. \A i \in 1 .. Len(s) : s[i] # x
    BY <1>3, ToSetIs
  <2>2. ASSUME NEW i \in 1 .. Len(l), NEW j \in 1 .. Len(l), l[i] = l[j] PROVE i = j
    <3>1. i = Len(s) + 1 \/ i \in 1 .. Len(s)
      BY <1>1
    <3>2. j = Len(s) + 1 \/ j \in 1 .. Len(s)
      BY <1>1
    <3> QED BY <1>1, <1>3, <2>1, <2>2, <3>1, <3>2 DEF Different
  <2> QED BY <2>2 DEF Different
<1> QED BY <1>2, <1>3 DEF l

LEMMA KeepingDifferent ==
  ASSUME NEW S, NEW s \in Seq(S), NEW these, Different(s)
  PROVE  Different(Keeping(s, these))
<1> DEFINE T == {t \in Seq(S) : Different(t) => Different(Keeping(t, these))}
<1>1. <<>> \in T
  <2>1. Different(Keeping(<<>>, these))
    BY KeepingNone DEF Different
  <2> QED BY <2>1
<1>2. ASSUME NEW t \in Seq(S), NEW x \in S, t \in T PROVE Append(t, x) \in T
  <2> SUFFICES ASSUME Different(Append(t, x)) PROVE Different(Keeping(Append(t, x), these))
    BY AppendProperties
  <2>1. Different(t) /\ x \notin ToSet(t)
    BY DifferentLonger
  <2>2. PICK k : k = Keeping(t, these)
    OBVIOUS
  <2>3. k \in Seq(S) /\ ToSet(k) = ToSet(t) \cap these /\ Different(k)
    BY <1>2, <2>1, <2>2, KeepingIs
  <2>4. Keeping(Append(t, x), these) = IF x \in these THEN Append(k, x) ELSE k
    BY <2>2, KeepingAppend
  <2>5. Different(Append(k, x))
    BY <2>1, <2>3, DifferentLonger
  <2> QED BY <2>3, <2>4, <2>5
<1> HIDE DEF T
<1>3. s \in T
  BY <1>1, <1>2, Longer
<1> QED BY <1>3 DEF T

(* Tcl_DeleteEvents: one walk takes all of them.                         *)
GoneAll(these) ==
  \A x \in Events : IF x \in these THEN event'[x] = Free ELSE Same(event'[x], event[x])

LEMMA Deleted ==
  ASSUME OneList, NEW gone \in SUBSET ToSet(Queue), delete_events(gone)
  PROVE  /\ OneList' /\ GoneAll(gone) /\ Queue' = Keeping(Queue, Events \ gone)
         /\ event_count' = event_count - Cardinality(gone)
         /\ Len(Queue') = Len(Queue) - Cardinality(gone) /\ Cardinality(gone) \in Nat
<1>1. PICK q : q = Queue
  OBVIOUS
<1>2. /\ q \in Seq(Events) /\ Len(q) \in Nat
      /\ \A k \in 1 .. Len(q) : q[k] \in Events /\ q[k] \in ToSet(q) /\ q[k] # Nil
      /\ \A x \in ToSet(q) : x \in Events /\ event[x].kind # "free"
      /\ \A x \in Events : event[x].kind # "free" => x \in ToSet(q)
      /\ \A j, k \in 1 .. Len(q) : q[j] = q[k] => j = k
      /\ event \in Lists
  BY <1>1, QueueIs DEF OneList
<1>3. PICK r : r = Keeping(q, Events \ gone)
  OBVIOUS
<1>4. /\ r \in Seq(Events) /\ ToSet(r) = ToSet(q) \ gone /\ Different(r) /\ Len(r) \in Nat
      /\ \A k \in 1 .. Len(r) : r[k] \in Events /\ r[k] \in ToSet(r)
      /\ \A x \in ToSet(r) : \E k \in 1 .. Len(r) : r[k] = x
      /\ (r = <<>> <=> Len(r) = 0)
  <2>1. Different(q)
    BY <1>2 DEF Different
  <2>2. r \in Seq(Events) /\ ToSet(r) = ToSet(q) \cap (Events \ gone)
    BY <1>2, <1>3, KeepingIs
  <2>3. Different(r)
    BY <1>2, <1>3, <2>1, KeepingDifferent
  <2>4. ToSet(r) = ToSet(q) \ gone
    BY <1>2, <2>2
  <2>5. \A k \in 1 .. Len(r) : r[k] \in Events
    BY <2>2
  <2>6. \A k \in 1 .. Len(r) : r[k] \in ToSet(r)
    BY <2>2, ToSetIs
  <2>7. \A x \in ToSet(r) : \E k \in 1 .. Len(r) : r[k] = x
    BY <2>2, ToSetIs
  <2>8. Len(r) \in Nat /\ (r = <<>> <=> Len(r) = 0)
    BY <2>2
  <2> QED BY <2>2, <2>3, <2>4, <2>5, <2>6, <2>7, <2>8
<1> DEFINE spot(e) == CHOOSE i \in DOMAIN r : r[i] = e
           follows(e) == IF e = Last(r) THEN Nil ELSE r[spot(e) + 1]
           ahead == Keeping(SubSeq(q, 1, Marked), Events \ gone)
<1>5. /\ event' = [e \in Events |->
                     IF e \in gone THEN Free
                     ELSE IF e \in ToSet(r) THEN [event[e] EXCEPT !.next = follows(e)] ELSE event[e]]
      /\ first' = (IF r = <<>> THEN Nil ELSE r[1])
      /\ last' = (IF r = <<>> THEN Nil ELSE Last(r))
      /\ marker' = (IF ahead = <<>> THEN Nil ELSE Last(ahead))
      /\ event_count' = event_count - Cardinality(gone)
  BY <1>1, <1>3 DEF delete_events
<1>6. ASSUME NEW k \in 1 .. Len(r) PROVE follows(r[k]) = IF k < Len(r) THEN r[k + 1] ELSE Nil
  <2>1. Last(r) = r[Len(r)] /\ Len(r) \in 1 .. Len(r) /\ DOMAIN r = 1 .. Len(r)
    BY <1>4 DEF Last
  <2>2. r[k] = Last(r) <=> k = Len(r)
    BY <1>4, <2>1 DEF Different
  <2>3. PICK i : i = spot(r[k])
    OBVIOUS
  <2>4. i \in 1 .. Len(r) /\ r[i] = r[k]
    BY <2>1, <2>3
  <2> HIDE DEF spot
  <2>5. i = k
    BY <2>4, <1>4 DEF Different
  <2>6. follows(r[k]) = IF r[k] = Last(r) THEN Nil ELSE r[k + 1]
    BY <2>3, <2>5
  <2>7. k # Len(r) <=> k < Len(r)
    BY <1>4
  <2> HIDE DEF follows
  <2> QED BY <2>2, <2>6, <2>7
<1>7. ASSUME NEW x \in ToSet(r) PROVE follows(x) \in Events \cup {Nil}
  <2>1. PICK k \in 1 .. Len(r) : r[k] = x
    BY <1>4
  <2>2. k < Len(r) => k + 1 \in 1 .. Len(r)
    BY <1>4
  <2> HIDE DEF follows
  <2> QED BY <1>4, <1>6, <2>1, <2>2
<1>8. marker' \in ToSet(r) \cup {Nil}
  <2>1. PICK p : p = SubSeq(q, 1, Marked)
    OBVIOUS
  <2>2. Marked \in 0 .. Len(q)
    BY <1>1, MarkedIs
  <2>3. PICK m : m = Marked
    OBVIOUS
  <2>4. /\ p \in Seq(Events) /\ Len(p) = m /\ \A k \in 1 .. m : p[k] = q[k] /\ k \in 1 .. Len(q)
    <3>1. \A k \in 1 .. m : q[k] \in Events /\ k \in 1 .. Len(q)
      BY <1>2, <2>2, <2>3
    <3>2. /\ SubSeq(q, 1, m) \in Seq(Events)
          /\ Len(SubSeq(q, 1, m)) = IF 1 <= m THEN m - 1 + 1 ELSE 0
          /\ \A k \in 1 .. m - 1 + 1 : SubSeq(q, 1, m)[k] = q[1 + k - 1]
      BY <2>2, <2>3, <3>1, SubSeqProperties
    <3> QED BY <2>1, <2>2, <2>3, <3>1, <3>2
  <2>5. PICK a : a = ahead
    OBVIOUS
  <2>6. a \in Seq(Events) /\ ToSet(a) = ToSet(p) \cap (Events \ gone)
    BY <2>1, <2>4, <2>5, KeepingIs
  <2>7. ToSet(p) \subseteq ToSet(q)
    <3>1. \A x \in ToSet(p) : \E k \in 1 .. Len(p) : p[k] = x
      BY <2>4, ToSetIs
    <3> QED BY <1>2, <2>4, <3>1
  <2>8. a # <<>> => Last(a) \in ToSet(a)
    <3>1. a # <<>> => Len(a) \in 1 .. Len(a) /\ Last(a) = a[Len(a)]
      BY <2>6 DEF Last
    <3> QED BY <2>6, <3>1, ToSetIs
  <2> HIDE DEF ahead
  <2> QED BY <1>4, <1>5, <2>5, <2>6, <2>7, <2>8
<1> HIDE DEF follows, ahead
<1>9. /\ event' \in Lists /\ \A x \in gone : x \in Events => event'[x] = Free
      /\ \A x \in ToSet(r) : event'[x].next = follows(x)
      /\ \A x \in Events : x \notin gone => Same(event'[x], event[x])
      /\ \A x \in Events : x \notin gone /\ x \notin ToSet(r) => event'[x] = event[x]
  <2>1. Free \in Places
    BY DEF Free, Places
  <2>2. ASSUME NEW x \in ToSet(r)
        PROVE  /\ [event[x] EXCEPT !.next = follows(x)] \in Places
               /\ [event[x] EXCEPT !.next = follows(x)].next = follows(x)
               /\ Same([event[x] EXCEPT !.next = follows(x)], event[x])
    <3>1. event[x] \in Places /\ follows(x) \in Events \cup {Nil}
      BY <1>2, <1>4, <1>7 DEF Lists
    <3> QED BY <3>1 DEF Places, Same
  <2>3. \A x \in Events : event[x] \in Places
    BY <1>2 DEF Lists
  <2>4. \A x \in Events : event'[x] = IF x \in gone THEN Free
                     ELSE IF x \in ToSet(r) THEN [event[x] EXCEPT !.next = follows(x)] ELSE event[x]
    BY <1>5
  <2>5. \A x \in ToSet(r) : x \in Events /\ x \notin gone
    BY <1>2, <1>4
  <2>6. event' \in Lists
    <3>1. \A x \in Events : event'[x] \in Places
      BY <2>1, <2>2, <2>3, <2>4
    <3>2. event' = [x \in Events |-> event'[x]]
      BY <1>5
    <3> QED BY <3>1, <3>2 DEF Lists
  <2>7. \A x \in ToSet(r) : event'[x].next = follows(x)
    BY <2>2, <2>4, <2>5
  <2>8. \A x \in Events : x \notin gone => Same(event'[x], event[x])
    BY <2>2, <2>4 DEF Same
  <2> QED BY <2>4, <2>6, <2>7, <2>8
<1>10. ListOf(event', first', r)
  <2>1. first' = IF r = <<>> THEN Nil ELSE r[1]
    BY <1>5
  <2>2. \A k \in 1 .. Len(r) : event'[r[k]].next = IF k < Len(r) THEN r[k + 1] ELSE Nil
    BY <1>4, <1>6, <1>9
  <2> QED BY <1>4, <2>1, <2>2 DEF ListOf, Different
<1>11. ASSUME NEW x \in Events PROVE event'[x].kind # "free" <=> x \in ToSet(r)
  <2>1. CASE x \in gone
    BY <1>4, <1>9, <2>1 DEF Free
  <2>2. CASE x \notin gone
    BY <1>2, <1>4, <1>9, <2>2 DEF Same
  <2> QED BY <2>1, <2>2
<1>12. ASSUME NEW x \in Events, event'[x].kind = "free" PROVE event'[x] = Free
  <2>1. CASE x \in gone
    BY <1>9, <2>1
  <2>2. CASE x \notin gone
    <3>1. x \notin ToSet(r)
      BY <1>11, <1>12
    <3>2. event'[x] = event[x]
      BY <1>9, <2>2, <3>1
    <3> QED BY <1>12, <3>2 DEF OneList
  <2> QED BY <2>1, <2>2
<1>13. last' = IF r = <<>> THEN Nil ELSE r[Len(r)]
  BY <1>5 DEF Last
<1>14. OneList' /\ Queue' = r
  BY <1>8, <1>9, <1>10, <1>11, <1>12, <1>13, ListBecomes
<1>15. Len(r) = Len(q) - Cardinality(gone) /\ Cardinality(gone) \in Nat
  <2>1. /\ IsFiniteSet(ToSet(q)) /\ Cardinality(ToSet(q)) = Len(q)
    BY <1>2, NoLongerThanEvents
  <2>2. Cardinality(ToSet(r)) = Len(r)
    BY <1>4, NoLongerThanEvents DEF Different
  <2>3. gone \in SUBSET ToSet(q)
    BY <1>1
  <2>4. IsFiniteSet(gone) /\ Cardinality(gone) \in Nat
    BY <2>1, <2>3, FS_Subset, FS_CardinalityType
  <2>5. Cardinality(ToSet(q) \ gone) = Cardinality(ToSet(q)) - Cardinality(ToSet(q) \cap gone)
    BY <2>1, <2>4, FS_Difference
  <2>6. ToSet(q) \cap gone = gone
    BY <2>3
  <2> QED BY <1>4, <2>1, <2>2, <2>4, <2>5, <2>6
<1>16. GoneAll(gone)
  BY <1>9 DEF GoneAll
<1> QED BY <1>1, <1>3, <1>5, <1>14, <1>15, <1>16

(* What the loops have put aside of the count: a sum over the stack.     *)
SumUpTo(s) ==
  LET sum[i \in 0 .. Len(s)] == IF i = 0 THEN 0 ELSE sum[i - 1] + s[i].saved
  IN  sum

SumBody(k, n, s) == k = [i \in 0 .. n |-> IF i = 0 THEN 0 ELSE k[i - 1] + s[i].saved]

LEMMA SumExists ==
  ASSUME NEW s
  PROVE  \A n \in Nat : \E k : SumBody(k, n, s)
<1> DEFINE T == {n \in Nat : \E k : SumBody(k, n, s)}
<1>1. 0 \in T
  <2>1. SumBody([i \in 0 .. 0 |-> 0], 0, s)
    BY DEF SumBody
  <2> QED BY <2>1
<1>2. ASSUME NEW n \in Nat, n \in T PROVE n + 1 \in T
  <2>1. PICK k : SumBody(k, n, s)
    BY <1>2
  <2> DEFINE end == k[n] + s[n + 1].saved
             h   == [i \in 0 .. n + 1 |-> IF i = n + 1 THEN end ELSE k[i]]
  <2>2. \A i \in 0 .. n : h[i] = k[i]
    OBVIOUS
  <2>3. \A i \in 0 .. n : k[i] = IF i = 0 THEN 0 ELSE k[i - 1] + s[i].saved
    BY <2>1, Zenon DEF SumBody
  <2>4. h[n + 1] = end
    OBVIOUS
  <2>5. ASSUME NEW i \in 0 .. n + 1
        PROVE  h[i] = IF i = 0 THEN 0 ELSE h[i - 1] + s[i].saved
    <3>1. CASE i = n + 1
      <4>1. h[n] = k[n] /\ i - 1 = n /\ i # 0
        BY <2>2, <3>1
      <4> QED BY <2>4, <3>1, <4>1
    <3>2. CASE i \in 0 .. n
      <4>1. h[i] = k[i] /\ (i # 0 => h[i - 1] = k[i - 1])
        BY <2>2, <3>2
      <4> HIDE DEF h
      <4> QED BY <2>3, <3>2, <4>1
    <3> QED BY <3>1, <3>2
  <2>6. SumBody(h, n + 1, s)
    <3> DEFINE g == [i \in 0 .. n + 1 |-> IF i = 0 THEN 0 ELSE h[i - 1] + s[i].saved]
    <3>1. h = [i \in 0 .. n + 1 |-> h[i]]
      OBVIOUS
    <3> HIDE DEF h
    <3>2. h = g
      BY <2>5, <3>1
    <3> QED BY <3>2 DEF SumBody
  <2> HIDE DEF h
  <2> QED BY <2>6
<1> HIDE DEF T
<1>3. Nat \subseteq T
  BY <1>1, <1>2, Numbers
<1> QED BY <1>3 DEF T

LEMMA SumSteps ==
  ASSUME NEW S, NEW s \in Seq(S)
  PROVE  /\ SumUpTo(s)[0] = 0
         /\ \A i \in 1 .. Len(s) : SumUpTo(s)[i] = SumUpTo(s)[i - 1] + s[i].saved
         /\ PutAside(s) = SumUpTo(s)[Len(s)]
<1> DEFINE k == SumUpTo(s)
<1>1. Len(s) \in Nat
  OBVIOUS
<1>2. SumBody(k, Len(s), s)
  <2>1. \E f : SumBody(f, Len(s), s)
    BY <1>1, SumExists
  <2> QED BY <2>1 DEF SumUpTo, SumBody
<1>3. \A i \in 0 .. Len(s) : k[i] = IF i = 0 THEN 0 ELSE k[i - 1] + s[i].saved
  <2> HIDE DEF k
  <2> QED BY <1>2, Zenon DEF SumBody
<1>4. PutAside(s) = k[Len(s)]
  BY DEF PutAside, SumUpTo
<1> HIDE DEF k
<1>5. k[0] = 0 /\ \A i \in 1 .. Len(s) : k[i] = k[i - 1] + s[i].saved
  BY <1>1, <1>3
<1> QED BY <1>4, <1>5 DEF k

LEMMA SumsAgree ==
  ASSUME NEW S, NEW s \in Seq(S), NEW t \in Seq(S), NEW m \in Nat, m <= Len(s), m <= Len(t),
         \A i \in 1 .. m : s[i] = t[i], \A i \in 1 .. m : s[i].saved \in Int
  PROVE  SumUpTo(s)[m] = SumUpTo(t)[m] /\ SumUpTo(s)[m] \in Int
<1> DEFINE k == SumUpTo(s)
           l == SumUpTo(t)
           T == {n \in Nat : n <= m => k[n] = l[n] /\ k[n] \in Int}
<1>1. /\ k[0] = 0 /\ \A i \in 1 .. Len(s) : k[i] = k[i - 1] + s[i].saved
      /\ l[0] = 0 /\ \A i \in 1 .. Len(t) : l[i] = l[i - 1] + t[i].saved
      /\ Len(s) \in Nat /\ Len(t) \in Nat
  BY SumSteps
<1> HIDE DEF k, l
<1>2. 0 \in T
  BY <1>1
<1>3. ASSUME NEW n \in Nat, n \in T PROVE n + 1 \in T
  <2> SUFFICES ASSUME n + 1 <= m PROVE k[n + 1] = l[n + 1] /\ k[n + 1] \in Int
    OBVIOUS
  <2>1. /\ n + 1 \in 1 .. Len(s) /\ n + 1 \in 1 .. Len(t) /\ n + 1 \in 1 .. m /\ (n + 1) - 1 = n
        /\ k[n] = l[n] /\ k[n] \in Int
    BY <1>1, <1>3
  <2>2. k[n + 1] = k[n] + s[n + 1].saved /\ l[n + 1] = l[n] + t[n + 1].saved
    BY <1>1, <2>1
  <2> QED BY <2>1, <2>2
<1> HIDE DEF T
<1>4. m \in T
  BY <1>2, <1>3, Numbers
<1> QED BY <1>4 DEF T, k, l

Saving(s) == \A i \in 1 .. Len(s) : s[i].saved \in Int

LEMMA PutAsideNone == PutAside(<<>>) = 0
<1> DEFINE S == {0}
<1>1. <<>> \in Seq(S) /\ Len(<<>>) = 0
  OBVIOUS
<1> HIDE DEF S
<1> QED BY <1>1, SumSteps

LEMMA PutAsideLonger ==
  ASSUME NEW S, NEW s \in Seq(S), NEW t \in Seq(S), Saving(s), Saving(t),
         Len(t) = Len(s) + 1, \A i \in 1 .. Len(s) : t[i] = s[i]
  PROVE  /\ PutAside(t) = PutAside(s) + t[Len(t)].saved
         /\ PutAside(s) \in Int /\ PutAside(t) \in Int
<1>1. /\ Len(s) \in Nat /\ Len(t) \in 1 .. Len(t) /\ Len(t) - 1 = Len(s) /\ Len(s) <= Len(t)
      /\ \A i \in 1 .. Len(s) : s[i].saved \in Int
      /\ t[Len(t)].saved \in Int
  BY DEF Saving
<1>2. SumUpTo(s)[Len(s)] = SumUpTo(t)[Len(s)] /\ SumUpTo(s)[Len(s)] \in Int
  <2>1. PICK m : m = Len(s)
    OBVIOUS
  <2>2. m \in Nat /\ m <= Len(s) /\ m <= Len(t) /\ \A i \in 1 .. m : s[i] = t[i] /\ s[i].saved \in Int
    BY <1>1, <2>1
  <2>3. SumUpTo(s)[m] = SumUpTo(t)[m] /\ SumUpTo(s)[m] \in Int
    BY <2>2, SumsAgree
  <2> QED BY <2>1, <2>3
<1>3. PutAside(s) = SumUpTo(s)[Len(s)] /\ PutAside(t) = SumUpTo(t)[Len(t)]
  BY SumSteps
<1>4. SumUpTo(t)[Len(t)] = SumUpTo(t)[Len(s)] + t[Len(t)].saved
  BY <1>1, SumSteps
<1> QED BY <1>1, <1>2, <1>3, <1>4

LEMMA PutAsideSet ==
  ASSUME NEW S, NEW s \in Seq(S), NEW t \in Seq(S), Saving(s), Saving(t),
         Len(t) = Len(s), Len(s) # 0, \A i \in 1 .. Len(s) : i # Len(s) => t[i] = s[i]
  PROVE  /\ PutAside(t) = (PutAside(s) - s[Len(s)].saved) + t[Len(t)].saved
         /\ PutAside(s) \in Int /\ PutAside(t) \in Int
<1>1. PICK m : m = Len(s) - 1
  OBVIOUS
<1>2. /\ Len(s) \in 1 .. Len(s) /\ m \in Nat /\ m <= Len(s) /\ m <= Len(t) /\ Len(s) - 1 = m
      /\ \A i \in 1 .. m : s[i] = t[i] /\ s[i].saved \in Int
      /\ s[Len(s)].saved \in Int /\ t[Len(t)].saved \in Int
  BY <1>1 DEF Saving
<1>3. SumUpTo(s)[m] = SumUpTo(t)[m] /\ SumUpTo(s)[m] \in Int
  BY <1>2, SumsAgree
<1>4. PutAside(s) = SumUpTo(s)[Len(s)] /\ PutAside(t) = SumUpTo(t)[Len(t)]
  BY SumSteps
<1>5. SumUpTo(s)[Len(s)] = SumUpTo(s)[m] + s[Len(s)].saved
  BY <1>2, SumSteps
<1>6. SumUpTo(t)[Len(t)] = SumUpTo(t)[m] + t[Len(t)].saved
  BY <1>2, SumSteps
<1> QED BY <1>2, <1>3, <1>4, <1>5, <1>6

-----------------------------------------------------------------------------
(* What the loops that run have of the list: each serves an event of its *)
(* own, which is not armed meanwhile and may be gone.                    *)
Modes == {"none", "all"}

Serves(f) ==
  /\ f.ev \in Events \cup {Nil} /\ f.saved \in Int /\ f.mode \in Modes
  /\ f.at \in Events \cup {Nil, "first"}
  /\ f.ev = Nil => f.saved = 0
  /\ f.doing \in {"none", "pass", "idle"} <=> f.ev = Nil
  /\ f.ev \in Events => ~event[f.ev].armed
  /\ f.doing = "window" => event[f.ev].kind \in {"window", "free"}

Held ==
  /\ \A i \in 1 .. Len(stack) : Serves(stack[i])
  /\ \A i, j \in 1 .. Len(stack) : i # j /\ stack[i].ev # Nil => stack[i].ev # stack[j].ev

Stacked == \E S : stack \in Seq(S)

(* The events that the first loops serve are as they were, or gone.      *)
Spared(n) ==
  \A i \in 1 .. n : stack[i].ev \in Events =>
     Same(event'[stack[i].ev], event[stack[i].ev]) \/ event'[stack[i].ev] = Free

LEMMA StillServes ==
  ASSUME NEW f, Serves(f), f.ev \in Events => Same(event'[f.ev], event[f.ev]) \/ event'[f.ev] = Free
  PROVE  Serves(f)'
<1>1. f.doing = "window" => f.ev \in Events
  BY DEF Serves
<1>2. Free.kind = "free" /\ ~Free.armed
  BY DEF Free
<1>3. f.ev \in Events => ~event'[f.ev].armed
  BY <1>2 DEF Serves, Same
<1>4. f.doing = "window" => event'[f.ev].kind \in {"window", "free"}
  BY <1>1, <1>2 DEF Serves, Same
<1> QED BY <1>3, <1>4 DEF Serves

LEMMA LoopStays ==
  ASSUME Held, NEW i \in 1 .. Len(stack), Spared(i), i \in 1 .. i, stack'[i] = stack[i]
  PROVE  Serves(stack[i])'
<1>1. PICK f : f = stack[i]
  OBVIOUS
<1>2. Serves(f) /\ (f.ev \in Events => Same(event'[f.ev], event[f.ev]) \/ event'[f.ev] = Free)
  BY <1>1 DEF Held, Spared
<1>3. Serves(f)'
  BY <1>2, StillServes
<1> QED BY <1>1, <1>3 DEF Serves

LEMMA HeldOutside ==
  ASSUME Held, Stacked, UNCHANGED stack, Spared(Len(stack))
  PROVE  Held' /\ Stacked' /\ PutAside(stack)' = PutAside(stack)
<1>1. ASSUME NEW i \in 1 .. Len(stack') PROVE Serves(stack[i])'
  <2>1. i \in 1 .. Len(stack) /\ stack'[i] = stack[i] /\ Len(stack) \in Nat
    BY DEF Stacked
  <2>2. Spared(i) /\ i \in 1 .. i
    BY <2>1 DEF Spared
  <2> QED BY <2>1, <2>2, LoopStays
<1>2. \A i, j \in 1 .. Len(stack') : i # j /\ stack'[i].ev # Nil => stack'[i].ev # stack'[j].ev
  BY DEF Held
<1> QED BY <1>1, <1>2 DEF Held, Stacked

LEMMA AllSave ==
  ASSUME Held
  PROVE  Saving(stack)
BY DEF Held, Serves, Saving

LEMMA HeldTop ==
  ASSUME Held, Stacked, Running, NEW f, SetTop(f), Spared(Len(stack) - 1), Serves(f)',
         f.ev # Nil => \A i \in 1 .. Len(stack) - 1 : stack[i].ev # f.ev
  PROVE  /\ Held' /\ Stacked' /\ Len(stack)' = Len(stack)
         /\ PutAside(stack)' = (PutAside(stack) - Top.saved) + f.saved
         /\ PutAside(stack) \in Int /\ PutAside(stack)' \in Int /\ Top.saved \in Int /\ f.saved \in Int
<1>1. PICK S : stack \in Seq(S) /\ f \in S
  <2>1. PICK S : stack \in Seq(S)
    BY DEF Stacked
  <2>2. stack \in Seq(S \cup {f})
    BY <2>1
  <2> QED BY <2>2
<1>2. /\ Top = stack[Len(stack)] /\ Len(stack) \in Nat \ {0}
      /\ stack' \in Seq(S) /\ Len(stack') = Len(stack)
      /\ \A i \in 1 .. Len(stack) : stack'[i] = IF i = Len(stack) THEN f ELSE stack[i]
  BY <1>1, TopSet
<1>3. ASSUME NEW i \in 1 .. Len(stack') PROVE Serves(stack[i])'
  <2>1. CASE i = Len(stack)
    <3>1. stack'[i] = f
      BY <1>2, <2>1
    <3> QED BY <3>1 DEF Serves
  <2>2. CASE i # Len(stack)
    <3>1. i \in 1 .. Len(stack) /\ stack'[i] = stack[i] /\ i \in 1 .. i /\ i \in 1 .. Len(stack) - 1
      BY <1>2, <2>2
    <3>2. Spared(i)
      BY <1>2, <3>1 DEF Spared
    <3> QED BY <3>1, <3>2, LoopStays
  <2> QED BY <2>1, <2>2
<1>4. ASSUME NEW i \in 1 .. Len(stack'), NEW j \in 1 .. Len(stack'), i # j, stack'[i].ev # Nil
      PROVE  stack'[i].ev # stack'[j].ev
  <2>1. CASE i = Len(stack)
    <3>1. j \in 1 .. Len(stack) - 1 /\ stack'[j] = stack[j] /\ stack'[i] = f
      BY <1>2, <1>4, <2>1
    <3> QED BY <1>4, <3>1
  <2>2. CASE j = Len(stack)
    <3>1. i \in 1 .. Len(stack) - 1 /\ stack'[i] = stack[i] /\ stack'[j] = f
      BY <1>2, <1>4, <2>2
    <3> QED BY <1>4, <3>1
  <2>3. CASE i # Len(stack) /\ j # Len(stack)
    <3>1. stack'[i] = stack[i] /\ stack'[j] = stack[j] /\ i \in 1 .. Len(stack) /\ j \in 1 .. Len(stack)
      BY <1>2, <2>3
    <3> QED BY <1>4, <3>1 DEF Held
  <2> QED BY <2>1, <2>2, <2>3
<1>5. Held' /\ Stacked'
  BY <1>2, <1>3, <1>4 DEF Held, Stacked
<1>6. PICK t : t = stack'
  OBVIOUS
<1>7. Saving(stack) /\ Saving(t)
  <2>1. \A i \in 1 .. Len(stack') : stack'[i].saved \in Int
    BY <1>3 DEF Serves
  <2> QED BY <1>6, <2>1, AllSave DEF Saving
<1>8. /\ PutAside(t) = (PutAside(stack) - stack[Len(stack)].saved) + t[Len(t)].saved
      /\ PutAside(stack) \in Int /\ PutAside(t) \in Int
  <2>1. /\ t \in Seq(S) /\ Len(t) = Len(stack) /\ Len(stack) # 0
        /\ \A i \in 1 .. Len(stack) : i # Len(stack) => t[i] = stack[i]
    BY <1>2, <1>6
  <2> QED BY <1>1, <1>7, <2>1, PutAsideSet
<1>9. t[Len(t)] = f /\ f.saved \in Int /\ Top.saved \in Int
  <2>1. Len(t) \in 1 .. Len(stack)
    BY <1>2, <1>6
  <2>2. t[Len(t)] = f
    BY <1>2, <1>6, <2>1
  <2> QED BY <1>2, <1>6, <1>7, <2>1, <2>2 DEF Saving
<1>10. PutAside(stack)' = PutAside(t)
  BY <1>6
<1> QED BY <1>2, <1>5, <1>8, <1>9, <1>10

LEMMA HeldLeft ==
  ASSUME Held, Stacked, Running, Leave, Spared(Len(stack) - 1)
  PROVE  /\ Held' /\ Stacked' /\ Len(stack)' = Len(stack) - 1 /\ Len(stack) \in Nat
         /\ PutAside(stack)' = PutAside(stack) - Top.saved /\ Top.mode \in Modes
         /\ PutAside(stack) \in Int /\ PutAside(stack)' \in Int /\ Top.saved \in Int
<1>1. PICK S : stack \in Seq(S)
  BY DEF Stacked
<1>2. /\ Top = stack[Len(stack)] /\ Len(stack) \in Nat \ {0}
      /\ stack' \in Seq(S) /\ Len(stack') = Len(stack) - 1
      /\ \A i \in 1 .. Len(stack) - 1 : stack'[i] = stack[i]
  BY <1>1, LoopLeft
<1>3. ASSUME NEW i \in 1 .. Len(stack') PROVE Serves(stack[i])'
  <2>1. i \in 1 .. Len(stack) /\ stack'[i] = stack[i] /\ i \in 1 .. i /\ i \in 1 .. Len(stack) - 1
    BY <1>2
  <2>2. Spared(i)
    BY <1>2, <2>1 DEF Spared
  <2> QED BY <2>1, <2>2, LoopStays
<1>4. \A i, j \in 1 .. Len(stack') : i # j /\ stack'[i].ev # Nil => stack'[i].ev # stack'[j].ev
  <2>1. \A i \in 1 .. Len(stack') : i \in 1 .. Len(stack) /\ stack'[i] = stack[i]
    BY <1>2
  <2> QED BY <2>1 DEF Held
<1>5. Held' /\ Stacked'
  BY <1>2, <1>3, <1>4 DEF Held, Stacked
<1>6. PICK t : t = stack'
  OBVIOUS
<1>7. Saving(stack) /\ Saving(t)
  <2>1. \A i \in 1 .. Len(stack') : stack'[i].saved \in Int
    BY <1>3 DEF Serves
  <2> QED BY <1>6, <2>1, AllSave DEF Saving
<1>8. PutAside(stack) = PutAside(t) + Top.saved /\ PutAside(stack) \in Int /\ PutAside(t) \in Int
  <2>1. t \in Seq(S) /\ Len(stack) = Len(t) + 1 /\ \A i \in 1 .. Len(t) : stack[i] = t[i]
    BY <1>2, <1>6
  <2>2. /\ PutAside(stack) = PutAside(t) + stack[Len(stack)].saved
        /\ PutAside(t) \in Int /\ PutAside(stack) \in Int
    BY <1>1, <1>7, <2>1, PutAsideLonger
  <2> QED BY <1>2, <2>2
<1>9. Top.saved \in Int /\ Top.mode \in Modes
  <2>1. Len(stack) \in 1 .. Len(stack)
    BY <1>2
  <2> QED BY <1>2, <2>1 DEF Held, Serves
<1>10. PutAside(stack)' = PutAside(t)
  BY <1>6
<1> QED BY <1>2, <1>5, <1>8, <1>9, <1>10

LEMMA HeldEntered ==
  ASSUME Held, Stacked, NEW f, stack' = Append(stack, f), Spared(Len(stack)), Serves(f)', f.ev = Nil
  PROVE  /\ Held' /\ Stacked' /\ Len(stack)' = Len(stack) + 1 /\ Len(stack) \in Nat
         /\ PutAside(stack)' = PutAside(stack)
<1>1. PICK S : stack \in Seq(S) /\ f \in S
  <2>1. PICK S : stack \in Seq(S)
    BY DEF Stacked
  <2>2. stack \in Seq(S \cup {f})
    BY <2>1
  <2> QED BY <2>2
<1>2. /\ stack' \in Seq(S) /\ Len(stack') = Len(stack) + 1 /\ Len(stack) \in Nat
      /\ \A i \in 1 .. Len(stack) : stack'[i] = stack[i]
      /\ stack'[Len(stack) + 1] = f
  BY <1>1, Entered
<1>3. ASSUME NEW i \in 1 .. Len(stack') PROVE Serves(stack[i])'
  <2>1. CASE i = Len(stack) + 1
    <3>1. stack'[i] = f
      BY <1>2, <2>1
    <3> QED BY <3>1 DEF Serves
  <2>2. CASE i # Len(stack) + 1
    <3>1. i \in 1 .. Len(stack) /\ stack'[i] = stack[i] /\ i \in 1 .. i
      BY <1>2, <2>2
    <3>2. Spared(i)
      BY <1>2, <3>1 DEF Spared
    <3> QED BY <3>1, <3>2, LoopStays
  <2> QED BY <2>1, <2>2
<1>4. \A i, j \in 1 .. Len(stack') : i # j /\ stack'[i].ev # Nil => stack'[i].ev # stack'[j].ev
  <2>1. \A i \in 1 .. Len(stack') : i = Len(stack) + 1 \/ i \in 1 .. Len(stack)
    BY <1>2
  <2> QED BY <1>2, <2>1 DEF Held
<1>5. Held' /\ Stacked'
  BY <1>2, <1>3, <1>4 DEF Held, Stacked
<1>6. PICK t : t = stack'
  OBVIOUS
<1>7. Saving(stack) /\ Saving(t)
  <2>1. \A i \in 1 .. Len(stack') : stack'[i].saved \in Int
    BY <1>3 DEF Serves
  <2> QED BY <1>6, <2>1, AllSave DEF Saving
<1>8. PutAside(t) = PutAside(stack) + f.saved /\ PutAside(stack) \in Int
  <2>1. /\ t \in Seq(S) /\ Len(t) = Len(stack) + 1 /\ t[Len(t)] = f
        /\ \A i \in 1 .. Len(stack) : t[i] = stack[i]
    BY <1>2, <1>6
  <2>2. PutAside(t) = PutAside(stack) + t[Len(t)].saved /\ PutAside(stack) \in Int
    BY <1>1, <1>7, <2>1, PutAsideLonger
  <2> QED BY <2>1, <2>2
<1>9. f.saved = 0
  BY DEF Serves
<1>10. PutAside(stack)' = PutAside(t)
  BY <1>6
<1> QED BY <1>2, <1>5, <1>8, <1>9, <1>10

-----------------------------------------------------------------------------
(* The count, and the flags that stand for an event that will be served: *)
(* of timers there is one at most.                                       *)
Counted == event_count \in Int /\ event_count + PutAside(stack) = Len(Queue)

ArmedTimer(e)    == event[e].kind = "timer" /\ event[e].armed
ArmedFile(e, fd) == event[e].kind = "file" /\ event[e].fd = fd /\ event[e].armed

Flagged ==
  /\ timer_pending <=> \E e \in Events : ArmedTimer(e)
  /\ \A e, f \in Events : ArmedTimer(e) /\ ArmedTimer(f) => e = f
  /\ \A fd \in Fds : files[fd] # Nil /\ files[fd].queued => \E e \in Events : ArmedFile(e, fd)

Links == OneList /\ Held /\ Stacked /\ Counted /\ Flagged /\ service_mode \in Modes /\ timer_pending \in BOOLEAN

NoneQueued ==
  \A fd \in Fds : files'[fd] # Nil /\ files'[fd].queued => files[fd] # Nil /\ files[fd].queued

(* The innermost loop goes on with the same event or none, one ends that *)
(* serves none, or one begins.                                           *)
Between == {"none", "pass", "idle"}

ServesAs(f, g) ==
  /\ f.ev = g.ev /\ f.saved = g.saved /\ f.mode = g.mode /\ f.at \in {g.at, "first"}
  /\ f.doing \in Between <=> g.doing \in Between
  /\ f.doing = "window" => g.doing = "window"

GoesOn == Running /\ \E f : SetTop(f) /\ ServesAs(f, Top)
Ends   == Running /\ Leave /\ Top.ev = Nil
Begins == \E call, flags, pc : stack' = Append(stack, Loop(call, flags, pc))

LEMMA TopServes ==
  ASSUME Held, Stacked, Running
  PROVE  /\ Serves(Top) /\ Len(stack) \in Nat \ {0} /\ Top = stack[Len(stack)]
         /\ \A i \in 1 .. Len(stack) - 1 : Top.ev # Nil => stack[i].ev # Top.ev
<1>1. Len(stack) \in Nat \ {0} /\ Top = stack[Len(stack)]
  BY DEF Stacked, Running, Top, Last
<1>2. Len(stack) \in 1 .. Len(stack)
  BY <1>1
<1>3. \A i \in 1 .. Len(stack) - 1 : i \in 1 .. Len(stack) /\ i # Len(stack)
  BY <1>1
<1> QED BY <1>1, <1>2, <1>3 DEF Held

LEMMA ListStays ==
  ASSUME OneList, UNCHANGED <<event, first, last, marker>>
  PROVE  OneList' /\ Queue' = Queue /\ \A n \in Nat : Spared(n)
<1>1. Queue' = Queue
  BY DEF Queue
<1>2. OneList'
  BY <1>1 DEF OneList, ListOf
<1>3. \A n \in Nat : Spared(n)
  BY DEF Spared, Same
<1> QED BY <1>1, <1>2, <1>3

LEMMA QuietHeld ==
  ASSUME Links, Spared(Len(stack)), UNCHANGED stack \/ GoesOn \/ Ends \/ Begins
  PROVE  Held' /\ Stacked' /\ PutAside(stack)' = PutAside(stack)
<1>1. Held /\ Stacked /\ Len(stack) \in Nat /\ Spared(Len(stack) - 1)
  BY DEF Links, Stacked, Spared
<1>2. CASE UNCHANGED stack
  <2>1. Held' /\ Stacked' /\ PutAside(stack)' = PutAside(stack)
    BY <1>1, <1>2, HeldOutside
  <2> QED BY <2>1
<1>3. CASE GoesOn
  <2>1. PICK f : /\ SetTop(f) /\ f.ev = Top.ev /\ f.saved = Top.saved /\ f.mode = Top.mode
                 /\ f.at \in {Top.at, "first"}
                 /\ f.doing \in Between <=> Top.doing \in Between
                 /\ f.doing = "window" => Top.doing = "window"
    BY <1>3 DEF GoesOn, ServesAs
  <2>2. Running
    BY <1>3 DEF GoesOn
  <2>3. /\ Serves(Top) /\ Len(stack) - 1 \in Nat
        /\ \A i \in 1 .. Len(stack) - 1 : Top.ev # Nil => stack[i].ev # Top.ev
    BY <1>1, <2>2, TopServes
  <2>4. Serves(f)
    BY <2>1, <2>3 DEF Serves, Between
  <2>5. Serves(f)'
    <3>1. f.ev \in Events => Same(event'[f.ev], event[f.ev]) \/ event'[f.ev] = Free
      <4>1. Top = stack[Len(stack)] /\ Len(stack) \in 1 .. Len(stack)
        BY <1>1, <2>2, TopServes
      <4> QED BY <2>1, <4>1 DEF Spared
    <3> QED BY <2>4, <3>1, StillServes
  <2>6. f.ev # Nil => \A i \in 1 .. Len(stack) - 1 : stack[i].ev # f.ev
    BY <2>1, <2>3
  <2>7. Spared(Len(stack) - 1)
    BY <1>1
  <2>8. /\ Held' /\ Stacked' /\ PutAside(stack)' = (PutAside(stack) - Top.saved) + f.saved
        /\ PutAside(stack) \in Int /\ Top.saved \in Int
    BY <1>1, <2>1, <2>2, <2>5, <2>6, <2>7, HeldTop
  <2> QED BY <2>1, <2>8
<1>4. CASE Ends
  <2>1. Running /\ Leave /\ Top.ev = Nil
    BY <1>4 DEF Ends
  <2>2. Serves(Top) /\ Len(stack) - 1 \in Nat
    BY <1>1, <2>1, TopServes
  <2>3. Spared(Len(stack) - 1)
    BY <1>1
  <2>4. /\ Held' /\ Stacked' /\ PutAside(stack)' = PutAside(stack) - Top.saved
        /\ PutAside(stack) \in Int
    BY <1>1, <2>1, <2>3, HeldLeft
  <2> QED BY <2>1, <2>2, <2>4 DEF Serves
<1>5. CASE Begins
  <2>1. PICK call, flags, pc : stack' = Append(stack, Loop(call, flags, pc))
    BY <1>5 DEF Begins
  <2>2. PICK f : f = Loop(call, flags, pc)
    OBVIOUS
  <2>3. /\ f.ev = Nil /\ f.saved = 0 /\ f.at = "first" /\ f.mode = service_mode
        /\ f.doing = "none"
    BY <2>2 DEF Loop
  <2>4. Serves(f)'
    BY <2>3, EventsAssumption DEF Links, Serves
  <2> QED BY <1>1, <2>1, <2>2, <2>3, <2>4, HeldEntered
<1> QED BY <1>2, <1>3, <1>4, <1>5

LEMMA QuietLinks ==
  ASSUME Links, UNCHANGED queueVars, UNCHANGED timer_pending, NoneQueued,
         UNCHANGED stack \/ GoesOn \/ Ends \/ Begins,
         service_mode' \in Modes
  PROVE  Links'
<1>1. UNCHANGED <<event, first, last, marker>> /\ event_count' = event_count
  BY DEF queueVars
<1>2. Held' /\ Stacked' /\ PutAside(stack)' = PutAside(stack)
  <2>1. Spared(Len(stack))
    BY <1>1, ListStays DEF Links, Stacked
  <2> QED BY <2>1, QuietHeld
<1>3. OneList' /\ Queue' = Queue
  BY <1>1, ListStays DEF Links
<1>4. Counted'
  BY <1>1, <1>2, <1>3 DEF Links, Counted
<1>5. Flagged'
  <2>1. Flagged
    BY DEF Links
  <2>2. ASSUME NEW fd \in Fds, files'[fd] # Nil, files'[fd].queued PROVE \E e \in Events : ArmedFile(e, fd)'
    <3>1. PICK e \in Events : ArmedFile(e, fd)
      BY <2>1, <2>2 DEF Flagged, NoneQueued
    <3> QED BY <1>1, <3>1 DEF ArmedFile
  <2>3. \A e \in Events : ArmedTimer(e)' <=> ArmedTimer(e)
    BY <1>1 DEF ArmedTimer
  <2> QED BY <2>1, <2>2, <2>3 DEF Flagged
<1> QED BY <1>2, <1>3, <1>4, <1>5 DEF Links

(* An event is armed or not: the list is the same.                       *)
LEMMA ArmedSet ==
  ASSUME OneList, NEW e \in Events, NEW b \in BOOLEAN, event[e].kind # "free",
         event' = [event EXCEPT ![e].armed = b], UNCHANGED <<first, last, marker>>
  PROVE  /\ OneList' /\ Queue' = Queue
         /\ \A x \in Events : x # e => event'[x] = event[x]
         /\ event'[e].kind = event[e].kind /\ event'[e].fd = event[e].fd /\ event'[e].armed = b
<1>1. event \in Lists
  BY DEF OneList
<1>2. PICK new : new = event'
  OBVIOUS
<1>3. /\ new \in Lists /\ \A x \in Events : x # e => new[x] = event[x]
      /\ new[e].next = event[e].next /\ new[e].kind = event[e].kind
      /\ new[e].fd = event[e].fd /\ new[e].armed = b
  BY <1>1, <1>2 DEF Lists, Places
<1>4. PICK q : q = Queue
  OBVIOUS
<1>5. /\ q \in Seq(Events) /\ \A k \in 1 .. Len(q) : q[k] \in Events
      /\ \A x \in ToSet(q) : event[x].kind # "free"
      /\ \A x \in Events : event[x].kind # "free" => x \in ToSet(q)
      /\ marker \in ToSet(q) \cup {Nil}
      /\ last = IF q = <<>> THEN Nil ELSE q[Len(q)]
      /\ ListOf(event, first, q)
  BY <1>4, QueueIs DEF OneList, Last
<1>6. \A x \in Events : new[x].next = event[x].next /\ new[x].kind = event[x].kind
  BY <1>3
<1>7. ListOf(new, first', q)
  BY <1>5, <1>6 DEF ListOf
<1>8. \A x \in Events : new[x].kind # "free" <=> x \in ToSet(q)
  BY <1>5, <1>6
<1>9. \A x \in Events : new[x].kind = "free" => new[x] = Free
  BY <1>3, <1>6 DEF OneList
<1>10. OneList' /\ Queue' = q
  <2>1. /\ event' \in Lists /\ ListOf(event', first', q)
        /\ \A x \in Events : event'[x].kind = "free" => event'[x] = Free
        /\ \A x \in Events : event'[x].kind # "free" <=> x \in ToSet(q)
    BY <1>2, <1>3, <1>7, <1>8, <1>9
  <2>2. last' = (IF q = <<>> THEN Nil ELSE q[Len(q)]) /\ marker' \in ToSet(q) \cup {Nil}
    BY <1>5
  <2> QED BY <2>1, <2>2, ListBecomes
<1> QED BY <1>2, <1>3, <1>4, <1>10

(* The event that is served next is one that is armed and asked for.     *)
LEMMA ChosenIs ==
  ASSUME OneList, Held, Stacked, Running, Chosen # Nil
  PROVE  /\ Chosen \in Events /\ event[Chosen].armed /\ event[Chosen].kind \in Top.flags.of
         /\ event[Chosen].kind # "free"
<1> DEFINE takes == {e \in Events : event[e].armed /\ event[e].kind \in Top.flags.of}
           start == IF Top.at = "first" THEN first ELSE Top.at
           rest  == Keeping(From(event, start), takes)
<1>1. start \in Events \cup {Nil}
  BY QueueIs, TopServes DEF Serves
<1>2. event \in Lists
  BY DEF OneList
<1>3. From(event, start) \in Seq(Events)
  <2> HIDE DEF start
  <2> QED BY <1>1, <1>2, WalkTyped
<1>4. PICK s \in Seq(Events) : s = From(event, start)
  BY <1>3
<1>5. Keeping(s, takes) \in Seq(Events) /\ ToSet(Keeping(s, takes)) = ToSet(s) \cap takes
  <2> HIDE DEF takes
  <2> QED BY KeepingIs
<1>6. Chosen = IF rest = <<>> THEN Nil ELSE rest[1]
  BY DEF Chosen
<1>7. rest \in Seq(Events) /\ ToSet(rest) \subseteq takes
  BY <1>4, <1>5
<1> HIDE DEF rest
<1>8. rest # <<>> /\ Chosen = rest[1]
  BY <1>6
<1>9. rest[1] \in ToSet(rest)
  <2>1. 1 \in 1 .. Len(rest)
    BY <1>7, <1>8
  <2> QED BY <1>7, <2>1, ToSetIs
<1>10. Chosen \in takes
  BY <1>7, <1>8, <1>9
<1>11. ~Free.armed
  BY DEF Free
<1> QED BY <1>10, <1>11 DEF OneList

LEMMA FlagsStay ==
  ASSUME Flagged, UNCHANGED timer_pending, NoneQueued,
         \A x \in Events : ArmedTimer(x)' <=> ArmedTimer(x),
         \A x \in Events, fd \in Fds : ArmedFile(x, fd) => ArmedFile(x, fd)'
  PROVE  Flagged'
<1>1. ASSUME NEW fd \in Fds, files'[fd] # Nil, files'[fd].queued PROVE \E e \in Events : ArmedFile(e, fd)'
  <2>1. PICK e \in Events : ArmedFile(e, fd)
    BY <1>1 DEF Flagged, NoneQueued
  <2> QED BY <2>1
<1> QED BY <1>1 DEF Flagged

(* The loop begins to serve an event.                                    *)
LEMMA BeginsToServe ==
  ASSUME Links, Serving, NEW e \in Events, event[e].armed, event[e].kind # "free", Starts(e),
         NEW f, SetTop(f), f.ev = e, f.saved = event_count, f.mode = Top.mode, f.at = Top.at,
         f.doing \notin Between, f.doing = "window" => event[e].kind = "window"
  PROVE  /\ OneList' /\ Held' /\ Stacked' /\ Counted'
         /\ \A x \in Events : x # e => event'[x] = event[x]
         /\ event'[e].kind = event[e].kind /\ event'[e].fd = event[e].fd /\ ~event'[e].armed
<1>1. /\ event' = [event EXCEPT ![e].armed = FALSE] /\ event_count' = 0
      /\ UNCHANGED <<first, last, marker>>
  BY DEF Starts
<1>2. OneList /\ Held /\ Stacked /\ Running /\ Top.doing = "none"
  BY DEF Links, Serving
<1>3. /\ OneList' /\ Queue' = Queue
      /\ \A x \in Events : x # e => event'[x] = event[x]
      /\ event'[e].kind = event[e].kind /\ event'[e].fd = event[e].fd /\ event'[e].armed = FALSE
  BY <1>1, <1>2, ArmedSet
<1>4. Serves(Top) /\ Len(stack) \in Nat \ {0}
  BY <1>2, TopServes
<1>5. Top.ev = Nil /\ Top.saved = 0
  BY <1>2, <1>4 DEF Serves
<1>6. \A i \in 1 .. Len(stack) - 1 : stack[i].ev # e
  <2>1. \A i \in 1 .. Len(stack) - 1 : i \in 1 .. Len(stack)
    BY <1>4
  <2> QED BY <1>2, <2>1 DEF Held, Serves
<1>7. Spared(Len(stack) - 1)
  BY <1>3, <1>6 DEF Spared, Same
<1>8. Serves(f)'
  <2>1. event_count \in Int
    BY DEF Links, Counted
  <2>2. e # Nil
    BY EventsAssumption
  <2>3. f.doing = "window" => event'[f.ev].kind \in {"window", "free"}
    BY <1>3
  <2> QED BY <1>3, <1>4, <2>1, <2>2, <2>3 DEF Serves, Between
<1>9. f.ev # Nil => \A i \in 1 .. Len(stack) - 1 : stack[i].ev # f.ev
  BY <1>6
<1>10. /\ Held' /\ Stacked' /\ PutAside(stack)' = (PutAside(stack) - Top.saved) + f.saved
       /\ PutAside(stack) \in Int
  BY <1>2, <1>7, <1>8, <1>9, HeldTop
<1>11. Counted'
  <2>1. event_count \in Int /\ event_count + PutAside(stack) = Len(Queue)
    BY DEF Links, Counted
  <2> QED BY <1>1, <1>3, <1>5, <1>10, <2>1 DEF Counted
<1> QED BY <1>3, <1>10, <1>11

LEMMA ServeWindowLinks ==
  ASSUME InTurn, Links, ServeWindow
  PROVE  Links'
<1>1. OneList /\ Held /\ Stacked /\ Running /\ Serving /\ Chosen # Nil /\ event[Chosen].kind = "window"
  BY DEF Links, ServeWindow, Serving
<1>2. PICK e \in Events : e = Chosen /\ event[e].armed /\ event[e].kind # "free"
  BY <1>1, ChosenIs
<1>3. PICK X : Top \in LoopOf(X)
  BY <1>1, TopIs
<1>4. PICK f : f = Started(e, "window")
  OBVIOUS
<1>5. /\ f.ev = e /\ f.saved = event_count /\ f.mode = Top.mode /\ f.at = Top.at /\ f.doing = "window"
  BY <1>3, <1>4 DEF Started, LoopOf
<1>6. SetTop(f) /\ Starts(e) /\ UNCHANGED <<timer_pending, files, service_mode>>
  BY <1>2, <1>4 DEF ServeWindow, Starts, timerVars, fileVars
<1>7. /\ OneList' /\ Held' /\ Stacked' /\ Counted'
      /\ \A x \in Events : x # e => event'[x] = event[x]
      /\ event'[e].kind = event[e].kind
  BY <1>1, <1>2, <1>5, <1>6, BeginsToServe DEF Between
<1>8. Flagged'
  <2>1. /\ \A x \in Events : ArmedTimer(x)' <=> ArmedTimer(x)
        /\ \A x \in Events, fd \in Fds : ArmedFile(x, fd) => ArmedFile(x, fd)'
    BY <1>1, <1>2, <1>7 DEF ArmedTimer, ArmedFile
  <2>2. Flagged /\ NoneQueued
    BY <1>6 DEF Links, NoneQueued
  <2> QED BY <1>6, <2>1, <2>2, FlagsStay
<1> QED BY <1>6, <1>7, <1>8 DEF Links

LEMMA ServeTimersLinks ==
  ASSUME InTurn, Links, ServeTimers
  PROVE  Links'
<1>1. OneList /\ Held /\ Stacked /\ Running /\ Serving /\ Chosen # Nil /\ event[Chosen].kind = "timer"
  BY DEF Links, ServeTimers, Serving
<1>2. PICK e \in Events : e = Chosen /\ event[e].armed /\ event[e].kind # "free"
  BY <1>1, ChosenIs
<1>3. PICK X : Top \in LoopOf(X)
  BY <1>1, TopIs
<1>4. PICK f : f = [Started(e, "drain") EXCEPT !.limit = last_timer_id, !.time = now, !.seen = made]
  OBVIOUS
<1>5. /\ f.ev = e /\ f.saved = event_count /\ f.mode = Top.mode /\ f.at = Top.at /\ f.doing = "drain"
  BY <1>3, <1>4 DEF Started, LoopOf
<1>6. SetTop(f) /\ Starts(e) /\ timer_pending' = FALSE /\ UNCHANGED <<files, service_mode>>
  BY <1>2, <1>4 DEF ServeTimers, Starts, fileVars
<1>7. /\ OneList' /\ Held' /\ Stacked' /\ Counted'
      /\ \A x \in Events : x # e => event'[x] = event[x]
      /\ event'[e].kind = event[e].kind /\ ~event'[e].armed
  BY <1>1, <1>2, <1>5, <1>6, BeginsToServe DEF Between
<1>8. Flagged'
  <2>1. Flagged /\ ArmedTimer(e)
    BY <1>1, <1>2 DEF Links, ArmedTimer
  <2>2. \A x \in Events : ~ArmedTimer(x)'
    <3>1. \A x \in Events : x # e => ~ArmedTimer(x)
      BY <2>1 DEF Flagged
    <3> QED BY <1>7, <3>1 DEF ArmedTimer
  <2>3. \A x \in Events, fd \in Fds : ArmedFile(x, fd) => ArmedFile(x, fd)'
    BY <1>1, <1>2, <1>7 DEF ArmedFile
  <2>4. ASSUME NEW fd \in Fds, files'[fd] # Nil, files'[fd].queued PROVE \E x \in Events : ArmedFile(x, fd)'
    <3>1. PICK x \in Events : ArmedFile(x, fd)
      BY <1>6, <2>1, <2>4 DEF Flagged
    <3> QED BY <2>3, <3>1
  <2> QED BY <1>6, <2>2, <2>4 DEF Flagged
<1> QED BY <1>6, <1>7, <1>8 DEF Links

(* The handler of a descriptor, or Nil.                                  *)
Files == [mask : SUBSET Dirs, ready : SUBSET Dirs, queued : BOOLEAN, enabled : SUBSET Dirs]

LEMMA ServeFileLinks ==
  ASSUME InTurn, Links, files \in [Fds -> Files \cup {Nil}], ServeFile
  PROVE  Links'
<1>1. OneList /\ Held /\ Stacked /\ Running /\ Serving /\ Chosen # Nil /\ event[Chosen].kind = "file"
  BY DEF Links, ServeFile, Serving
<1>2. PICK e \in Events : e = Chosen /\ event[e].armed /\ event[e].kind # "free"
  BY <1>1, ChosenIs
<1>3. PICK X : Top \in LoopOf(X)
  BY <1>1, TopIs
<1> DEFINE c == event[e].fd
           h == files[c]
           heard == h # Nil /\ h.ready \cap h.mask # {}
<1>4. PICK f : f = Started(e, IF heard THEN "file" ELSE "over")
  OBVIOUS
<1>5. /\ f.ev = e /\ f.saved = event_count /\ f.mode = Top.mode /\ f.at = Top.at
      /\ f.doing \in {"file", "over"}
  BY <1>3, <1>4 DEF Started, LoopOf
<1>6. /\ SetTop(f) /\ Starts(e) /\ UNCHANGED <<timer_pending, service_mode>>
      /\ files' = IF h = Nil THEN files ELSE [files EXCEPT ![c] = Told(h)]
  BY <1>2, <1>4 DEF ServeFile, Starts, timerVars
<1>7. /\ OneList' /\ Held' /\ Stacked' /\ Counted'
      /\ \A x \in Events : x # e => event'[x] = event[x]
      /\ event'[e].kind = event[e].kind
  BY <1>1, <1>2, <1>5, <1>6, BeginsToServe DEF Between
<1>8. Flagged'
  <2>1. Flagged
    BY DEF Links
  <2>2. \A x \in Events : ArmedTimer(x)' <=> ArmedTimer(x)
    BY <1>1, <1>2, <1>7 DEF ArmedTimer
  <2>3. ASSUME NEW fd \in Fds, files'[fd] # Nil, files'[fd].queued PROVE \E x \in Events : ArmedFile(x, fd)'
    <3>1. fd # c
      <4> SUFFICES ASSUME fd = c PROVE FALSE
        OBVIOUS
      <4>1. CASE h = Nil
        BY <1>6, <2>3, <4>1
      <4>2. CASE h # Nil
        <5>1. h \in Files /\ c \in Fds
          BY <4>2
        <5>2. ~Told(h).queued
          BY <5>1 DEF Told, Files
        <5>3. files'[fd] = Told(h)
          BY <1>6, <4>2
        <5> QED BY <2>3, <5>2, <5>3
      <4> QED BY <4>1, <4>2
    <3>2. files'[fd] = files[fd]
      BY <1>6, <3>1
    <3>3. PICK x \in Events : ArmedFile(x, fd)
      BY <2>1, <2>3, <3>2 DEF Flagged
    <3>4. x # e
      BY <3>1, <3>3 DEF ArmedFile
    <3> QED BY <1>7, <3>3, <3>4 DEF ArmedFile
  <2> QED BY <1>6, <2>1, <2>2, <2>3 DEF Flagged
<1> QED BY <1>6, <1>7, <1>8 DEF Links

LEMMA PutAsideInt ==
  ASSUME Held, Stacked
  PROVE  PutAside(stack) \in Int
<1>1. PICK S : stack \in Seq(S)
  BY DEF Stacked
<1>2. PICK s, m : s = stack /\ m = Len(stack)
  OBVIOUS
<1>3. m \in Nat /\ \A i \in 1 .. m : s[i].saved \in Int
  BY <1>1, <1>2 DEF Held, Serves
<1>4. SumUpTo(s)[m] \in Int
  BY <1>1, <1>2, <1>3, SumsAgree
<1>5. PutAside(s) = SumUpTo(s)[Len(s)]
  BY <1>1, <1>2, SumSteps
<1> QED BY <1>2, <1>4, <1>5

(* An event comes: by the rules none that a handler that runs was called *)
(* for.                                                                  *)
LEMMA QueueLinks ==
  ASSUME Links, "reuse" \notin Departures,
         NEW v \in Places, v.kind # "free", v.next = Nil, NEW position \in Positions,
         queue_event(v, position), UNCHANGED stack \/ GoesOn \/ Ends \/ Begins
  PROVE  /\ OneList' /\ Held' /\ Stacked' /\ Counted'
         /\ \E e \in Events : /\ event[e] = Free /\ Same(event'[e], v)
                              /\ \A x \in Events : x # e => Same(event'[x], event[x])
<1>1. OneList /\ Held /\ Stacked /\ Counted
  BY DEF Links
<1>2. PICK e \in Events : Unused(e) /\ \E p : Came(e, v, p)
  BY <1>1, Comes
<1>3. PICK p : Came(e, v, p)
  BY <1>2
<1>4. /\ p \in 1 .. Len(Queue) + 1 /\ OneList' /\ Queue' = InsertAt(Queue, p, e)
      /\ Same(event'[e], v) /\ \A x \in Events : x # e => Same(event'[x], event[x])
  BY <1>3 DEF Came
<1>5. event[e] = Free /\ \A i \in DOMAIN stack : stack[i].ev # e
  BY <1>2 DEF Unused
<1>6. Spared(Len(stack))
  <2>1. \A i \in 1 .. Len(stack) : i \in DOMAIN stack
    BY <1>1 DEF Stacked
  <2> QED BY <1>4, <1>5, <2>1 DEF Spared
<1>7. Held' /\ Stacked' /\ PutAside(stack)' = PutAside(stack)
  BY <1>6, QuietHeld
<1>8. Len(Queue') = Len(Queue) + 1 /\ Len(Queue) \in Nat
  <2>1. PICK q : q = Queue
    OBVIOUS
  <2>2. q \in Seq(Events) /\ p \in 1 .. Len(q) + 1 /\ Len(q) \in Nat
    BY <1>1, <1>4, <2>1, QueueIs
  <2>3. Len(InsertAt(q, p, e)) = Len(q) + 1
    BY <2>2, Inserted
  <2> QED BY <1>4, <2>1, <2>2, <2>3
<1>9. PutAside(stack) \in Int
  BY <1>1, PutAsideInt
<1>10. Counted'
  <2>1. event_count' = event_count + 1
    BY DEF queue_event
  <2> QED BY <1>1, <1>7, <1>8, <1>9, <2>1 DEF Counted
<1> QED BY <1>4, <1>5, <1>7, <1>10

LEMMA NewIs ==
  ASSUME NEW kind \in Kinds, NEW fd \in Fds \cup {Nil}
  PROVE  /\ New(kind, fd) \in Places /\ New(kind, fd).kind = kind /\ New(kind, fd).fd = fd
         /\ New(kind, fd).armed /\ New(kind, fd).next = Nil /\ kind # "free"
BY DEF New, Places, Kinds

LEMMA WindowComes ==
  ASSUME Links, "reuse" \notin Departures, NEW position \in Positions,
         queue_event(New("window", Nil), position), UNCHANGED stack \/ GoesOn,
         UNCHANGED <<timer_pending, files, service_mode>>
  PROVE  Links'
<1>1. PICK v : v = New("window", Nil)
  OBVIOUS
<1>2. v \in Places /\ v.kind = "window" /\ v.next = Nil /\ v.kind # "free"
  BY <1>1, NewIs DEF Kinds
<1>3. queue_event(v, position)
  BY <1>1
<1>4. OneList' /\ Held' /\ Stacked' /\ Counted'
  BY <1>2, <1>3, QueueLinks
<1>5. PICK e \in Events : /\ event[e] = Free /\ Same(event'[e], v)
                          /\ \A x \in Events : x # e => Same(event'[x], event[x])
  BY <1>2, <1>3, QueueLinks
<1>6. Free.kind = "free"
  BY DEF Free
<1>7. Flagged'
  <2>1. /\ \A x \in Events : ArmedTimer(x)' <=> ArmedTimer(x)
        /\ \A x \in Events, fd \in Fds : ArmedFile(x, fd) => ArmedFile(x, fd)'
    BY <1>2, <1>5, <1>6 DEF ArmedTimer, ArmedFile, Same
  <2> QED BY <2>1, FlagsStay DEF Links, NoneQueued
<1> QED BY <1>4, <1>7 DEF Links

LEMMA QueueFileLinks ==
  ASSUME Links, "reuse" \notin Departures, files \in [Fds -> Files \cup {Nil}],
         NEW d \in Fds, QueueFile(d)
  PROVE  Links'
<1>1. PICK v : v = New("file", d)
  OBVIOUS
<1>2. v \in Places /\ v.kind = "file" /\ v.fd = d /\ v.armed /\ v.next = Nil /\ v.kind # "free"
  BY <1>1, NewIs DEF Kinds
<1>3. /\ queue_event(v, "tail") /\ "tail" \in Positions
      /\ UNCHANGED <<timer_pending, service_mode, stack>>
      /\ files' = [files EXCEPT ![d].queued = TRUE]
  BY <1>1 DEF QueueFile, timerVars, Positions
<1>4. OneList' /\ Held' /\ Stacked' /\ Counted'
  BY <1>2, <1>3, QueueLinks
<1>5. PICK e \in Events : /\ event[e] = Free /\ Same(event'[e], v)
                          /\ \A x \in Events : x # e => Same(event'[x], event[x])
  BY <1>2, <1>3, QueueLinks
<1>6. Free.kind = "free"
  BY DEF Free
<1>7. Flagged'
  <2>1. /\ \A x \in Events : ArmedTimer(x)' <=> ArmedTimer(x)
        /\ \A x \in Events, fd \in Fds : ArmedFile(x, fd) => ArmedFile(x, fd)'
    BY <1>2, <1>5, <1>6 DEF ArmedTimer, ArmedFile, Same
  <2>2. ArmedFile(e, d)'
    BY <1>2, <1>5 DEF ArmedFile, Same
  <2>3. ASSUME NEW fd \in Fds, files'[fd] # Nil, files'[fd].queued PROVE \E x \in Events : ArmedFile(x, fd)'
    <3>1. CASE fd = d
      BY <2>2, <3>1
    <3>2. CASE fd # d
      <4>1. files'[fd] = files[fd]
        BY <1>3, <3>2
      <4>2. PICK x \in Events : ArmedFile(x, fd)
        BY <2>3, <4>1 DEF Links, Flagged
      <4> QED BY <2>1, <4>2
    <3> QED BY <3>1, <3>2
  <2> QED BY <1>3, <2>1, <2>3 DEF Links, Flagged
<1> QED BY <1>3, <1>4, <1>7 DEF Links

LEMMA CheckQueuesLinks ==
  ASSUME InTurn, Links, "reuse" \notin Departures, CheckQueues
  PROVE  Links'
<1>1. PICK v : v = New("timer", Nil)
  OBVIOUS
<1>2. v \in Places /\ v.kind = "timer" /\ v.armed /\ v.next = Nil /\ v.kind # "free"
  BY <1>1, NewIs DEF Kinds
<1>3. /\ queue_event(v, "tail") /\ "tail" \in Positions /\ timer_pending' = TRUE /\ ~timer_pending
      /\ UNCHANGED <<service_mode, files>> /\ Running /\ SetTop([Top EXCEPT !.pc = "again"])
  BY <1>1 DEF CheckQueues, At, TimersDue, fileVars, Positions
<1>4. GoesOn
  <2>1. PICK X : Top \in LoopOf(X)
    BY <1>3, TopIs
  <2>2. PICK f : f = [Top EXCEPT !.pc = "again"]
    OBVIOUS
  <2>3. f.ev = Top.ev /\ f.saved = Top.saved /\ f.mode = Top.mode /\ f.at = Top.at /\ f.doing = Top.doing
    BY <2>1, <2>2 DEF LoopOf
  <2>4. ServesAs(f, Top)
    BY <2>3 DEF ServesAs
  <2> QED BY <1>3, <2>2, <2>4 DEF GoesOn
<1>5. OneList' /\ Held' /\ Stacked' /\ Counted'
  BY <1>2, <1>3, <1>4, QueueLinks
<1>6. PICK e \in Events : /\ event[e] = Free /\ Same(event'[e], v)
                          /\ \A x \in Events : x # e => Same(event'[x], event[x])
  BY <1>2, <1>3, <1>4, QueueLinks
<1>7. Free.kind = "free"
  BY DEF Free
<1>8. Flagged'
  <2>1. \A x \in Events : ~ArmedTimer(x)
    BY <1>3 DEF Links, Flagged
  <2>2. \A x \in Events : ArmedTimer(x)' <=> x = e
    BY <1>2, <1>6, <2>1 DEF ArmedTimer, Same
  <2>3. \A x \in Events, fd \in Fds : ArmedFile(x, fd) => ArmedFile(x, fd)'
    BY <1>6, <1>7 DEF ArmedFile, Same
  <2>4. ASSUME NEW fd \in Fds, files'[fd] # Nil, files'[fd].queued PROVE \E x \in Events : ArmedFile(x, fd)'
    <3>1. PICK x \in Events : ArmedFile(x, fd)
      BY <1>3, <2>4 DEF Links, Flagged
    <3> QED BY <2>3, <3>1
  <2> QED BY <1>3, <2>2, <2>4 DEF Flagged
<1> QED BY <1>3, <1>5, <1>8 DEF Links

LEMMA DeleteEventsLinks ==
  ASSUME Links, NEW gone \in SUBSET {e \in ToSet(Queue) : event[e].kind = "window"}, DeleteEvents(gone)
  PROVE  Links'
<1>1. /\ delete_events(gone) /\ UNCHANGED <<timer_pending, files, service_mode, stack>>
      /\ gone \in SUBSET ToSet(Queue) /\ \A x \in gone : event[x].kind = "window"
  BY DEF DeleteEvents, timerVars, fileVars
<1>2. OneList /\ Held /\ Stacked /\ Counted
  BY DEF Links
<1>3. /\ OneList' /\ GoneAll(gone) /\ event_count' = event_count - Cardinality(gone)
      /\ Len(Queue') = Len(Queue) - Cardinality(gone) /\ Cardinality(gone) \in Nat
  BY <1>1, <1>2, Deleted
<1>4. Spared(Len(stack))
  BY <1>3 DEF Spared, GoneAll
<1>5. Held' /\ Stacked' /\ PutAside(stack)' = PutAside(stack)
  BY <1>1, <1>4, QuietHeld
<1>6. PutAside(stack) \in Int
  BY <1>2, PutAsideInt
<1>7. Len(Queue) \in Nat
  BY <1>2, QueueIs
<1>8. Counted'
  BY <1>2, <1>3, <1>5, <1>6, <1>7 DEF Counted
<1>9. Flagged'
  <2>1. Free.kind = "free"
    BY DEF Free
  <2>2. /\ \A x \in Events : ArmedTimer(x)' <=> ArmedTimer(x)
        /\ \A x \in Events, fd \in Fds : ArmedFile(x, fd) => ArmedFile(x, fd)'
    BY <1>1, <1>3, <2>1 DEF ArmedTimer, ArmedFile, GoneAll, Same
  <2> QED BY <1>1, <2>2, FlagsStay DEF Links, NoneQueued
<1> QED BY <1>1, <1>3, <1>5, <1>8, <1>9 DEF Links

(* A handler leaves its event for another time: it is there still.       *)
LEMMA RefuseLinks ==
  ASSUME InTurn, Links, Refuse
  PROVE  Links'
<1>1. OneList /\ Held /\ Stacked /\ Counted /\ Running
  BY DEF Links, Refuse
<1>2. PICK e : e = Top.ev
  OBVIOUS
<1>3. /\ event[e] # Free /\ event' = [event EXCEPT ![e].armed = TRUE] /\ Top.doing = "window"
      /\ event_count' = event_count + Top.saved
      /\ SetTop([Top EXCEPT !.doing = "none", !.at = event[Top.ev].next, !.ev = Nil, !.saved = 0])
      /\ UNCHANGED <<first, last, marker, timer_pending, files, service_mode>>
  BY <1>2 DEF Refuse, timerVars, fileVars
<1>4. /\ Serves(Top) /\ Len(stack) \in Nat \ {0}
      /\ \A i \in 1 .. Len(stack) - 1 : Top.ev # Nil => stack[i].ev # Top.ev
  BY <1>1, TopServes
<1>5. e \in Events /\ event[e].kind = "window" /\ ~event[e].armed /\ e # Nil
  <2>1. e \in Events /\ event[e].kind \in {"window", "free"} /\ ~event[e].armed
    BY <1>2, <1>3, <1>4 DEF Serves
  <2> QED BY <1>1, <1>3, <2>1, EventsAssumption DEF OneList
<1>6. /\ OneList' /\ Queue' = Queue
      /\ \A x \in Events : x # e => event'[x] = event[x]
      /\ event'[e].kind = "window" /\ event'[e].armed
  <2>1. event[e].kind # "free" /\ TRUE \in BOOLEAN
    BY <1>5
  <2> QED BY <1>1, <1>3, <1>5, <2>1, ArmedSet
<1>7. PICK f : f = [Top EXCEPT !.doing = "none", !.at = event[Top.ev].next, !.ev = Nil, !.saved = 0]
  OBVIOUS
<1>8. /\ f.doing = "none" /\ f.at = event[e].next /\ f.ev = Nil /\ f.saved = 0 /\ f.mode = Top.mode
  <2>1. PICK X : Top \in LoopOf(X)
    BY <1>1, TopIs
  <2> QED BY <1>2, <1>7, <2>1 DEF LoopOf
<1>9. event[e].next \in Events \cup {Nil}
  BY <1>1, <1>5 DEF OneList, Lists, Places
<1>10. Serves(f)'
  BY <1>4, <1>8, <1>9, EventsAssumption DEF Serves
<1>11. Spared(Len(stack) - 1)
  BY <1>2, <1>4, <1>5, <1>6 DEF Spared, Same
<1>12. /\ Held' /\ Stacked' /\ PutAside(stack)' = (PutAside(stack) - Top.saved) + f.saved
       /\ PutAside(stack) \in Int /\ Top.saved \in Int
  BY <1>1, <1>3, <1>7, <1>8, <1>10, <1>11, HeldTop
<1>13. Counted'
  BY <1>1, <1>3, <1>6, <1>8, <1>12 DEF Counted
<1>14. Flagged'
  <2>1. /\ \A x \in Events : ArmedTimer(x)' <=> ArmedTimer(x)
        /\ \A x \in Events, fd \in Fds : ArmedFile(x, fd) => ArmedFile(x, fd)'
    BY <1>5, <1>6 DEF ArmedTimer, ArmedFile
  <2> QED BY <1>3, <2>1, FlagsStay DEF Links, NoneQueued
<1> QED BY <1>3, <1>6, <1>12, <1>13, <1>14 DEF Links

(* The event is over.                                                    *)
LEMMA HandledLinks ==
  ASSUME InTurn, Links, Handled
  PROVE  Links'
<1>1. OneList /\ Held /\ Stacked /\ Counted /\ Running /\ Top.doing = "over"
  BY DEF Links, Handled
<1>2. PICK e : e = Top.ev
  OBVIOUS
<1>3. /\ Unlink(e) /\ UNCHANGED <<timer_pending, files>>
      /\ event_count' = event_count + Top.saved - (IF e \in ToSet(Queue) THEN 1 ELSE 0)
  BY <1>2 DEF Handled, timerVars, fileVars
<1>4. /\ Serves(Top) /\ Len(stack) \in Nat \ {0}
      /\ \A i \in 1 .. Len(stack) - 1 : Top.ev # Nil => stack[i].ev # Top.ev
  BY <1>1, TopServes
<1>5. e \in Events /\ ~event[e].armed /\ e # Nil
  BY <1>1, <1>2, <1>4, EventsAssumption DEF Serves
<1>6. /\ OneList' /\ Gone(e) /\ Len(Queue) \in Nat
      /\ Len(Queue') = Len(Queue) - (IF e \in ToSet(Queue) THEN 1 ELSE 0)
  <2>1. CASE e \in ToSet(Queue)
    <3>1. PICK i \in 1 .. Len(Queue) : Queue[i] = e /\ Queue' = RemoveAt(Queue, i)
      BY <1>1, <1>3, <1>5, <2>1, Unlinked
    <3>2. PICK q : q = Queue
      OBVIOUS
    <3>3. q \in Seq(Events) /\ i \in 1 .. Len(q) /\ Len(q) \in Nat
      BY <1>1, <3>2, QueueIs
    <3>4. Len(RemoveAt(q, i)) = Len(q) - 1
      BY <3>3, Removed
    <3>5. OneList' /\ Gone(e)
      BY <1>1, <1>3, <1>5, <2>1, Unlinked
    <3> QED BY <2>1, <3>1, <3>2, <3>3, <3>4, <3>5
  <2>2. CASE e \notin ToSet(Queue)
    <3>1. OneList' /\ Gone(e) /\ Queue' = Queue
      BY <1>1, <1>3, <1>5, <2>2, NotThere
    <3> QED BY <1>1, <2>2, <3>1, QueueIs
  <2> QED BY <2>1, <2>2
<1>7. Spared(Len(stack) - 1)
  BY <1>2, <1>4, <1>5, <1>6 DEF Spared, Gone
<1>8. /\ Held' /\ Stacked' /\ PutAside(stack)' = PutAside(stack) - Top.saved
      /\ PutAside(stack) \in Int /\ Top.saved \in Int /\ service_mode' \in Modes
  <2>1. CASE Top.call = "one"
    <3>1. Leave
      BY <2>1 DEF Handled
    <3>2. /\ Held' /\ Stacked' /\ PutAside(stack)' = PutAside(stack) - Top.saved
          /\ Top.mode \in Modes /\ PutAside(stack) \in Int /\ Top.saved \in Int
      BY <1>1, <1>7, <3>1, HeldLeft
    <3> QED BY <3>1, <3>2 DEF Leave
  <2>2. CASE Top.call # "one"
    <3>1. PICK f : f = [Top EXCEPT !.doing = "none", !.at = "first", !.ev = Nil, !.saved = 0,
                                   !.limit = 0, !.time = 0, !.seen = 0]
      OBVIOUS
    <3>2. SetTop(f) /\ service_mode' = service_mode
      BY <2>2, <3>1 DEF Handled
    <3>3. /\ f.doing = "none" /\ f.at = "first" /\ f.ev = Nil /\ f.saved = 0 /\ f.mode = Top.mode
      <4>1. PICK X : Top \in LoopOf(X)
        BY <1>1, TopIs
      <4> QED BY <3>1, <4>1 DEF LoopOf
    <3>4. Serves(f)'
      BY <1>4, <3>3, EventsAssumption DEF Serves
    <3>5. /\ Held' /\ Stacked' /\ PutAside(stack)' = (PutAside(stack) - Top.saved) + f.saved
          /\ PutAside(stack) \in Int /\ Top.saved \in Int
      BY <1>1, <1>7, <3>2, <3>3, <3>4, HeldTop
    <3> QED BY <3>2, <3>3, <3>5 DEF Links
  <2> QED BY <2>1, <2>2
<1>9. Counted'
  BY <1>1, <1>3, <1>6, <1>8, SMTT(30) DEF Counted
<1>10. Flagged'
  <2>1. Free.kind = "free"
    BY DEF Free
  <2>2. /\ \A x \in Events : ArmedTimer(x)' <=> ArmedTimer(x)
        /\ \A x \in Events, fd \in Fds : ArmedFile(x, fd) => ArmedFile(x, fd)'
    BY <1>5, <1>6, <2>1 DEF ArmedTimer, ArmedFile, Gone, Same
  <2> QED BY <1>3, <2>2, FlagsStay DEF Links, NoneQueued
<1> QED BY <1>3, <1>6, <1>8, <1>9, <1>10 DEF Links

-----------------------------------------------------------------------------
(* Ranges.                                                               *)
Counts  == uses \in Uses /\ made <= uses.most /\ now \in Time /\ signalled \in BOOLEAN
Depth   == Len(stack) <= MaxLoops
TimesIn == \A i \in 1 .. Len(timers) : timers[i].time \in Time /\ timers[i].token \in 1 .. last_timer_id
FilesIn == files \in [Fds -> Files \cup {Nil}]
Ranges  == Counts /\ Depth /\ TimesIn /\ FilesIn

LEMMA CountsKept ==
  ASSUME InTurn, Counts, Next
  PROVE  Counts'
<1>1. uses' = uses /\ uses \in Uses /\ uses.most \in Nat
  BY BoundsAssumption DEF Next, Remember, Counts
<1>2. /\ made \in Nat /\ made <= uses.most /\ now \in Nat /\ now <= MaxTime /\ MaxTime \in Nat
      /\ signalled \in BOOLEAN
  BY BoundsAssumption DEF InTurn, Counting, Counts, Time
<1> SUFFICES /\ made' = made \/ (made' = made + 1 /\ made < uses.most)
             /\ now' = now \/ (now' = now + 1 /\ now < MaxTime)
             /\ signalled' \in BOOLEAN
  BY <1>1, <1>2 DEF Counts, Time
<1>3. CASE Client
  BY <1>2, <1>3 DEF Client, QueueWindow, CreateTimer, DeleteTimer, DoWhenIdle, CancelIdle, CreateFile,
     DeleteFile, DeleteEvents, DoOneEvent, ServiceAll, fileVars
<1>4. CASE LoopStep \/ CodeReturns \/ Refuse
  BY <1>2, <1>4 DEF LoopStep, CodeReturns, Refuse, ServeWindow, ServeTimers, ServeFile, ServeNothing,
     RunTimer, DrainEnds, Handled, Setup, WaitEnds, FilesQueued, CheckQueuesNothing, CheckQueues,
     QueueFile, BeginPass, RunIdle, PassEnds, NoPass, Starts, Left, fileVars
<1>5. CASE Tick \/ Foreign \/ \E fd \in Fds, types \in SUBSET Dirs : FileReady(fd, types)
  BY <1>2, <1>5 DEF Tick, Foreign, FileReady, fileVars
<1> QED BY <1>3, <1>4, <1>5 DEF Next

LEMMA DepthKept ==
  ASSUME Stacked, Depth, Next
  PROVE  Depth'
<1>1. Len(stack) \in Nat /\ Len(stack) <= MaxLoops /\ MaxLoops \in Nat
  BY BoundsAssumption DEF Stacked, Depth
<1>2. ASSUME Running, NEW f, SetTop(f) PROVE Len(stack') = Len(stack)
  BY <1>2 DEF Stacked, SetTop, Running
<1>3. ASSUME Running, Leave PROVE Len(stack') <= Len(stack)
  <2>1. PICK S : stack \in Seq(S)
    BY DEF Stacked
  <2>2. stack # <<>> /\ stack' = Front(stack)
    BY <1>3 DEF Running, Leave
  <2> QED BY <1>1, <2>1, <2>2, Fronted
<1>4. ASSUME Len(stack) < MaxLoops, NEW f, stack' = Append(stack, f) PROVE Len(stack') <= MaxLoops
  <2>1. PICK S : stack \in Seq(S)
    BY DEF Stacked
  <2>2. stack \in Seq(S \cup {f})
    BY <2>1
  <2>3. Len(stack') = Len(stack) + 1
    BY <1>4, <2>2
  <2> QED BY <1>1, <1>4, <2>3
<1> SUFFICES \/ UNCHANGED stack
             \/ Running /\ \E f : SetTop(f)
             \/ Running /\ Leave
             \/ Len(stack) < MaxLoops /\ \E f : stack' = Append(stack, f)
  BY <1>1, <1>2, <1>3, <1>4 DEF Depth
<1>5. CASE Client
  BY <1>5 DEF Client, QueueWindow, CreateTimer, DeleteTimer, DoWhenIdle, CancelIdle, CreateFile,
     DeleteFile, DeleteEvents, DoOneEvent, ServiceAll
<1>6. CASE LoopStep \/ CodeReturns \/ Refuse
  <2>1. CASE ServeWindow \/ ServeTimers \/ ServeFile \/ ServeNothing
    BY <2>1 DEF ServeWindow, ServeTimers, ServeFile, ServeNothing, Serving
  <2>2. CASE RunTimer \/ DrainEnds \/ Handled \/ CodeReturns \/ Refuse
    BY <2>2 DEF RunTimer, DrainEnds, Handled, CodeReturns, Refuse
  <2>3. CASE Setup \/ WaitEnds \/ FilesQueued \/ CheckQueuesNothing \/ CheckQueues
    BY <2>3 DEF Setup, WaitEnds, FilesQueued, CheckQueuesNothing, CheckQueues, At
  <2>4. CASE (\E fd \in Fds : QueueFile(fd)) \/ BeginPass \/ RunIdle \/ PassEnds \/ NoPass
    BY <2>4 DEF QueueFile, BeginPass, RunIdle, PassEnds, NoPass, At
  <2> QED BY <1>6, <2>1, <2>2, <2>3, <2>4 DEF LoopStep
<1>7. CASE Tick \/ Foreign \/ \E fd \in Fds, types \in SUBSET Dirs : FileReady(fd, types)
  BY <1>7 DEF Tick, Foreign, FileReady, At
<1> QED BY <1>5, <1>6, <1>7 DEF Next

LEMMA TimesKept ==
  ASSUME InTurn, Counts, TimesIn, Next
  PROVE  TimesIn'
<1>0. /\ timers \in Seq(Timer) /\ last_timer_id \in Nat /\ now \in Nat /\ Len(timers) \in Nat
      /\ \A i \in 1 .. Len(timers) : timers[i] \in Timer
  BY DEF InTurn, Counting
<1>1. CASE UNCHANGED <<timers, last_timer_id>>
  BY <1>1 DEF TimesIn
<1>2. CASE \E ms \in Time : CreateTimer(ms)
  <2>1. PICK ms \in Time : CreateTimer(ms)
    BY <1>2
  <2>2. PICK t : t = [time |-> now + ms, token |-> NewToken, id |-> made + 1]
    OBVIOUS
  <2>3. PICK p : p = IF Later(t.time) = {} THEN Len(timers) + 1 ELSE Min(Later(t.time))
    OBVIOUS
  <2>4. now + ms <= MaxTime /\ timers' = InsertAt(timers, p, t) /\ last_timer_id' = last_timer_id + 1
    BY <2>1, <2>2, <2>3 DEF CreateTimer, NewToken
  <2>5. t \in Timer /\ t.time \in Time /\ t.token = last_timer_id + 1
    <3>1. made + 1 \in Nat /\ ms \in Nat
      BY DEF InTurn, Counting, Time
    <3> QED BY <1>0, <2>2, <2>4, <3>1, BoundsAssumption DEF Timer, NewToken, Time
  <2>6. p \in 1 .. Len(timers) + 1
    <3>1. CASE Later(t.time) = {}
      BY <1>0, <2>3, <3>1
    <3>2. CASE Later(t.time) # {}
      <4>1. Later(t.time) \in SUBSET Nat /\ Later(t.time) \subseteq 1 .. Len(timers)
        BY <1>0 DEF Later
      <4>2. Min(Later(t.time)) \in Later(t.time)
        BY <3>2, <4>1, Least
      <4> QED BY <1>0, <2>3, <3>2, <4>1, <4>2
    <3> QED BY <3>1, <3>2
  <2>7. /\ Len(timers') = Len(timers) + 1
        /\ \A i \in 1 .. Len(timers) + 1 :
             timers'[i] = IF i < p THEN timers[i] ELSE IF i = p THEN t ELSE timers[i - 1]
    BY <1>0, <2>4, <2>5, <2>6, Inserted, SMTT(30)
  <2>8. ASSUME NEW i \in 1 .. Len(timers')
        PROVE  timers'[i].time \in Time /\ timers'[i].token \in 1 .. last_timer_id'
    <3>1. CASE i = p
      BY <1>0, <2>4, <2>5, <2>7, <3>1
    <3>2. CASE i # p
      <4>1. PICK j \in 1 .. Len(timers) : timers'[i] = timers[j]
        <5>1. i < p => i \in 1 .. Len(timers)
          BY <1>0, <2>6, <2>7
        <5>2. ~(i < p) => i - 1 \in 1 .. Len(timers)
          BY <1>0, <2>6, <2>7, <3>2
        <5> QED BY <2>7, <3>2, <5>1, <5>2
      <4>2. timers[j].time \in Time /\ timers[j].token \in 1 .. last_timer_id
        BY DEF TimesIn
      <4> QED BY <1>0, <2>4, <4>1, <4>2
    <3> QED BY <3>1, <3>2
  <2> QED BY <2>8 DEF TimesIn
<1>3. ASSUME NEW k \in 1 .. Len(timers), timers' = RemoveAt(timers, k), last_timer_id' = last_timer_id
      PROVE  TimesIn'
  <2>1. /\ Len(timers') = Len(timers) - 1
        /\ \A i \in 1 .. Len(timers) - 1 : timers'[i] = IF i < k THEN timers[i] ELSE timers[i + 1]
    BY <1>0, <1>3, Removed
  <2>2. ASSUME NEW i \in 1 .. Len(timers') PROVE \E j \in 1 .. Len(timers) : timers'[i] = timers[j]
    <3>1. i \in 1 .. Len(timers) /\ i + 1 \in 1 .. Len(timers) /\ i \in 1 .. Len(timers) - 1
      BY <1>0, <2>1
    <3> QED BY <2>1, <3>1
  <2> QED BY <1>3, <2>2 DEF TimesIn
<1>4. CASE RunTimer
  <2>1. timers # <<>> /\ timers' = Tail(timers) /\ last_timer_id' = last_timer_id
    BY <1>4 DEF RunTimer, Due
  <2>2. 1 \in 1 .. Len(timers) /\ Tail(timers) = RemoveAt(timers, 1)
    BY <1>0, <2>1, TailIsRemoval
  <2> QED BY <1>3, <2>1, <2>2
<1>5. CASE \E i \in DOMAIN timers : DeleteTimer(i)
  <2>1. PICK i \in 1 .. Len(timers) : DeleteTimer(i)
    BY <1>0, <1>5
  <2> QED BY <1>3, <2>1 DEF DeleteTimer
<1>6. \/ UNCHANGED <<timers, last_timer_id>> \/ RunTimer
      \/ \E ms \in Time : CreateTimer(ms)
      \/ \E i \in DOMAIN timers : DeleteTimer(i)
  <2>1. CASE Client
    BY <2>1 DEF Client, QueueWindow, DoWhenIdle, CancelIdle, CreateFile,
       DeleteFile, DeleteEvents, DoOneEvent, ServiceAll, timerVars
  <2>2. CASE LoopStep \/ CodeReturns \/ Refuse
    BY <2>2 DEF LoopStep, CodeReturns, Refuse, ServeWindow, ServeTimers, ServeFile, ServeNothing,
       DrainEnds, Handled, Setup, WaitEnds, FilesQueued, CheckQueuesNothing, CheckQueues,
       QueueFile, BeginPass, RunIdle, PassEnds, NoPass, Left, timerVars
  <2>3. CASE Tick \/ Foreign \/ \E fd \in Fds, types \in SUBSET Dirs : FileReady(fd, types)
    BY <2>3 DEF Tick, Foreign, FileReady, timerVars
  <2> QED BY <2>1, <2>2, <2>3 DEF Next
<1> QED BY <1>1, <1>2, <1>4, <1>5, <1>6

LEMMA FilesKept ==
  ASSUME FilesIn, Next
  PROVE  FilesIn'
<1>1. CASE UNCHANGED files
  BY <1>1 DEF FilesIn
<1>2. ASSUME NEW fd \in Fds, NEW f \in Files \cup {Nil}, files' = [files EXCEPT ![fd] = f]
      PROVE  FilesIn'
  BY <1>2 DEF FilesIn
<1>3. CASE \E fd \in Fds, mask \in SUBSET Dirs : CreateFile(fd, mask)
  <2>1. PICK fd \in Fds, mask \in SUBSET Dirs : CreateFile(fd, mask)
    BY <1>3
  <2>2. CASE files[fd] = Nil
    <3>1. PICK f : f = [mask |-> mask, ready |-> {}, queued |-> FALSE, enabled |-> mask]
      OBVIOUS
    <3>2. f \in Files
      BY <3>1 DEF Files
    <3>3. files' = [files EXCEPT ![fd] = f]
      BY <2>1, <2>2, <3>1 DEF CreateFile
    <3> QED BY <1>2, <3>2, <3>3
  <2>3. CASE files[fd] # Nil
    <3>1. files[fd] \in Files
      BY <2>3 DEF FilesIn
    <3>2. PICK f : f = [files[fd] EXCEPT !.mask = mask, !.enabled = @ \cup mask]
      OBVIOUS
    <3>3. f \in Files
      BY <3>1, <3>2 DEF Files
    <3>4. files' = [files EXCEPT ![fd].mask = mask, ![fd].enabled = @ \cup mask]
      BY <2>1, <2>3 DEF CreateFile
    <3>5. files' = [files EXCEPT ![fd] = f]
      BY <3>1, <3>2, <3>4 DEF FilesIn, Files
    <3> QED BY <1>2, <3>3, <3>5
  <2> QED BY <2>2, <2>3
<1>4. CASE \E fd \in Fds : DeleteFile(fd)
  BY <1>2, <1>4 DEF DeleteFile
<1>5. CASE ServeFile
  <2>1. PICK c, h : c = event[Chosen].fd /\ h = files[c]
    OBVIOUS
  <2>2. files' = IF h = Nil THEN files ELSE [files EXCEPT ![c] = Told(h)]
    BY <1>5, <2>1 DEF ServeFile
  <2>3. CASE h = Nil \/ c \notin Fds
    BY <2>2, <2>3 DEF FilesIn
  <2>4. CASE h # Nil /\ c \in Fds
    <3>1. h \in Files
      BY <2>1, <2>4 DEF FilesIn
    <3>2. Told(h) \in Files
      BY <3>1 DEF Told, Files
    <3> QED BY <1>2, <2>2, <2>4, <3>2
  <2> QED BY <2>3, <2>4
<1>6. CASE \E fd \in Fds : QueueFile(fd)
  <2>1. PICK fd \in Fds : QueueFile(fd)
    BY <1>6
  <2>2. files[fd] \in Files
    BY <2>1 DEF QueueFile, Ready, FilesIn
  <2>3. PICK f : f = [files[fd] EXCEPT !.queued = TRUE]
    OBVIOUS
  <2>4. f \in Files
    BY <2>2, <2>3 DEF Files
  <2>5. files' = [files EXCEPT ![fd] = f]
    BY <2>1, <2>3 DEF QueueFile
  <2> QED BY <1>2, <2>4, <2>5
<1>7. CASE \E fd \in Fds, types \in SUBSET Dirs : FileReady(fd, types)
  <2>1. PICK fd \in Fds, types \in SUBSET Dirs : FileReady(fd, types)
    BY <1>7
  <2>2. files[fd] \in Files
    BY <2>1 DEF FileReady, FilesIn
  <2>3. PICK f : f = [files[fd] EXCEPT !.ready = @ \cup (types \cap files[fd].mask), !.enabled = @ \ types]
    OBVIOUS
  <2>4. f \in Files
    BY <2>2, <2>3 DEF Files
  <2>5. files' = [files EXCEPT ![fd].ready = @ \cup (types \cap files[fd].mask), ![fd].enabled = @ \ types]
    BY <2>1 DEF FileReady
  <2>6. files' = [files EXCEPT ![fd] = f]
    BY <2>2, <2>3, <2>5 DEF FilesIn, Files
  <2> QED BY <1>2, <2>4, <2>6
<1>8. \/ UNCHANGED files \/ ServeFile
      \/ \E fd \in Fds, mask \in SUBSET Dirs : CreateFile(fd, mask)
      \/ \E fd \in Fds : DeleteFile(fd)
      \/ \E fd \in Fds : QueueFile(fd)
      \/ \E fd \in Fds, types \in SUBSET Dirs : FileReady(fd, types)
  <2>1. CASE Client
    BY <2>1 DEF Client, QueueWindow, DoWhenIdle, CancelIdle, CreateTimer, DeleteTimer,
       DeleteEvents, DoOneEvent, ServiceAll, fileVars
  <2>2. CASE LoopStep \/ CodeReturns \/ Refuse
    BY <2>2 DEF LoopStep, CodeReturns, Refuse, ServeWindow, ServeTimers, ServeNothing,
       RunTimer, DrainEnds, Handled, Setup, WaitEnds, FilesQueued, CheckQueuesNothing, CheckQueues,
       BeginPass, RunIdle, PassEnds, NoPass, Left, fileVars
  <2>3. CASE Tick \/ Foreign \/ \E fd \in Fds, types \in SUBSET Dirs : FileReady(fd, types)
    BY <2>3 DEF Tick, Foreign, fileVars
  <2> QED BY <2>1, <2>2, <2>3 DEF Next
<1> QED BY <1>1, <1>3, <1>4, <1>5, <1>6, <1>7, <1>8

-----------------------------------------------------------------------------
(* What the other steps do with the loops.                               *)
Quiet ==
  /\ UNCHANGED queueVars /\ UNCHANGED timer_pending /\ NoneQueued
  /\ UNCHANGED stack \/ GoesOn \/ Ends \/ Begins
  /\ service_mode' \in Modes

LEMMA QuietClient ==
  ASSUME Links, FilesIn,
         \/ \E ms \in Time : CreateTimer(ms)
         \/ \E i \in DOMAIN timers : DeleteTimer(i)
         \/ DoWhenIdle
         \/ \E same \in SUBSET {h.id : h \in ToSet(idles)} : CancelIdle(same)
         \/ \E fd \in Fds, mask \in SUBSET Dirs : CreateFile(fd, mask)
         \/ \E fd \in Fds : DeleteFile(fd)
         \/ Tick
  PROVE  Quiet
<1>1. UNCHANGED <<queueVars, timer_pending, stack, service_mode>> /\ service_mode' \in Modes
  BY DEF Links, CreateTimer, DeleteTimer, DoWhenIdle, CancelIdle, CreateFile, DeleteFile, Tick, timerVars
<1>2. CASE UNCHANGED files
  BY <1>1, <1>2 DEF Quiet, NoneQueued
<1>3. CASE \E fd \in Fds, mask \in SUBSET Dirs : CreateFile(fd, mask)
  <2>1. PICK fd \in Fds, mask \in SUBSET Dirs : CreateFile(fd, mask)
    BY <1>3
  <2>2. CASE files[fd] = Nil
    <3>1. PICK f : f = [mask |-> mask, ready |-> {}, queued |-> FALSE, enabled |-> mask]
      OBVIOUS
    <3>2. files' = [files EXCEPT ![fd] = f] /\ ~f.queued
      BY <2>1, <2>2, <3>1 DEF CreateFile
    <3>3. NoneQueued
      BY <3>2 DEF NoneQueued, FilesIn
    <3> QED BY <1>1, <3>3 DEF Quiet
  <2>3. CASE files[fd] # Nil
    <3>1. files[fd] \in Files
      BY <2>3 DEF FilesIn
    <3>2. files' = [files EXCEPT ![fd].mask = mask, ![fd].enabled = @ \cup mask]
      BY <2>1, <2>3 DEF CreateFile
    <3>3. files'[fd].queued = files[fd].queued
      BY <3>1, <3>2 DEF FilesIn, Files
    <3>4. \A d \in Fds : d # fd => files'[d] = files[d]
      BY <3>2 DEF FilesIn
    <3>5. NoneQueued
      BY <2>3, <3>3, <3>4 DEF NoneQueued
    <3> QED BY <1>1, <3>5 DEF Quiet
  <2> QED BY <2>2, <2>3
<1>4. CASE \E fd \in Fds : DeleteFile(fd)
  <2>1. PICK fd \in Fds : DeleteFile(fd)
    BY <1>4
  <2>2. NoneQueued
    BY <2>1 DEF NoneQueued, FilesIn, DeleteFile
  <2> QED BY <1>1, <2>2 DEF Quiet
<1> QED BY <1>2, <1>3, <1>4 DEF CreateTimer, DeleteTimer, DoWhenIdle, CancelIdle, Tick, fileVars

LEMMA QuietCalls ==
  ASSUME Links, (\E flags \in Flags : DoOneEvent(flags)) \/ ServiceAll
  PROVE  Quiet
<1>1. UNCHANGED <<queueVars, timer_pending, files>> /\ service_mode' = "none" /\ Begins
  BY DEF DoOneEvent, ServiceAll, timerVars, fileVars, Begins
<1> QED BY <1>1 DEF Quiet, NoneQueued, Modes

LEMMA QuietRounds ==
  ASSUME InTurn, Links, Ranges,
         \/ ServeNothing \/ Setup \/ WaitEnds \/ FilesQueued \/ CheckQueuesNothing
         \/ \E fd \in Fds, types \in SUBSET Dirs : FileReady(fd, types)
  PROVE  Quiet
<1>1. UNCHANGED <<queueVars, timer_pending, service_mode>> /\ service_mode' \in Modes /\ Running
  BY DEF Links, ServeNothing, Serving, Setup, WaitEnds, FilesQueued, CheckQueuesNothing, FileReady,
     At, Left, timerVars
<1>2. GoesOn
  <2>1. PICK X : Top \in LoopOf(X)
    BY <1>1, TopIs
  <2>2. CASE ServeNothing
    <3>1. PICK f : f = [Top EXCEPT !.at = "first", !.pc = IF Top.pc = "serve" THEN "setup" ELSE "idle"]
      OBVIOUS
    <3>2. SetTop(f)
      BY <2>2, <3>1 DEF ServeNothing
    <3>3. ServesAs(f, Top)
      BY <2>1, <3>1 DEF ServesAs, LoopOf
    <3> QED BY <1>1, <3>2, <3>3 DEF GoesOn
  <2>3. CASE Setup
    <3>1. PICK f : f = [Top EXCEPT !.pc = "wait", !.until = Until]
      OBVIOUS
    <3>2. SetTop(f)
      BY <2>3, <3>1 DEF Setup
    <3>3. ServesAs(f, Top)
      BY <2>1, <3>1 DEF ServesAs, LoopOf
    <3> QED BY <1>1, <3>2, <3>3 DEF GoesOn
  <2>4. CASE WaitEnds
    <3>1. PICK f : f = [Top EXCEPT !.pc = "files", !.until = 0]
      OBVIOUS
    <3>2. SetTop(f)
      BY <2>4, <3>1 DEF WaitEnds
    <3>3. ServesAs(f, Top)
      BY <2>1, <3>1 DEF ServesAs, LoopOf
    <3> QED BY <1>1, <3>2, <3>3 DEF GoesOn
  <2>5. CASE FilesQueued
    <3>1. PICK f : f = [Top EXCEPT !.pc = "check"]
      OBVIOUS
    <3>2. SetTop(f)
      BY <2>5, <3>1 DEF FilesQueued
    <3>3. ServesAs(f, Top)
      BY <2>1, <3>1 DEF ServesAs, LoopOf
    <3> QED BY <1>1, <3>2, <3>3 DEF GoesOn
  <2>6. CASE CheckQueuesNothing
    <3>1. PICK f : f = [Top EXCEPT !.pc = "again"]
      OBVIOUS
    <3>2. SetTop(f)
      BY <2>6, <3>1 DEF CheckQueuesNothing
    <3>3. ServesAs(f, Top)
      BY <2>1, <3>1 DEF ServesAs, LoopOf
    <3> QED BY <1>1, <3>2, <3>3 DEF GoesOn
  <2>7. CASE \E fd \in Fds, types \in SUBSET Dirs : FileReady(fd, types)
    <3>1. PICK f : f = [Top EXCEPT !.pc = "check", !.result = 1, !.until = 0]
      OBVIOUS
    <3>2. SetTop(f)
      BY <2>7, <3>1 DEF FileReady
    <3>3. ServesAs(f, Top)
      BY <2>1, <3>1 DEF ServesAs, LoopOf
    <3> QED BY <1>1, <3>2, <3>3 DEF GoesOn
  <2> QED BY <2>2, <2>3, <2>4, <2>5, <2>6, <2>7
<1>3. NoneQueued
  <2>1. CASE UNCHANGED files
    BY <2>1 DEF NoneQueued
  <2>2. CASE \E fd \in Fds, types \in SUBSET Dirs : FileReady(fd, types)
    <3>1. PICK fd \in Fds, types \in SUBSET Dirs : FileReady(fd, types)
      BY <2>2
    <3>2. /\ files[fd] # Nil /\ files[fd] \in Files
          /\ files' = [files EXCEPT ![fd].ready = @ \cup (types \cap files[fd].mask), ![fd].enabled = @ \ types]
      BY <3>1 DEF FileReady, Ranges, FilesIn
    <3>3. files'[fd].queued = files[fd].queued
      BY <3>2 DEF Ranges, FilesIn, Files
    <3>4. \A d \in Fds : d # fd => files'[d] = files[d]
      BY <3>2 DEF Ranges, FilesIn
    <3> QED BY <3>2, <3>3, <3>4 DEF NoneQueued
  <2> QED BY <2>1, <2>2 DEF ServeNothing, Setup, WaitEnds, FilesQueued, CheckQueuesNothing, Left, fileVars
<1> QED BY <1>1, <1>2, <1>3 DEF Quiet

LEMMA QuietHandlers ==
  ASSUME InTurn, Links, RunTimer \/ DrainEnds \/ CodeReturns \/ BeginPass \/ RunIdle \/ PassEnds \/ NoPass
  PROVE  Quiet
<1>1. UNCHANGED <<queueVars, timer_pending, files>> /\ Running
  BY DEF RunTimer, DrainEnds, CodeReturns, BeginPass, RunIdle, PassEnds, NoPass, At, Left, timerVars, fileVars
<1>2. Held /\ Stacked /\ service_mode \in Modes
  BY DEF Links
<1>3. Serves(Top)
  BY <1>1, <1>2, TopServes
<1>4. PICK X : Top \in LoopOf(X)
  BY <1>1, TopIs
<1>5. CASE RunTimer
  <2>1. PICK f : f = [Top EXCEPT !.doing = "timer"]
    OBVIOUS
  <2>2. SetTop(f) /\ Top.doing = "drain" /\ service_mode' = service_mode
    BY <1>5, <2>1 DEF RunTimer
  <2>3. ServesAs(f, Top)
    BY <1>4, <2>1, <2>2 DEF ServesAs, LoopOf, Between
  <2>4. GoesOn
    BY <1>1, <2>2, <2>3 DEF GoesOn
  <2> QED BY <1>1, <1>2, <2>2, <2>4 DEF Quiet, NoneQueued
<1>6. CASE DrainEnds
  <2>1. PICK f : f = [Top EXCEPT !.doing = "over"]
    OBVIOUS
  <2>2. SetTop(f) /\ Top.doing = "drain" /\ service_mode' = service_mode
    BY <1>6, <2>1 DEF DrainEnds
  <2>3. ServesAs(f, Top)
    BY <1>4, <2>1, <2>2 DEF ServesAs, LoopOf, Between
  <2>4. GoesOn
    BY <1>1, <2>2, <2>3 DEF GoesOn
  <2> QED BY <1>1, <1>2, <2>2, <2>4 DEF Quiet, NoneQueued
<1>7. CASE CodeReturns
  <2>1. PICK d : d = CASE Top.doing = "timer" -> "drain" [] Top.doing = "idle" -> "pass" [] OTHER -> "over"
    OBVIOUS
  <2>2. PICK f : f = [Top EXCEPT !.doing = d]
    OBVIOUS
  <2>3. SetTop(f) /\ Top.doing \in Kinds /\ service_mode' = service_mode
    BY <1>7, <2>1, <2>2 DEF CodeReturns
  <2>4. d # "window" /\ (d \in Between <=> Top.doing \in Between)
    BY <2>1, <2>3 DEF Between, Kinds
  <2>5. ServesAs(f, Top)
    BY <1>4, <2>2, <2>4 DEF ServesAs, LoopOf
  <2>6. GoesOn
    BY <1>1, <2>3, <2>5 DEF GoesOn
  <2> QED BY <1>1, <1>2, <2>3, <2>6 DEF Quiet, NoneQueued
<1>8. CASE BeginPass
  <2>1. PICK f : f = [Top EXCEPT !.doing = "pass", !.limit = idle_generation, !.seen = made]
    OBVIOUS
  <2>2. SetTop(f) /\ Top.doing = "none" /\ service_mode' = service_mode
    BY <1>8, <2>1 DEF BeginPass, At
  <2>3. ServesAs(f, Top)
    BY <1>4, <2>1, <2>2 DEF ServesAs, LoopOf, Between
  <2>4. GoesOn
    BY <1>1, <2>2, <2>3 DEF GoesOn
  <2> QED BY <1>1, <1>2, <2>2, <2>4 DEF Quiet, NoneQueued
<1>9. CASE RunIdle
  <2>1. PICK f : f = [Top EXCEPT !.doing = "idle"]
    OBVIOUS
  <2>2. SetTop(f) /\ Top.doing = "pass" /\ service_mode' = service_mode
    BY <1>9, <2>1 DEF RunIdle
  <2>3. ServesAs(f, Top)
    BY <1>4, <2>1, <2>2 DEF ServesAs, LoopOf, Between
  <2>4. GoesOn
    BY <1>1, <2>2, <2>3 DEF GoesOn
  <2> QED BY <1>1, <1>2, <2>2, <2>4 DEF Quiet, NoneQueued
<1>10. CASE (PassEnds \/ NoPass) /\ Leave
  <2>1. Top.doing \in {"pass", "none"}
    BY <1>10 DEF PassEnds, NoPass, At
  <2>2. Ends /\ service_mode' \in Modes
    BY <1>1, <1>3, <1>10, <2>1 DEF Ends, Leave, Serves
  <2> QED BY <1>1, <2>2 DEF Quiet, NoneQueued
<1>11. CASE NoPass /\ SetTop([Top EXCEPT !.pc = "serve"]) /\ service_mode' = service_mode
  <2>1. PICK f : f = [Top EXCEPT !.pc = "serve"]
    OBVIOUS
  <2>2. ServesAs(f, Top)
    BY <1>4, <2>1 DEF ServesAs, LoopOf
  <2>3. GoesOn
    BY <1>1, <1>11, <2>1, <2>2 DEF GoesOn
  <2> QED BY <1>1, <1>2, <1>11, <2>3 DEF Quiet, NoneQueued
<1>12. PassEnds => Leave
  BY DEF PassEnds
<1>13. NoPass => Leave \/ (SetTop([Top EXCEPT !.pc = "serve"]) /\ service_mode' = service_mode)
  BY DEF NoPass
<1> QED BY <1>5, <1>6, <1>7, <1>8, <1>9, <1>10, <1>11, <1>12, <1>13

-----------------------------------------------------------------------------
(* The invariant, and what follows from it.                              *)
ListInv == InTurn /\ Links /\ Ranges

LEMMA LinksKept ==
  ASSUME ListInv, "reuse" \notin Departures, Next
  PROVE  Links'
<1>0. InTurn /\ Links /\ Ranges /\ FilesIn
  BY DEF ListInv, Ranges
<1>1. ASSUME Quiet PROVE Links'
  BY <1>0, <1>1, QuietLinks DEF Quiet
<1>2. CASE Client
  <2>1. CASE \E p \in {"tail", "head", "mark"} : QueueWindow(p)
    <3>1. PICK p \in Positions : QueueWindow(p)
      BY <2>1 DEF Positions
    <3> QED BY <1>0, <3>1, WindowComes DEF QueueWindow, timerVars, fileVars
  <2>2. CASE \E gone \in SUBSET {e \in ToSet(Queue) : event[e].kind = "window"} : DeleteEvents(gone)
    BY <1>0, <2>2, DeleteEventsLinks
  <2>3. CASE (\E flags \in Flags : DoOneEvent(flags)) \/ ServiceAll
    BY <1>0, <1>1, <2>3, QuietCalls
  <2>4. CASE \/ \E ms \in Time : CreateTimer(ms)
             \/ \E i \in DOMAIN timers : DeleteTimer(i)
             \/ DoWhenIdle
             \/ \E same \in SUBSET {h.id : h \in ToSet(idles)} : CancelIdle(same)
             \/ \E fd \in Fds, mask \in SUBSET Dirs : CreateFile(fd, mask)
             \/ \E fd \in Fds : DeleteFile(fd)
             \/ Tick
    BY <1>0, <1>1, <2>4, QuietClient
  <2> QED BY <1>2, <2>1, <2>2, <2>3, <2>4 DEF Client
<1>3. CASE Tick
  BY <1>0, <1>1, <1>3, QuietClient
<1>4. CASE \/ ServeNothing \/ Setup \/ WaitEnds \/ FilesQueued \/ CheckQueuesNothing
           \/ \E fd \in Fds, types \in SUBSET Dirs : FileReady(fd, types)
  BY <1>0, <1>1, <1>4, QuietRounds
<1>5. CASE RunTimer \/ DrainEnds \/ CodeReturns \/ BeginPass \/ RunIdle \/ PassEnds \/ NoPass
  BY <1>0, <1>1, <1>5, QuietHandlers
<1>6. CASE ServeWindow \/ ServeTimers \/ ServeFile
  BY <1>0, <1>6, ServeWindowLinks, ServeTimersLinks, ServeFileLinks DEF FilesIn
<1>7. CASE Refuse \/ Handled
  BY <1>0, <1>7, RefuseLinks, HandledLinks
<1>8. CASE CheckQueues \/ \E fd \in Fds : QueueFile(fd)
  BY <1>0, <1>8, CheckQueuesLinks, QueueFileLinks DEF FilesIn
<1>9. CASE Foreign
  <2>1. /\ queue_event(New("window", Nil), "tail") /\ "tail" \in Positions /\ Running
        /\ SetTop([Top EXCEPT !.pc = "check", !.result = 1, !.until = 0])
        /\ UNCHANGED <<timer_pending, files, service_mode>>
    BY <1>9 DEF Foreign, At, timerVars, fileVars, Positions
  <2>2. GoesOn
    <3>1. PICK X : Top \in LoopOf(X)
      BY <1>0, <2>1, TopIs
    <3>2. PICK f : f = [Top EXCEPT !.pc = "check", !.result = 1, !.until = 0]
      OBVIOUS
    <3>3. ServesAs(f, Top)
      BY <3>1, <3>2 DEF ServesAs, LoopOf
    <3> QED BY <2>1, <3>2, <3>3 DEF GoesOn
  <2> QED BY <1>0, <2>1, <2>2, WindowComes
<1> QED BY <1>2, <1>3, <1>4, <1>5, <1>6, <1>7, <1>8, <1>9 DEF Next, LoopStep

LEMMA ListInvKept ==
  ASSUME ListInv, "reuse" \notin Departures, [Next]_vars
  PROVE  ListInv'
<1>0. InTurn /\ Links /\ Ranges /\ Stacked
  BY DEF ListInv, Links
<1>1. InTurn'
  BY <1>0, TurnsKept
<1>2. CASE Next
  <2>1. Links'
    BY <1>2, LinksKept
  <2>2. Ranges'
    BY <1>0, <1>2, CountsKept, DepthKept, TimesKept, FilesKept DEF Ranges
  <2> QED BY <1>1, <2>1, <2>2 DEF ListInv
<1>3. CASE UNCHANGED vars
  <2>1. /\ UNCHANGED queueVars /\ UNCHANGED <<timer_pending, files, stack, service_mode>>
        /\ UNCHANGED <<timers, last_timer_id, signalled, made, now, uses>>
    BY <1>3 DEF vars, timerVars, fileVars
  <2>2. Quiet
    BY <1>0, <2>1 DEF Quiet, NoneQueued, Links
  <2>3. Links'
    BY <1>0, <2>2, QuietLinks DEF Quiet
  <2>4. Ranges'
    BY <1>0, <2>1 DEF Ranges, Counts, Depth, TimesIn, FilesIn
  <2> QED BY <1>1, <2>3, <2>4 DEF ListInv
<1> QED BY <1>2, <1>3

LEMMA ListInvBegins == Init => ListInv
<1> SUFFICES ASSUME Init PROVE ListInv
  OBVIOUS
<1>1. /\ event = [e \in Events |-> Free] /\ first = Nil /\ last = Nil /\ marker = Nil /\ event_count = 0
      /\ timers = <<>> /\ timer_pending = FALSE /\ files = [d \in Fds |-> Nil] /\ signalled = FALSE
      /\ service_mode = "none" /\ stack = <<>> /\ made = 0 /\ now = 0 /\ uses \in Uses
  BY DEF Init
<1>2. InTurn
  BY TurnsBegin
<1>3. Queue = <<>>
  BY <1>1 DEF Queue, From
<1>4. \A e \in Events : event[e] = Free /\ event[e].kind = "free" /\ ~event[e].armed
  BY <1>1 DEF Free
<1>5. OneList
  <2>1. Free \in Places
    BY DEF Free, Places
  <2>2. event \in Lists
    BY <1>1, <2>1 DEF Lists
  <2>3. ToSet(Queue) = {}
    BY <1>3 DEF ToSet
  <2>4. ListOf(event, first, Queue)
    BY <1>1, <1>3 DEF ListOf
  <2> QED BY <1>1, <1>3, <1>4, <2>2, <2>3, <2>4 DEF OneList
<1>6. Held /\ Stacked
  <2>1. stack \in Seq({}) /\ Len(stack) = 0
    BY <1>1
  <2> QED BY <2>1 DEF Held, Stacked
<1>7. Counted
  BY <1>1, <1>3, PutAsideNone DEF Counted
<1>8. Flagged
  BY <1>1, <1>4 DEF Flagged, ArmedTimer
<1>9. Links
  BY <1>1, <1>5, <1>6, <1>7, <1>8 DEF Links, Modes
<1>10. Ranges
  <2>1. uses.most \in Nat /\ MaxTime \in Nat /\ MaxLoops \in Nat
    BY <1>1, BoundsAssumption
  <2>2. Counts
    <3>1. uses \in Uses
      BY <1>1
    <3>2. made = 0
      BY <1>1
    <3>3. made <= uses.most
      BY <2>1, <3>2
    <3>4. now \in Time
      BY <1>1, <2>1 DEF Time
    <3>5. signalled = FALSE
      BY <1>1
    <3>6. signalled \in BOOLEAN
      BY <3>5
    <3> QED BY <3>1, <3>3, <3>4, <3>6 DEF Counts
  <2>3. Depth /\ TimesIn
    BY <1>1, <2>1 DEF Depth, TimesIn
  <2>4. FilesIn
    BY <1>1 DEF FilesIn
  <2> QED BY <2>2, <2>3, <2>4 DEF Ranges
<1> QED BY <1>2, <1>9, <1>10 DEF ListInv
(*************************************************************************)
(* The inductive invariant says more than what the runs check.           *)
(*************************************************************************)
LEMMA ListInvTypes == ListInv => TypeOK
<1> SUFFICES ASSUME ListInv PROVE TypeOK
  OBVIOUS
<1>1. /\ Counting /\ OneList /\ Held /\ Stacked /\ Counted /\ service_mode \in Modes
      /\ timer_pending \in BOOLEAN /\ Counts /\ Depth /\ TimesIn /\ FilesIn
  BY DEF ListInv, InTurn, Links, Ranges
<1>2. event \in [Events -> [kind : Kinds \cup {"free"}, fd : Fds \cup {Nil},
                            armed : BOOLEAN, next : Events \cup {Nil}]]
  BY <1>1 DEF OneList, Lists, Places
<1>3. {first, last, marker} \subseteq Events \cup {Nil}
  BY <1>1, QueueIs DEF OneList, ListOf
<1>4. event_count \in Int
  BY <1>1 DEF Counted
<1>5. \A t \in ToSet(timers) : t.time \in Time /\ t.token \in 1 .. last_timer_id
  <2>1. timers \in Seq(Timer)
    BY <1>1 DEF Counting
  <2>2. ASSUME NEW t \in ToSet(timers) PROVE \E i \in 1 .. Len(timers) : t = timers[i]
    BY <2>1, <2>2 DEF ToSet
  <2> QED BY <1>1, <2>2 DEF TimesIn
<1>6. \A h \in ToSet(idles) : h.generation \in 0 .. idle_generation
  <2>1. idles \in Seq(Idler) /\ idle_generation \in Nat
    BY <1>1 DEF Counting
  <2>2. ASSUME NEW h \in ToSet(idles) PROVE \E i \in 1 .. Len(idles) : h = idles[i]
    BY <2>1, <2>2 DEF ToSet
  <2>3. \A i \in 1 .. Len(idles) : idles[i].generation \in Nat /\ idles[i].generation <= idle_generation
    <3>1. \A i \in 1 .. Len(idles) : idles[i] \in Idler
      BY <2>1
    <3> QED BY <1>1, <3>1 DEF Counting, Idler
  <2> QED BY <2>1, <2>2, <2>3
<1>7. \A fd \in Fds : files[fd] = Nil \/ files[fd] \in
           [mask : SUBSET Dirs, ready : SUBSET Dirs, queued : BOOLEAN, enabled : SUBSET Dirs]
  BY <1>1 DEF FilesIn, Files
<1>8. service_mode \in {"none", "all"}
  BY <1>1 DEF Modes
<1>9. made \in 0 .. uses.most /\ now \in Time /\ signalled \in BOOLEAN
  <2>1. uses.most \in Nat /\ made \in Nat /\ made <= uses.most
    BY <1>1, BoundsAssumption DEF Counts, Counting
  <2>2. made \in 0 .. uses.most
    BY <2>1
  <2> QED BY <1>1, <2>2 DEF Counts
<1> QED BY <1>1, <1>2, <1>3, <1>4, <1>5, <1>6, <1>7, <1>8, <1>9 DEF TypeOK, Depth

LEMMA ListInvAgrees == ListInv => ListAgrees
<1> SUFFICES ASSUME ListInv PROVE ListAgrees
  OBVIOUS
<1>1. TypeOK
  BY ListInvTypes
<1>2. OneList /\ Counted /\ Flagged
  BY DEF ListInv, Links
<1>3. ToSet(Queue) = {e \in Events : event[e] # Free}
  BY <1>2, QueueIs
<1>4. \A e \in Events : event[e].armed => e \in ToSet(Queue)
  BY <1>3 DEF Free
<1>5. timer_pending <=> \E e \in ToSet(Queue) : event[e].kind = "timer" /\ event[e].armed
  BY <1>2, <1>3, <1>4 DEF Flagged, ArmedTimer
<1>6. \A fd \in Fds : files[fd] # Nil /\ files[fd].queued =>
         \E e \in ToSet(Queue) : event[e].kind = "file" /\ event[e].fd = fd /\ event[e].armed
  BY <1>2, <1>4 DEF Flagged, ArmedFile
<1>7. /\ last = IF Queue = <<>> THEN Nil ELSE Last(Queue)
      /\ marker \in ToSet(Queue) \cup {Nil}
  BY <1>2 DEF OneList
<1>8. event_count + PutAside(stack) = Len(Queue)
  BY <1>2 DEF Counted
<1> QED BY <1>1, <1>3, <1>5, <1>6, <1>7, <1>8 DEF ListAgrees

LEMMA ListInvOutside == ListInv => NotInsideItself
<1> SUFFICES ASSUME ListInv PROVE NotInsideItself
  OBVIOUS
<1>1. Held /\ Stacked
  BY DEF ListInv, Links
<1>2. DOMAIN stack = 1 .. Len(stack)
  BY <1>1 DEF Stacked
<1> QED BY <1>1, <1>2 DEF Held, NotInsideItself

(* For every storage, every set of descriptors and every bound: the      *)
(* links of alloc_event's storage and the pointers the notifier keeps    *)
(* into it (tk/notifier.rs, first_event, last_event, marker_event) stay  *)
(* one list through Tcl_QueueEvent, Tcl_DeleteEvents and the unlinking   *)
(* after a handler, wherever the handlers that run call them; the count  *)
(* is its length; and timer_pending and event_queued stand for an event  *)
(* that will be served.  It is assumed that alloc_event does not hand    *)
(* out, while a handler runs, the storage of its event that the handler  *)
(* had deleted: the departure `reuse`.                                   *)
THEOREM ListHolds ==
  ASSUME "reuse" \notin Departures
  PROVE  Spec => []ListAgrees
<1>1. Init => ListInv
  BY ListInvBegins
<1>2. ListInv /\ [Next]_vars => ListInv'
  BY ListInvKept
<1>3. ListInv => ListAgrees
  BY ListInvAgrees
<1> QED BY <1>1, <1>2, <1>3, PTL DEF Spec

(* And with any number of loops inside each other: service_event takes   *)
(* the procedure out of an event before it calls it, so that a loop the  *)
(* handler enters, Tcl_DoOneEvent or Tcl_ServiceAll, never calls it a    *)
(* second time before the first call returned.                           *)
THEOREM NeverInsideItself ==
  ASSUME "reuse" \notin Departures
  PROVE  Spec => []NotInsideItself
<1>1. Init => ListInv
  BY ListInvBegins
<1>2. ListInv /\ [Next]_vars => ListInv'
  BY ListInvKept
<1>3. ListInv => NotInsideItself
  BY ListInvOutside
<1> QED BY <1>1, <1>2, <1>3, PTL DEF Spec

-----------------------------------------------------------------------------
(* The list implements the queue. What is kept stays in order.           *)
InOrder(r, q) ==
  \A i, j \in 1 .. Len(r) : i < j => \E k, l \in 1 .. Len(q) : k < l /\ q[k] = r[i] /\ q[l] = r[j]

LEMMA KeepingInOrder ==
  ASSUME NEW S, NEW s \in Seq(S), NEW these
  PROVE  InOrder(Keeping(s, these), s)
<1> DEFINE T == {t \in Seq(S) : InOrder(Keeping(t, these), t)}
<1>1. <<>> \in T
  <2>1. InOrder(Keeping(<<>>, these), <<>>)
    BY KeepingNone DEF InOrder
  <2> QED BY <2>1
<1>2. ASSUME NEW t \in Seq(S), NEW x \in S, t \in T PROVE Append(t, x) \in T
  <2>1. PICK k : k = Keeping(t, these)
    OBVIOUS
  <2>2. k \in Seq(S) /\ ToSet(k) = ToSet(t) \cap these /\ InOrder(k, t)
    BY <1>2, <2>1, KeepingIs
  <2>3. PICK u : u = Append(t, x)
    OBVIOUS
  <2>4. /\ u \in Seq(S) /\ Len(u) = Len(t) + 1 /\ Len(t) \in Nat /\ u[Len(t) + 1] = x
        /\ \A i \in 1 .. Len(t) : u[i] = t[i] /\ i \in 1 .. Len(u)
    BY <2>3
  <2>5. InOrder(k, u)
    BY <2>2, <2>4 DEF InOrder
  <2>6. PICK h : h = Append(k, x)
    OBVIOUS
  <2>7. /\ Len(h) = Len(k) + 1 /\ Len(k) \in Nat /\ h[Len(k) + 1] = x
        /\ \A i \in 1 .. Len(k) : h[i] = k[i]
    BY <2>2, <2>6
  <2>8. InOrder(h, u)
    <3> SUFFICES ASSUME NEW i \in 1 .. Len(h), NEW j \in 1 .. Len(h), i < j
                 PROVE  \E a, b \in 1 .. Len(u) : a < b /\ u[a] = h[i] /\ u[b] = h[j]
      BY DEF InOrder
    <3>1. CASE j <= Len(k)
      <4>1. i \in 1 .. Len(k) /\ j \in 1 .. Len(k)
        BY <2>7, <3>1
      <4>2. PICK a, b \in 1 .. Len(u) : a < b /\ u[a] = k[i] /\ u[b] = k[j]
        BY <2>5, <4>1 DEF InOrder
      <4> QED BY <2>7, <4>1, <4>2
    <3>2. CASE j = Len(k) + 1
      <4>1. i \in 1 .. Len(k) /\ h[j] = x
        BY <2>7, <3>2
      <4>2. k[i] \in ToSet(t)
        BY <2>2, <4>1, ToSetIs
      <4>3. PICK a \in 1 .. Len(t) : t[a] = k[i]
        BY <4>2, ToSetIs
      <4>4. a < Len(t) + 1 /\ a \in 1 .. Len(u) /\ Len(t) + 1 \in 1 .. Len(u)
        BY <2>4, <4>3
      <4> QED BY <2>4, <2>7, <4>1, <4>3, <4>4
    <3>3. j <= Len(k) \/ j = Len(k) + 1
      BY <2>7, SMTT(30)
    <3> QED BY <3>1, <3>2, <3>3
  <2>9. Keeping(Append(t, x), these) = IF x \in these THEN h ELSE k
    BY <2>1, <2>6, KeepingAppend
  <2> QED BY <2>3, <2>4, <2>5, <2>8, <2>9
<1> HIDE DEF T
<1>3. s \in T
  BY <1>1, <1>2, Longer
<1> QED BY <1>3 DEF T

(* The front part of what is kept is what is kept of the front part.     *)
LEMMA KeepingFront ==
  ASSUME NEW S, NEW q \in Seq(S), Different(q), NEW m \in 0 .. Len(q), NEW these,
         NEW p \in Seq(S), Len(p) = m, \A k \in 1 .. m : p[k] = q[k],
         NEW r, r = Keeping(q, these), NEW a, a = Keeping(p, these),
         NEW g \in 0 .. Len(r), a = <<>> => g = 0, a # <<>> => g > 0 /\ r[g] = a[Len(a)]
  PROVE  \A i \in 1 .. Len(r) : i <= g <=> \E k \in 1 .. m : q[k] = r[i]
<1>1. /\ r \in Seq(S) /\ ToSet(r) = ToSet(q) \cap these /\ InOrder(r, q) /\ Different(r) /\ Len(r) \in Nat
      /\ a \in Seq(S) /\ ToSet(a) = ToSet(p) \cap these /\ InOrder(a, p) /\ Len(a) \in Nat
  <2>1. r \in Seq(S) /\ ToSet(r) = ToSet(q) \cap these
    BY KeepingIs
  <2>2. a \in Seq(S) /\ ToSet(a) = ToSet(p) \cap these
    BY KeepingIs
  <2>3. InOrder(r, q) /\ InOrder(a, p)
    BY KeepingInOrder
  <2>4. Different(r)
    BY KeepingDifferent
  <2> QED BY <2>1, <2>2, <2>3, <2>4
<1>2. /\ \A k \in 1 .. m : k \in 1 .. Len(q) /\ p[k] \in ToSet(p)
      /\ \A i \in 1 .. Len(r) : r[i] \in ToSet(r)
      /\ \A x \in ToSet(a) : \E j \in 1 .. Len(a) : a[j] = x
      /\ \A j \in 1 .. Len(a) : a[j] \in ToSet(a)
      /\ \A x \in ToSet(p) : \E k \in 1 .. m : p[k] = x
      /\ Len(q) \in Nat /\ m \in Nat
  <2>1. \A k \in 1 .. m : k \in 1 .. Len(q)
    OBVIOUS
  <2>2. /\ \A k \in 1 .. m : p[k] \in ToSet(p)
        /\ \A x \in ToSet(p) : \E k \in 1 .. m : p[k] = x
    BY ToSetIs
  <2>3. /\ \A x \in ToSet(a) : \E j \in 1 .. Len(a) : a[j] = x
        /\ \A j \in 1 .. Len(a) : a[j] \in ToSet(a)
    BY <1>1, ToSetIs
  <2>4. \A i \in 1 .. Len(r) : r[i] \in ToSet(r)
    BY <1>1, ToSetIs
  <2> QED BY <2>1, <2>2, <2>3, <2>4
<1>3. CASE a = <<>>
  <2>1. ToSet(p) \cap these = {} /\ g = 0
    BY <1>1, <1>3 DEF ToSet
  <2>2. ASSUME NEW i \in 1 .. Len(r), NEW k \in 1 .. m, q[k] = r[i] PROVE FALSE
    <3>1. p[k] = r[i] /\ r[i] \in these /\ p[k] \in ToSet(p)
      BY <1>1, <1>2, <2>2
    <3> QED BY <2>1, <3>1
  <2> QED BY <2>1, <2>2
<1>4. CASE a # <<>>
  <2>1. Len(a) \in 1 .. Len(a) /\ g \in 1 .. Len(r) /\ r[g] = a[Len(a)]
    BY <1>1, <1>4
  <2>2. PICK z \in 1 .. m : p[z] = a[Len(a)] /\ q[z] = r[g]
    BY <1>1, <1>2, <2>1
  <2>3. ASSUME NEW i \in 1 .. Len(r), i <= g PROVE \E k \in 1 .. m : q[k] = r[i]
    <3>1. CASE i = g
      BY <2>2, <3>1
    <3>2. CASE i < g
      <4>1. PICK k, l \in 1 .. Len(q) : k < l /\ q[k] = r[i] /\ q[l] = r[g]
        BY <1>1, <2>1, <3>2 DEF InOrder
      <4>2. l = z
        BY <1>2, <2>2, <4>1 DEF Different
      <4>3. k \in 1 .. m
        BY <4>1, <4>2
      <4> QED BY <4>1, <4>3
    <3> QED BY <2>1, <2>3, <3>1, <3>2
  <2>4. ASSUME NEW i \in 1 .. Len(r), NEW k \in 1 .. m, q[k] = r[i], ~(i <= g) PROVE FALSE
    <3>1. PICK y, l \in 1 .. Len(q) : y < l /\ q[y] = r[g] /\ q[l] = r[i]
      <4>1. g < i
        BY <2>1, <2>4
      <4> QED BY <1>1, <2>1, <4>1 DEF InOrder
    <3>2. y = z /\ l = k
      BY <1>2, <2>2, <2>4, <3>1 DEF Different
    <3>3. PICK j \in 1 .. Len(a) : a[j] = r[i]
      <4>1. p[k] = r[i] /\ r[i] \in these /\ p[k] \in ToSet(p)
        BY <1>1, <1>2, <2>4
      <4> QED BY <1>1, <1>2, <4>1
    <3>4. CASE j = Len(a)
      <4>1. r[i] = r[g]
        BY <2>1, <3>3, <3>4
      <4>2. i = g
        BY <1>1, <2>1, <4>1 DEF Different
      <4> QED BY <2>1, <2>4, <4>2
    <3>5. CASE j < Len(a)
      <4>0. PICK v, w \in 1 .. Len(p) : v < w /\ p[v] = a[j] /\ p[w] = a[Len(a)]
        <5>1. InOrder(a, p) /\ j \in 1 .. Len(a) /\ Len(a) \in 1 .. Len(a) /\ j < Len(a)
          BY <1>1, <2>1, <3>3, <3>5
        <5> QED BY <5>1 DEF InOrder
      <4>1. v \in 1 .. m /\ w \in 1 .. m /\ v < w /\ p[v] = a[j] /\ p[w] = a[Len(a)]
        BY <4>0
      <4>2. q[v] = q[k] /\ q[w] = q[z]
        BY <2>2, <2>4, <3>3, <4>1
      <4>3. v = k /\ w = z
        BY <1>2, <4>2 DEF Different
      <4> QED BY <3>1, <3>2, <4>1, <4>3
    <3> QED BY <1>1, <3>3, <3>4, <3>5
  <2> QED BY <2>3, <2>4
<1> QED BY <1>3, <1>4

(* Where the mark gets to.                                               *)
LEMMA MarkedBecomes ==
  ASSUME OneList', NEW r, r = Queue', NEW g \in 0 .. Len(r),
         marker' = Nil => g = 0, marker' # Nil => g > 0 /\ r[g] = marker'
  PROVE  Marked' = g
<1>1. r \in Seq(Events) /\ Len(r) \in Nat /\ \A i, j \in 1 .. Len(r) : r[i] = r[j] => i = j
  BY DEF OneList, ListOf
<1>2. Marked' = IF marker' = Nil THEN 0 ELSE CHOOSE i \in DOMAIN r : r[i] = marker'
  BY DEF Marked
<1>3. DOMAIN r = 1 .. Len(r)
  BY <1>1
<1>4. CASE marker' = Nil
  BY <1>2, <1>4
<1>5. CASE marker' # Nil
  <2>1. g \in 1 .. Len(r) /\ r[g] = marker'
    BY <1>1, <1>5
  <2>2. PICK c : c = CHOOSE i \in DOMAIN r : r[i] = marker'
    OBVIOUS
  <2>3. c \in 1 .. Len(r) /\ r[c] = marker'
    BY <1>3, <2>1, <2>2
  <2> QED BY <1>1, <1>2, <1>5, <2>1, <2>2, <2>3
<1> QED BY <1>4, <1>5

LEMMA QueueStays ==
  ASSUME OneList, OneList', Queue' = Queue, marker' = marker
  PROVE  Marked' = Marked
<1>1. PICK r : r = Queue
  OBVIOUS
<1>2. PICK g : g = Marked
  OBVIOUS
<1>3. /\ g \in 0 .. Len(r) /\ (marker = Nil <=> g = 0) /\ (marker # Nil => r[g] = marker)
  BY <1>1, <1>2, MarkedIs
<1>4. marker' # Nil => g > 0 /\ r[g] = marker'
  BY <1>3
<1> QED BY <1>1, <1>2, <1>3, <1>4, MarkedBecomes
(* An event comes as the queue says.                                     *)
LEMMA PutsIt ==
  ASSUME OneList, NEW v \in Places, v.kind # "free", v.next = Nil,
         NEW position \in Positions, queue_event(v, position)
  PROVE  Abstract!Next
<1>1. PICK e \in Events : e = Storage /\ Unused(e)
  BY DEF queue_event, Storage
<1>2. event[e] = Free
  BY <1>1 DEF Unused
<1>3. PICK q : q = Queue
  OBVIOUS
<1>4. PICK m : m = Marked
  OBVIOUS
<1>5. /\ q \in Seq(Events) /\ Len(q) \in Nat /\ m \in 0 .. Len(q) /\ e \notin ToSet(q)
      /\ (marker = Nil <=> m = 0) /\ (marker # Nil => q[m] = marker) /\ e # Nil
  <2>1. q \in Seq(Events) /\ Len(q) \in Nat /\ ToSet(q) = {x \in Events : event[x] # Free}
    BY <1>3, QueueIs
  <2>2. m \in 0 .. Len(q) /\ (marker = Nil <=> m = 0) /\ (marker # Nil => q[m] = marker)
    BY <1>3, <1>4, MarkedIs
  <2> QED BY <1>2, <2>1, <2>2, EventsAssumption
<1>6. ASSUME NEW p \in 1 .. Len(q) + 1, Came(e, v, p)
      PROVE  /\ Queue' = InsertAt(q, p, e) /\ OneList' /\ e \in ToSet(Queue') \ ToSet(Queue)
             /\ Len(InsertAt(q, p, e)) = Len(q) + 1
             /\ \A i \in 1 .. Len(q) + 1 :
                  InsertAt(q, p, e)[i] = IF i < p THEN q[i] ELSE IF i = p THEN e ELSE q[i - 1]
  <2>1. Queue' = InsertAt(q, p, e) /\ OneList'
    BY <1>3, <1>6 DEF Came
  <2>2. PICK r : r = InsertAt(q, p, e)
    OBVIOUS
  <2>3. /\ r \in Seq(Events) /\ Len(r) = Len(q) + 1
        /\ \A i \in 1 .. Len(q) + 1 : r[i] = IF i < p THEN q[i] ELSE IF i = p THEN e ELSE q[i - 1]
    <3>1. /\ InsertAt(q, p, e) \in Seq(Events) /\ Len(InsertAt(q, p, e)) = Len(q) + 1
          /\ \A i \in 1 .. Len(q) + 1 :
               InsertAt(q, p, e)[i] = IF i < p THEN q[i] ELSE IF i = p THEN e ELSE q[i - 1]
      BY <1>5, Inserted
    <3> QED BY <2>2, <3>1
  <2>4. r[p] \in ToSet(r) /\ r[p] = e
    <3>1. p \in 1 .. Len(r)
      BY <2>3
    <3>2. r[p] \in ToSet(r)
      BY <2>3, <3>1, ToSetIs
    <3> QED BY <1>5, <2>3, <3>2
  <2> QED BY <1>3, <1>5, <2>1, <2>2, <2>3, <2>4
<1>7. CASE position = "tail"
  <2>1. QueueTail(e, v)
    BY <1>1, <1>7 DEF queue_event
  <2>2. Came(e, v, Len(q) + 1) /\ marker' = marker
    BY <1>2, <1>3, <2>1, TailComes DEF QueueTail
  <2>3. PICK r : r = InsertAt(q, Len(q) + 1, e)
    OBVIOUS
  <2>4. /\ Queue' = r /\ OneList' /\ e \in ToSet(Queue') \ ToSet(Queue)
        /\ Len(r) = Len(q) + 1 /\ \A i \in 1 .. Len(q) : r[i] = q[i]
    <3>1. Len(q) + 1 \in 1 .. Len(q) + 1
      BY <1>5
    <3> QED BY <1>5, <1>6, <2>2, <2>3, <3>1
  <2>5. m \in 0 .. Len(r) /\ (marker' = Nil => m = 0) /\ (marker' # Nil => m > 0 /\ r[m] = marker')
    BY <1>5, <2>2, <2>4
  <2>6. Marked' = m
    BY <2>4, <2>5, MarkedBecomes
  <2>7. Abstract!Put(e, "tail")
    BY <1>3, <1>4, <1>5, <2>3, <2>4, <2>6 DEF Abstract!Put, Abstract!ToSet, Abstract!InsertAt, ToSet, InsertAt
  <2> QED BY <2>4, <2>7 DEF Abstract!Next, Abstract!ToSet, ToSet
<1>8. CASE position = "head"
  <2>1. QueueHead(e, v)
    BY <1>1, <1>8 DEF queue_event
  <2>2. Came(e, v, 1) /\ marker' = marker
    BY <1>2, <2>1, HeadComes DEF QueueHead
  <2>3. PICK r : r = InsertAt(q, 1, e)
    OBVIOUS
  <2>4. /\ Queue' = r /\ OneList' /\ e \in ToSet(Queue') \ ToSet(Queue)
        /\ Len(r) = Len(q) + 1 /\ \A i \in 1 .. Len(q) : r[i + 1] = q[i]
    <3>1. 1 \in 1 .. Len(q) + 1
      BY <1>5
    <3>2. /\ Queue' = r /\ OneList' /\ e \in ToSet(Queue') \ ToSet(Queue) /\ Len(r) = Len(q) + 1
          /\ \A i \in 1 .. Len(q) + 1 : r[i] = IF i < 1 THEN q[i] ELSE IF i = 1 THEN e ELSE q[i - 1]
      BY <1>6, <2>2, <2>3, <3>1
    <3>3. ASSUME NEW i \in 1 .. Len(q) PROVE r[i + 1] = q[i]
      <4>1. i + 1 \in 1 .. Len(q) + 1 /\ ~(i + 1 < 1) /\ i + 1 # 1 /\ (i + 1) - 1 = i
        BY <1>5
      <4> QED BY <3>2, <4>1
    <3> QED BY <3>2, <3>3
  <2>5. PICK g : g = IF m > 0 THEN m + 1 ELSE m
    OBVIOUS
  <2>6. g \in 0 .. Len(r) /\ (marker' = Nil => g = 0) /\ (marker' # Nil => g > 0 /\ r[g] = marker')
    BY <1>5, <2>2, <2>4, <2>5
  <2>7. Marked' = g
    BY <2>4, <2>6, MarkedBecomes
  <2>8. Abstract!Put(e, "head")
    BY <1>3, <1>4, <1>5, <2>3, <2>4, <2>5, <2>7 DEF Abstract!Put, Abstract!ToSet, Abstract!InsertAt, ToSet, InsertAt
  <2> QED BY <2>4, <2>8 DEF Abstract!Next, Abstract!ToSet, ToSet
<1>9. CASE position = "mark"
  <2>1. QueueMark(e, v)
    BY <1>1, <1>9 DEF queue_event
  <2>2. Came(e, v, m + 1) /\ marker' = e
    BY <1>2, <1>4, <2>1, MarkComes DEF QueueMark
  <2>3. PICK r : r = InsertAt(q, m + 1, e)
    OBVIOUS
  <2>4. /\ Queue' = r /\ OneList' /\ e \in ToSet(Queue') \ ToSet(Queue)
        /\ Len(r) = Len(q) + 1 /\ r[m + 1] = e /\ m + 1 \in 1 .. Len(q) + 1
    <3>1. m + 1 \in 1 .. Len(q) + 1
      BY <1>5
    <3> QED BY <1>6, <2>2, <2>3, <3>1
  <2>5. m + 1 \in 0 .. Len(r) /\ (marker' = Nil => m + 1 = 0) /\ (marker' # Nil => m + 1 > 0 /\ r[m + 1] = marker')
    BY <1>5, <2>2, <2>4
  <2>6. PICK g : g = m + 1
    OBVIOUS
  <2>7. g \in 0 .. Len(r) /\ (marker' = Nil => g = 0) /\ (marker' # Nil => g > 0 /\ r[g] = marker')
    BY <2>5, <2>6
  <2>8. Marked' = g
    BY <2>4, <2>7, MarkedBecomes
  <2>9. Abstract!Put(e, "mark")
    BY <1>3, <1>4, <1>5, <2>3, <2>4, <2>6, <2>8 DEF Abstract!Put, Abstract!ToSet, Abstract!InsertAt, ToSet, InsertAt
  <2> QED BY <2>4, <2>9 DEF Abstract!Next, Abstract!ToSet, ToSet
<1> QED BY <1>7, <1>8, <1>9 DEF Positions

(* What the queue says of a departure.                                   *)
Departs(q, m, r, g) ==
  /\ ToSet(r) \subseteq ToSet(q) /\ InOrder(r, q)
  /\ g \in 0 .. Len(r)
  /\ \A i \in 1 .. Len(r) : i <= g <=> \E k \in 1 .. m : q[k] = r[i]

LEMMA DepartIs ==
  ASSUME NEW q \in Seq(Events), NEW r \in Seq(Events), NEW m, NEW g, Departs(q, m, r, g),
         q = Queue, m = Marked, r = Queue', g = Marked'
  PROVE  Abstract!Depart
<1>1. Departs(Queue, Marked, Queue', Marked')
  BY Zenon
<1> QED BY <1>1, Zenon DEF Departs, InOrder, Abstract!Depart, Abstract!ToSet, ToSet

(* An event that is over goes from wherever it is.                       *)
LEMMA UnlinkDeparts ==
  ASSUME OneList, NEW e \in Events, e \in ToSet(Queue), Unlink(e)
  PROVE  Abstract!Depart
<1>1. PICK i \in 1 .. Len(Queue) : Queue[i] = e /\ Queue' = RemoveAt(Queue, i)
  BY Unlinked
<1>2. OneList'
  BY Unlinked
<1>3. PICK q : q = Queue
  OBVIOUS
<1>4. PICK m : m = Marked
  OBVIOUS
<1>5. PICK r : r = RemoveAt(q, i)
  OBVIOUS
<1>6. /\ q \in Seq(Events) /\ Len(q) \in Nat /\ m \in 0 .. Len(q) /\ i \in 1 .. Len(q) /\ q[i] = e
      /\ DOMAIN q = 1 .. Len(q)
      /\ \A j \in 1 .. Len(q) : q[j] # Nil
      /\ \A j, k \in 1 .. Len(q) : q[j] = q[k] => j = k
      /\ (marker = Nil <=> m = 0) /\ (marker # Nil => q[m] = marker)
  <2>1. /\ q \in Seq(Events) /\ Len(q) \in Nat /\ DOMAIN q = 1 .. Len(q)
        /\ \A j \in 1 .. Len(q) : q[j] # Nil
        /\ \A j, k \in 1 .. Len(q) : q[j] = q[k] => j = k
    BY <1>3, QueueIs
  <2>2. m \in 0 .. Len(q) /\ (marker = Nil <=> m = 0) /\ (marker # Nil => q[m] = marker)
    BY <1>3, <1>4, MarkedIs
  <2> QED BY <1>1, <1>3, <2>1, <2>2
<1>7. /\ r \in Seq(Events) /\ Len(r) = Len(q) - 1 /\ ToSet(r) \subseteq ToSet(q)
      /\ \A k \in 1 .. Len(q) - 1 : r[k] = IF k < i THEN q[k] ELSE q[k + 1]
  <2>1. q \in Seq(Events) /\ i \in 1 .. Len(q) /\ \A j, k \in 1 .. Len(q) : q[j] = q[k] => j = k
    BY <1>6
  <2>2. /\ r \in Seq(Events) /\ Len(r) = Len(q) - 1
        /\ \A k \in 1 .. Len(q) - 1 : r[k] = IF k < i THEN q[k] ELSE q[k + 1]
        /\ ToSet(r) = ToSet(q) \ {q[i]}
    BY <1>5, <2>1, TakenOut
  <2> QED BY <2>2
<1>8. marker' = IF marker = e THEN IF i = 1 THEN Nil ELSE q[i - 1] ELSE marker
  <2>1. Found(e) = IF i = 1 THEN Nil ELSE q[i - 1]
    BY <1>1, <1>3, FoundBefore
  <2> QED BY <2>1 DEF Unlink, MarkWithout, Found
<1>9. PICK g : g = IF i <= m THEN m - 1 ELSE m
  OBVIOUS
<1>10. g \in 0 .. Len(r) /\ (marker' = Nil => g = 0) /\ (marker' # Nil => g > 0 /\ r[g] = marker')
  <2>1. CASE m < i
    <3>1. marker # e /\ g = m
      BY <1>6, <1>9, <2>1
    <3> QED BY <1>6, <1>7, <1>8, <2>1, <3>1
  <2>2. CASE m = i
    <3>1. marker = e /\ g = i - 1
      BY <1>6, <1>9, <2>2
    <3>2. marker' = IF i = 1 THEN Nil ELSE q[i - 1]
      BY <1>8, <3>1
    <3> QED BY <1>6, <1>7, <2>2, <3>1, <3>2
  <2>3. CASE m > i
    <3>1. marker # e /\ g = m - 1 /\ marker # Nil /\ q[m] = marker
      BY <1>6, <1>9, <2>3
    <3>2. g \in 1 .. Len(q) - 1 /\ ~(g < i) /\ g + 1 = m
      BY <1>6, <2>3, <3>1
    <3>3. r[g] = q[m]
      BY <1>7, <3>2
    <3> QED BY <1>6, <1>7, <1>8, <3>1, <3>2, <3>3
  <2> QED BY <1>6, <2>1, <2>2, <2>3
<1>11. Queue' = r /\ Marked' = g
  BY <1>1, <1>2, <1>3, <1>5, <1>10, MarkedBecomes
<1>12. DOMAIN r = 1 .. Len(r)
  BY <1>7
<1>13. ASSUME NEW j \in 1 .. Len(r), NEW k \in 1 .. Len(r), j < k
       PROVE  \E x, y \in 1 .. Len(q) : x < y /\ q[x] = r[j] /\ q[y] = r[k]
  <2>1. PICK x \in 1 .. Len(q) : x = IF j < i THEN j ELSE j + 1
    BY <1>6, <1>7
  <2>2. PICK y \in 1 .. Len(q) : y = IF k < i THEN k ELSE k + 1
    BY <1>6, <1>7
  <2>3. q[x] = r[j] /\ q[y] = r[k]
    BY <1>7, <2>1, <2>2
  <2>4. x < y
    BY <1>6, <1>7, <1>13, <2>1, <2>2
  <2> QED BY <2>3, <2>4
<1>14. ASSUME NEW j \in 1 .. Len(r) PROVE j <= g <=> \E k \in 1 .. m : q[k] = r[j]
  <2>1. PICK x \in 1 .. Len(q) : x = IF j < i THEN j ELSE j + 1
    BY <1>6, <1>7
  <2>2. q[x] = r[j]
    BY <1>7, <2>1
  <2>3. \A k \in 1 .. m : q[k] = r[j] => k = x
    BY <1>6, <2>2
  <2>4. j <= g <=> x <= m
    BY <1>6, <1>7, <1>9, <2>1
  <2> QED BY <1>6, <2>2, <2>3, <2>4
<1>15. Departs(q, m, r, g)
  BY <1>7, <1>10, <1>13, <1>14 DEF Departs, InOrder
<1> QED BY <1>3, <1>4, <1>6, <1>7, <1>11, <1>15, DepartIs

(* Those a filter names go, and the rest stays as it was.                *)
LEMMA DeletionDeparts ==
  ASSUME OneList, NEW gone \in SUBSET ToSet(Queue), delete_events(gone)
  PROVE  Abstract!Depart
<1>1. PICK q : q = Queue
  OBVIOUS
<1>2. PICK m : m = Marked
  OBVIOUS
<1>3. PICK these : these = Events \ gone
  OBVIOUS
<1>4. PICK r : r = Keeping(q, these)
  OBVIOUS
<1>5. PICK p : p = SubSeq(q, 1, m)
  OBVIOUS
<1>6. PICK a : a = Keeping(p, these)
  OBVIOUS
<1>7. OneList' /\ Queue' = r
  BY <1>1, <1>3, <1>4, Deleted
<1>8. /\ q \in Seq(Events) /\ Len(q) \in Nat /\ m \in 0 .. Len(q) /\ DOMAIN q = 1 .. Len(q) /\ Different(q)
      /\ \A k \in 1 .. Len(q) : q[k] \in Events
  <2>1. /\ q \in Seq(Events) /\ Len(q) \in Nat /\ DOMAIN q = 1 .. Len(q)
        /\ \A k \in 1 .. Len(q) : q[k] \in Events
        /\ \A j, k \in 1 .. Len(q) : q[j] = q[k] => j = k
    BY <1>1, QueueIs
  <2>2. m \in 0 .. Len(q)
    BY <1>1, <1>2, MarkedIs
  <2> QED BY <2>1, <2>2 DEF Different
<1>9. p \in Seq(Events) /\ Len(p) = m /\ \A k \in 1 .. m : p[k] = q[k]
  <2>1. \A k \in 1 .. m : q[k] \in Events
    BY <1>8
  <2>2. /\ SubSeq(q, 1, m) \in Seq(Events)
        /\ Len(SubSeq(q, 1, m)) = IF 1 <= m THEN m - 1 + 1 ELSE 0
        /\ \A k \in 1 .. m - 1 + 1 : SubSeq(q, 1, m)[k] = q[1 + k - 1]
    BY <1>8, <2>1, SubSeqProperties
  <2> QED BY <1>5, <1>8, <2>2
<1>10. /\ r \in Seq(Events) /\ ToSet(r) \subseteq ToSet(q) /\ Different(r) /\ InOrder(r, q)
       /\ a \in Seq(Events) /\ ToSet(a) \subseteq ToSet(r)
  <2>1. r \in Seq(Events) /\ ToSet(r) = ToSet(q) \cap these
    BY <1>4, <1>8, KeepingIs
  <2>2. a \in Seq(Events) /\ ToSet(a) = ToSet(p) \cap these
    BY <1>6, <1>9, KeepingIs
  <2>3. Different(r)
    BY <1>4, <1>8, KeepingDifferent
  <2>4. InOrder(r, q)
    BY <1>4, <1>8, KeepingInOrder
  <2>5. ToSet(p) \subseteq ToSet(q)
    <3>1. \A x \in ToSet(p) : \E k \in 1 .. m : p[k] = x
      BY <1>9, ToSetIs
    <3>2. \A k \in 1 .. Len(q) : q[k] \in ToSet(q)
      BY <1>8, ToSetIs
    <3> QED BY <1>8, <1>9, <3>1, <3>2
  <2> QED BY <2>1, <2>2, <2>3, <2>4, <2>5
<1>11. marker' = IF a = <<>> THEN Nil ELSE Last(a)
  BY <1>1, <1>2, <1>3, <1>5, <1>6 DEF delete_events
<1>12. /\ a # <<>> => Len(a) \in 1 .. Len(a) /\ Last(a) = a[Len(a)] /\ a[Len(a)] \in Events
       /\ \A j \in 1 .. Len(a) : \E i \in 1 .. Len(r) : r[i] = a[j]
  <2>1. a # <<>> => Len(a) \in 1 .. Len(a) /\ Last(a) = a[Len(a)] /\ a[Len(a)] \in Events
    BY <1>10 DEF Last
  <2>2. \A j \in 1 .. Len(a) : a[j] \in ToSet(r)
    BY <1>10, ToSetIs
  <2>3. \A x \in ToSet(r) : \E i \in 1 .. Len(r) : r[i] = x
    BY <1>10, ToSetIs
  <2> QED BY <2>1, <2>2, <2>3
<1>13. PICK g \in 0 .. Len(r) : (a = <<>> => g = 0) /\ (a # <<>> => g > 0 /\ r[g] = a[Len(a)])
  <2>1. Len(r) \in Nat
    BY <1>10
  <2>2. CASE a = <<>>
    BY <2>1, <2>2
  <2>3. CASE a # <<>>
    <3>1. PICK i \in 1 .. Len(r) : r[i] = a[Len(a)]
      BY <1>12, <2>3
    <3>2. i \in 0 .. Len(r) /\ i > 0
      BY <2>1
    <3> QED BY <2>3, <3>1, <3>2
  <2> QED BY <2>2, <2>3
<1>14. (marker' = Nil => g = 0) /\ (marker' # Nil => g > 0 /\ r[g] = marker')
  BY <1>11, <1>12, <1>13, EventsAssumption
<1>15. Marked' = g
  BY <1>7, <1>14, MarkedBecomes
<1>16. \A i \in 1 .. Len(r) : i <= g <=> \E k \in 1 .. m : q[k] = r[i]
  BY <1>4, <1>6, <1>8, <1>9, <1>13, KeepingFront, SMTT(30)
<1>17. Departs(q, m, r, g)
  BY <1>10, <1>13, <1>16 DEF Departs
<1> QED BY <1>1, <1>2, <1>7, <1>8, <1>10, <1>15, <1>17, DepartIs

(* Nothing else touches it: what begins to be served or is refused stays *)
(* where it is.                                                          *)
QueueIdle == Queue' = Queue /\ marker' = marker
Queued    == \E v \in Places, position \in Positions :
                v.kind # "free" /\ v.next = Nil /\ queue_event(v, position)
Departed  == \E gone \in SUBSET ToSet(Queue) : delete_events(gone)
Finished  == \E e \in Events : Unlink(e)

LEMMA QueuesNew ==
  ASSUME NEW kind \in Kinds, NEW fd \in Fds \cup {Nil}, NEW position \in Positions,
         queue_event(New(kind, fd), position)
  PROVE  Queued
<1>1. PICK v : v = New(kind, fd)
  OBVIOUS
<1>2. v \in Places /\ v.kind # "free" /\ v.next = Nil
  BY <1>1, NewIs
<1>3. queue_event(v, position)
  BY <1>1
<1> QED BY <1>2, <1>3 DEF Queued

LEMMA StepsOfTheQueue ==
  ASSUME ListInv, Next
  PROVE  QueueIdle \/ Queued \/ Departed \/ Finished
<1>1. OneList /\ Held /\ Stacked
  BY DEF ListInv, Links
<1>2. ASSUME UNCHANGED queueVars PROVE QueueIdle
  BY <1>2 DEF queueVars, QueueIdle, Queue
<1>3. ASSUME Serving, Chosen # Nil, Starts(Chosen) PROVE QueueIdle
  <2>1. PICK e \in Events : e = Chosen /\ event[e].kind # "free"
    BY <1>1, <1>3, ChosenIs DEF Serving
  <2>2. Queue' = Queue
    <3>1. /\ event' = [event EXCEPT ![e].armed = FALSE] /\ UNCHANGED <<first, last, marker>>
          /\ FALSE \in BOOLEAN
      BY <1>3, <2>1 DEF Starts
    <3> QED BY <1>1, <2>1, <3>1, ArmedSet
  <2> QED BY <1>3, <2>2 DEF Starts, QueueIdle
<1>4. ASSUME Refuse PROVE QueueIdle
  <2>1. PICK e : e = Top.ev
    OBVIOUS
  <2>2. Serves(Top) /\ Top.doing = "window"
    BY <1>1, <1>4, TopServes DEF Refuse
  <2>3. e \in Events /\ event[e].kind # "free"
    <3>1. e \in Events
      BY <2>1, <2>2 DEF Serves
    <3> QED BY <1>1, <1>4, <2>1, <3>1 DEF Refuse, OneList
  <2>4. /\ event' = [event EXCEPT ![e].armed = TRUE] /\ UNCHANGED <<first, last, marker>>
        /\ TRUE \in BOOLEAN
    BY <1>4, <2>1 DEF Refuse
  <2> QED BY <1>1, <2>3, <2>4, ArmedSet DEF QueueIdle
<1>5. ASSUME Handled PROVE Finished
  <2>1. Serves(Top) /\ Top.doing = "over"
    BY <1>1, <1>5, TopServes DEF Handled
  <2>2. Top.ev \in Events
    BY <2>1 DEF Serves
  <2> QED BY <1>5, <2>2 DEF Handled, Finished
<1>7. CASE Client
  <2>1. CASE \E p \in {"tail", "head", "mark"} : QueueWindow(p)
    <3>1. PICK p \in Positions : QueueWindow(p)
      BY <2>1 DEF Positions
    <3>2. queue_event(New("window", Nil), p) /\ "window" \in Kinds
      BY <3>1 DEF QueueWindow, Kinds
    <3> QED BY <3>2, QueuesNew
  <2>2. CASE \E gone \in SUBSET {e \in ToSet(Queue) : event[e].kind = "window"} : DeleteEvents(gone)
    BY <2>2 DEF DeleteEvents, Departed
  <2>3. CASE \/ \E ms \in Time : CreateTimer(ms)
             \/ \E i \in DOMAIN timers : DeleteTimer(i)
             \/ DoWhenIdle
             \/ \E same \in SUBSET {h.id : h \in ToSet(idles)} : CancelIdle(same)
             \/ \E fd \in Fds, mask \in SUBSET Dirs : CreateFile(fd, mask)
             \/ \E fd \in Fds : DeleteFile(fd)
             \/ \E flags \in Flags : DoOneEvent(flags)
             \/ ServiceAll
    BY <1>2, <2>3 DEF CreateTimer, DeleteTimer, DoWhenIdle, CancelIdle, CreateFile, DeleteFile, DoOneEvent, ServiceAll
  <2> QED BY <1>7, <2>1, <2>2, <2>3 DEF Client
<1>8. CASE LoopStep
  <2>1. CASE ServeWindow \/ ServeTimers \/ ServeFile
    BY <1>3, <2>1 DEF ServeWindow, ServeTimers, ServeFile
  <2>2. CASE Handled
    BY <1>5, <2>2
  <2>3. CASE CheckQueues
    <3>1. queue_event(New("timer", Nil), "tail") /\ "timer" \in Kinds /\ "tail" \in Positions
      BY <2>3 DEF CheckQueues, Kinds, Positions
    <3> QED BY <3>1, QueuesNew
  <2>4. CASE \E fd \in Fds : QueueFile(fd)
    <3>1. PICK fd \in Fds : QueueFile(fd)
      BY <2>4
    <3>2. queue_event(New("file", fd), "tail") /\ "file" \in Kinds /\ "tail" \in Positions
      BY <3>1 DEF QueueFile, Kinds, Positions
    <3> QED BY <3>2, QueuesNew
  <2>5. CASE ServeNothing \/ Setup \/ FilesQueued \/ CheckQueuesNothing \/ NoPass \/ DrainEnds \/ PassEnds
    BY <1>2, <2>5 DEF ServeNothing, Setup, FilesQueued, CheckQueuesNothing, NoPass, DrainEnds, PassEnds, Left
  <2>6. CASE RunTimer \/ WaitEnds \/ BeginPass \/ RunIdle
    BY <1>2, <2>6 DEF RunTimer, WaitEnds, BeginPass, RunIdle
  <2> QED BY <1>8, <2>1, <2>2, <2>3, <2>4, <2>5, <2>6 DEF LoopStep
<1>9. CASE CodeReturns \/ Tick \/ \E fd \in Fds, types \in SUBSET Dirs : FileReady(fd, types)
  BY <1>2, <1>9 DEF CodeReturns, Tick, FileReady, Left
<1>10. CASE Foreign
  <2>1. queue_event(New("window", Nil), "tail") /\ "window" \in Kinds /\ "tail" \in Positions
    BY <1>10 DEF Foreign, Kinds, Positions
  <2> QED BY <2>1, QueuesNew
<1> QED BY <1>4, <1>7, <1>8, <1>9, <1>10 DEF Next

(* For every storage, every bound and every nesting of loops: the linked *)
(* list with its three pointers is the queue with a front part. What     *)
(* Tcl_QueueEvent queues at the head, the tail or the mark comes where a *)
(* queue would put it, and what Tcl_DeleteEvents and the unlinking after *)
(* a handler take leaves the rest in order and the mark behind the same  *)
(* part (tk/notifier.rs, queue_event, delete_events, service_event).     *)
THEOREM QueueImplemented ==
  ASSUME "reuse" \notin Departures
  PROVE  Spec => ImplementsQueue
<1>1. Init => ListInv
  BY ListInvBegins
<1>2. ListInv /\ [Next]_vars => ListInv'
  BY ListInvKept
<1>3. Init => Abstract!Init
  BY DEF Init, Abstract!Init, Queue, From, Marked
<1>4. ListInv /\ ListInv' /\ [Next]_vars => [Abstract!Next]_<<Queue, Marked>>
  <2> SUFFICES ASSUME ListInv, ListInv', [Next]_vars PROVE [Abstract!Next]_<<Queue, Marked>>
    OBVIOUS
  <2>1. OneList /\ OneList'
    BY DEF ListInv, Links
  <2>2. ASSUME QueueIdle PROVE UNCHANGED <<Queue, Marked>>
    BY <2>1, <2>2, QueueStays DEF QueueIdle
  <2>3. CASE UNCHANGED vars
    BY <2>2, <2>3 DEF vars, queueVars, QueueIdle, Queue
  <2>4. CASE Next
    <3>1. CASE Queued
      BY <2>1, <3>1, PutsIt DEF Queued
    <3>2. CASE Departed
      <4>1. Abstract!Depart
        BY <2>1, <3>2, DeletionDeparts DEF Departed
      <4> QED BY <4>1 DEF Abstract!Next
    <3>3. CASE Finished
      <4>1. PICK e \in Events : Unlink(e)
        BY <3>3 DEF Finished
      <4>2. CASE e \in ToSet(Queue)
        <5>1. Abstract!Depart
          BY <2>1, <4>1, <4>2, UnlinkDeparts
        <5> QED BY <5>1 DEF Abstract!Next
      <4>3. CASE e \notin ToSet(Queue)
        <5>1. Queue' = Queue
          BY <2>1, <4>1, <4>3, NotThere
        <5>2. marker' = marker
          BY <4>1, <4>3 DEF Unlink
        <5> QED BY <2>2, <5>1, <5>2 DEF QueueIdle
      <4> QED BY <4>2, <4>3
    <3> QED BY <2>2, <2>4, <3>1, <3>2, <3>3, StepsOfTheQueue
  <2> QED BY <2>3, <2>4
<1> QED BY <1>1, <1>2, <1>3, <1>4, PTL DEF Spec, ImplementsQueue, Abstract!Spec, Abstract!vars
=============================================================================
