--------------------------- MODULE ObjectsProofs ----------------------------
(***************************************************************************)
(* Proofs about Objects, for any number of objects and of scripts inside   *)
(* one another, and any lists of classes.                                  *)
(***************************************************************************)
EXTENDS Objects, SequenceTheorems, WellFoundedInduction, TLAPS

-----------------------------------------------------------------------------
(* Induction over the numbers of a set, and what the model's recursive   *)
(* functions over a sequence are: they exist, as each step of a sequence *)
(* makes the next value from the one before.                             *)
LEMMA Numbers ==
  ASSUME NEW T, 0 \in T, \A n \in Nat : n \in T => n + 1 \in T
  PROVE  Nat \subseteq T
<1> DEFINE R == {ss \in Nat \X Nat : ss[1] < ss[2]}
           not == Nat \ T
<1> SUFFICES ASSUME not # {} PROVE FALSE
  OBVIOUS
<1>1. IsWellFoundedOn(R, Nat)
  BY NatLessThanWellFounded DEF OpToRel
<1>2. PICK i \in not : \A j \in not : ~(<<j, i>> \in R)
  <2>1. not \subseteq Nat
    OBVIOUS
  <2> HIDE DEF R, not
  <2> QED BY <1>1, <2>1, WFMin
<1>3. i # 0 /\ i - 1 \in Nat /\ (i - 1) + 1 = i
  BY <1>2
<1>4. i - 1 \in not
  BY <1>2, <1>3
<1>5. <<i - 1, i>> \in Nat \X Nat /\ <<i - 1, i>>[1] < <<i - 1, i>>[2]
  BY <1>2, <1>3
<1> QED BY <1>2, <1>4, <1>5

KeptUpTo(s, these) ==
  LET kept[i \in 0 .. Len(s)] ==
          IF i = 0 THEN <<>>
          ELSE IF s[i] \in these THEN Append(kept[i - 1], s[i]) ELSE kept[i - 1]
  IN  kept

KeptBody(k, n, s, these) ==
  k = [i \in 0 .. n |-> IF i = 0 THEN <<>>
                        ELSE IF s[i] \in these THEN Append(k[i - 1], s[i]) ELSE k[i - 1]]

LEMMA KeptExists ==
  ASSUME NEW s, NEW these
  PROVE  \A n \in Nat : \E k : KeptBody(k, n, s, these)
<1> DEFINE T == {n \in Nat : \E k : KeptBody(k, n, s, these)}
<1>1. 0 \in T
  <2>1. KeptBody([i \in 0 .. 0 |-> <<>>], 0, s, these)
    BY DEF KeptBody
  <2> QED BY <2>1
<1>2. ASSUME NEW n \in Nat, n \in T PROVE n + 1 \in T
  <2>1. PICK k : KeptBody(k, n, s, these)
    BY <1>2
  <2> DEFINE end == IF s[n + 1] \in these THEN Append(k[n], s[n + 1]) ELSE k[n]
             h    == [i \in 0 .. n + 1 |-> IF i = n + 1 THEN end ELSE k[i]]
  <2>2. \A i \in 0 .. n : h[i] = k[i]
    OBVIOUS
  <2>3. \A i \in 0 .. n : k[i] = IF i = 0 THEN <<>>
                          ELSE IF s[i] \in these THEN Append(k[i - 1], s[i]) ELSE k[i - 1]
    BY <2>1, Zenon DEF KeptBody
  <2>4. h[n + 1] = end
    OBVIOUS
  <2>5. ASSUME NEW i \in 0 .. n + 1
        PROVE  h[i] = IF i = 0 THEN <<>>
                      ELSE IF s[i] \in these THEN Append(h[i - 1], s[i]) ELSE h[i - 1]
    <3>1. CASE i = n + 1
      <4>1. h[n] = k[n] /\ i - 1 = n /\ i # 0
        BY <2>2, <3>1
      <4> QED BY <2>4, <3>1, <4>1
    <3>2. CASE i \in 0 .. n
      <4>1. h[i] = k[i] /\ (i # 0 => h[i - 1] = k[i - 1])
        BY <2>2, <3>2
      <4> HIDE DEF h
      <4> QED BY <2>3, <3>2, <4>1
    <3> QED BY <3>1, <3>2
  <2>6. KeptBody(h, n + 1, s, these)
    <3> DEFINE g == [i \in 0 .. n + 1 |-> IF i = 0 THEN <<>>
                      ELSE IF s[i] \in these THEN Append(h[i - 1], s[i]) ELSE h[i - 1]]
    <3>1. h = [i \in 0 .. n + 1 |-> h[i]]
      OBVIOUS
    <3> HIDE DEF h
    <3>2. h = g
      BY <2>5, <3>1
    <3> QED BY <3>2 DEF KeptBody
  <2> HIDE DEF h
  <2> QED BY <2>6
<1> HIDE DEF T
<1>3. Nat \subseteq T
  BY <1>1, <1>2, Numbers
<1> QED BY <1>3 DEF T

LEMMA KeptSteps ==
  ASSUME NEW S, NEW s \in Seq(S), NEW these
  PROVE  /\ KeptUpTo(s, these)[0] = <<>>
         /\ \A i \in 1 .. Len(s) :
              KeptUpTo(s, these)[i] =
                IF s[i] \in these THEN Append(KeptUpTo(s, these)[i - 1], s[i])
                ELSE KeptUpTo(s, these)[i - 1]
         /\ Keeping(s, these) = KeptUpTo(s, these)[Len(s)]
<1> DEFINE k == KeptUpTo(s, these)
<1>1. Len(s) \in Nat
  OBVIOUS
<1>2. KeptBody(k, Len(s), s, these)
  <2>1. \E f : KeptBody(f, Len(s), s, these)
    BY <1>1, KeptExists
  <2> QED BY <2>1 DEF KeptUpTo, KeptBody
<1>3. \A i \in 0 .. Len(s) :
         k[i] = IF i = 0 THEN <<>>
                ELSE IF s[i] \in these THEN Append(k[i - 1], s[i]) ELSE k[i - 1]
  <2> HIDE DEF k
  <2> QED BY <1>2, Zenon DEF KeptBody
<1>4. Keeping(s, these) = k[Len(s)]
  BY DEF Keeping, KeptUpTo
<1> HIDE DEF k
<1>5. k[0] = <<>> /\ \A i \in 1 .. Len(s) : k[i] = IF s[i] \in these THEN Append(k[i - 1], s[i]) ELSE k[i - 1]
  BY <1>1, <1>3
<1> QED BY <1>4, <1>5 DEF k

(* What of a longer sequence is kept.                                    *)
LEMMA KeepingNone ==
  ASSUME NEW these
  PROVE  Keeping(<<>>, these) = <<>>
<1> DEFINE S == {0}
<1>1. <<>> \in Seq(S) /\ Len(<<>>) = 0
  OBVIOUS
<1> HIDE DEF S
<1>2. Keeping(<<>>, these) = KeptUpTo(<<>>, these)[Len(<<>>)] /\ KeptUpTo(<<>>, these)[0] = <<>>
  BY <1>1, KeptSteps
<1> QED BY <1>1, <1>2

LEMMA KeepingAppend ==
  ASSUME NEW S, NEW s \in Seq(S), NEW x \in S, NEW these
  PROVE  Keeping(Append(s, x), these) =
           IF x \in these THEN Append(Keeping(s, these), x) ELSE Keeping(s, these)
<1> DEFINE l == Append(s, x)
           k == KeptUpTo(s, these)
           m == KeptUpTo(l, these)
           T == {n \in Nat : n <= Len(s) => m[n] = k[n]}
<1>1. /\ l \in Seq(S) /\ Len(l) = Len(s) + 1 /\ Len(s) \in Nat /\ l[Len(s) + 1] = x
      /\ \A i \in 1 .. Len(s) : l[i] = s[i]
  OBVIOUS
<1> HIDE DEF l
<1>2. /\ m[0] = <<>> /\ Keeping(l, these) = m[Len(l)]
      /\ \A i \in 1 .. Len(l) : m[i] = IF l[i] \in these THEN Append(m[i - 1], l[i]) ELSE m[i - 1]
  BY <1>1, KeptSteps
<1>3. /\ k[0] = <<>> /\ Keeping(s, these) = k[Len(s)]
      /\ \A i \in 1 .. Len(s) : k[i] = IF s[i] \in these THEN Append(k[i - 1], s[i]) ELSE k[i - 1]
  BY KeptSteps
<1> HIDE DEF k, m
<1>4. 0 \in T
  BY <1>2, <1>3
<1>5. ASSUME NEW n \in Nat, n \in T PROVE n + 1 \in T
  <2> SUFFICES ASSUME n + 1 <= Len(s) PROVE m[n + 1] = k[n + 1]
    OBVIOUS
  <2>1. n + 1 \in 1 .. Len(s) /\ n + 1 \in 1 .. Len(l) /\ (n + 1) - 1 = n /\ m[n] = k[n]
    BY <1>1, <1>5
  <2> QED BY <1>1, <1>2, <1>3, <2>1
<1> HIDE DEF T
<1>6. Len(s) \in T
  BY <1>1, <1>4, <1>5, Numbers
<1>7. m[Len(s)] = k[Len(s)]
  BY <1>6 DEF T
<1>8. m[Len(s) + 1] = IF l[Len(s) + 1] \in these THEN Append(m[Len(s)], l[Len(s) + 1]) ELSE m[Len(s)]
  <2>1. Len(s) + 1 \in 1 .. Len(l) /\ (Len(s) + 1) - 1 = Len(s)
    BY <1>1
  <2> QED BY <1>2, <2>1
<1> QED BY <1>1, <1>2, <1>3, <1>7, <1>8 DEF l

(* Induction over sequences, as sequences are longer one by one.         *)
LEMMA Longer ==
  ASSUME NEW S, NEW T, <<>> \in T,
         \A s \in Seq(S), x \in S : s \in T => Append(s, x) \in T
  PROVE  Seq(S) \subseteq T
<1> DEFINE N == {n \in Nat : \A s \in Seq(S) : Len(s) = n => s \in T}
<1>1. 0 \in N
  <2>1. \A s \in Seq(S) : Len(s) = 0 => s = <<>>
    OBVIOUS
  <2> QED BY <2>1
<1>2. ASSUME NEW n \in Nat, n \in N PROVE n + 1 \in N
  <2> SUFFICES ASSUME NEW s \in Seq(S), Len(s) = n + 1 PROVE s \in T
    OBVIOUS
  <2>1. s # <<>>
    OBVIOUS
  <2>2. PICK t \in Seq(S), x \in S : s = Append(t, x)
    BY <2>1, SequenceEmptyOrAppend
  <2>3. Len(t) = n
    BY <2>2
  <2> QED BY <1>2, <2>2, <2>3
<1> HIDE DEF N
<1>3. Nat \subseteq N
  BY <1>1, <1>2, Numbers
<1> QED BY <1>3 DEF N

LEMMA KeepingIs ==
  ASSUME NEW S, NEW s \in Seq(S), NEW these
  PROVE  /\ Keeping(s, these) \in Seq(S)
         /\ ToSet(Keeping(s, these)) = ToSet(s) \cap these
<1> DEFINE T == {t \in Seq(S) : /\ Keeping(t, these) \in Seq(S)
                                /\ ToSet(Keeping(t, these)) = ToSet(t) \cap these}
<1>0. ASSUME NEW t \in Seq(S), NEW x \in S PROVE ToSet(Append(t, x)) = ToSet(t) \cup {x}
  <2>1. /\ DOMAIN Append(t, x) = DOMAIN t \cup {Len(t) + 1} /\ Append(t, x)[Len(t) + 1] = x
        /\ \A i \in DOMAIN t : Append(t, x)[i] = t[i]
    OBVIOUS
  <2> QED BY <2>1 DEF ToSet
<1>1. <<>> \in T
  <2>1. <<>> \in Seq(S) /\ ToSet(<<>>) = {}
    BY DEF ToSet
  <2> QED BY <2>1, KeepingNone
<1>2. ASSUME NEW t \in Seq(S), NEW x \in S, t \in T PROVE Append(t, x) \in T
  <2> DEFINE k == Keeping(t, these)
             l == Keeping(Append(t, x), these)
  <2>1. k \in Seq(S) /\ ToSet(k) = ToSet(t) \cap these
    BY <1>2
  <2>2. l = IF x \in these THEN Append(k, x) ELSE k
    BY KeepingAppend
  <2>3. ToSet(Append(t, x)) = ToSet(t) \cup {x}
    BY <1>0
  <2>4. Append(t, x) \in Seq(S)
    OBVIOUS
  <2> HIDE DEF k, l
  <2>5. ToSet(Append(k, x)) = ToSet(k) \cup {x} /\ Append(k, x) \in Seq(S)
    BY <1>0, <2>1
  <2>6. l \in Seq(S) /\ ToSet(l) = ToSet(Append(t, x)) \cap these
    <3>1. CASE x \in these
      BY <2>1, <2>2, <2>3, <2>5, <3>1, Zenon
    <3>2. CASE x \notin these
      BY <2>1, <2>2, <2>3, <3>2
    <3> QED BY <3>1, <3>2
  <2> QED BY <2>4, <2>6 DEF l
<1> HIDE DEF T
<1>3. s \in T
  BY <1>1, <1>2, Longer
<1> QED BY <1>3 DEF T
LEMMA LongerInjective ==
  ASSUME NEW S, NEW s \in Seq(S), NEW x \in S
  PROVE  IsInjective(Append(s, x)) <=> IsInjective(s) /\ x \notin ToSet(s)
<1> DEFINE l == Append(s, x)
<1>1. /\ Len(l) = Len(s) + 1 /\ Len(s) \in Nat /\ l[Len(s) + 1] = x
      /\ DOMAIN l = 1 .. Len(l) /\ DOMAIN s = 1 .. Len(s)
      /\ \A i \in 1 .. Len(s) : l[i] = s[i]
  OBVIOUS
<1> HIDE DEF l
<1>2. ASSUME IsInjective(l) PROVE IsInjective(s) /\ x \notin ToSet(s)
  <2>1. IsInjective(s)
    BY <1>1, <1>2 DEF IsInjective
  <2>2. ASSUME x \in ToSet(s) PROVE FALSE
    <3>1. PICK i \in 1 .. Len(s) : s[i] = x
      BY <2>2 DEF ToSet
    <3>2. i \in 1 .. Len(l) /\ Len(s) + 1 \in 1 .. Len(l) /\ i # Len(s) + 1 /\ l[i] = l[Len(s) + 1]
      BY <1>1, <3>1
    <3> QED BY <1>2, <3>2 DEF IsInjective
  <2> QED BY <2>1, <2>2
<1>3. ASSUME IsInjective(s), x \notin ToSet(s) PROVE IsInjective(l)
  <2>1. \A i \in 1 .. Len(s) : s[i] # x
    BY <1>3 DEF ToSet
  <2>2. ASSUME NEW i \in 1 .. Len(l), NEW j \in 1 .. Len(l), l[i] = l[j] PROVE i = j
    <3>1. i = Len(s) + 1 \/ i \in 1 .. Len(s)
      BY <1>1
    <3>2. j = Len(s) + 1 \/ j \in 1 .. Len(s)
      BY <1>1
    <3> QED BY <1>1, <1>3, <2>1, <2>2, <3>1, <3>2 DEF IsInjective
  <2> QED BY <2>2 DEF IsInjective
<1> QED BY <1>2, <1>3 DEF l
LEMMA KeepingInjective ==
  ASSUME NEW S, NEW s \in Seq(S), NEW these, IsInjective(s)
  PROVE  IsInjective(Keeping(s, these))
<1> DEFINE T == {t \in Seq(S) : IsInjective(t) => IsInjective(Keeping(t, these))}
<1>1. <<>> \in T
  <2>1. IsInjective(Keeping(<<>>, these))
    BY KeepingNone DEF IsInjective
  <2> QED BY <2>1
<1>2. ASSUME NEW t \in Seq(S), NEW x \in S, t \in T PROVE Append(t, x) \in T
  <2> SUFFICES ASSUME IsInjective(Append(t, x)) PROVE IsInjective(Keeping(Append(t, x), these))
    BY AppendProperties
  <2>1. IsInjective(t) /\ x \notin ToSet(t)
    BY LongerInjective
  <2>2. PICK k : k = Keeping(t, these)
    OBVIOUS
  <2>3. k \in Seq(S) /\ ToSet(k) = ToSet(t) \cap these /\ IsInjective(k)
    BY <1>2, <2>1, <2>2, KeepingIs
  <2>4. Keeping(Append(t, x), these) = IF x \in these THEN Append(k, x) ELSE k
    BY <2>2, KeepingAppend
  <2>5. IsInjective(Append(k, x))
    BY <2>1, <2>3, LongerInjective
  <2> QED BY <2>3, <2>4, <2>5
<1> HIDE DEF T
<1>3. s \in T
  BY <1>1, <1>2, Longer
<1> QED BY <1>3 DEF T

(* A list with one more, without one, turned round, and with another after *)
(* it.                                                                     *)
LEMMA AppendIs ==
  ASSUME NEW S, NEW s \in Seq(S), NEW x \in S
  PROVE  /\ Append(s, x) \in Seq(S)
         /\ ToSet(Append(s, x)) = ToSet(s) \cup {x}
         /\ (IsInjective(s) /\ x \notin ToSet(s) => IsInjective(Append(s, x)))
<1>1. /\ DOMAIN Append(s, x) = DOMAIN s \cup {Len(s) + 1} /\ Append(s, x)[Len(s) + 1] = x
      /\ \A i \in DOMAIN s : Append(s, x)[i] = s[i]
  OBVIOUS
<1>2. ToSet(Append(s, x)) = ToSet(s) \cup {x}
  BY <1>1 DEF ToSet
<1> QED BY <1>2, LongerInjective, AppendProperties

LEMMA WithoutIs ==
  ASSUME NEW S, NEW s \in Seq(S), NEW x
  PROVE  /\ Without(s, x) \in Seq(S)
         /\ ToSet(Without(s, x)) = ToSet(s) \ {x}
         /\ (IsInjective(s) => IsInjective(Without(s, x)))
<1>1. PICK these : these = ToSet(s) \ {x}
  OBVIOUS
<1>2. Without(s, x) = Keeping(s, these)
  BY <1>1 DEF Without
<1>3. Keeping(s, these) \in Seq(S) /\ ToSet(Keeping(s, these)) = ToSet(s) \cap these
  BY KeepingIs
<1>4. IsInjective(s) => IsInjective(Keeping(s, these))
  BY KeepingInjective
<1> QED BY <1>1, <1>2, <1>3, <1>4, Zenon

LEMMA ReverseIs ==
  ASSUME NEW S, NEW s \in Seq(S)
  PROVE  Reverse(s) \in Seq(S) /\ ToSet(Reverse(s)) = ToSet(s)
<1>1. /\ Len(s) \in Nat /\ DOMAIN Reverse(s) = 1 .. Len(s) /\ DOMAIN s = 1 .. Len(s)
      /\ \A i \in 1 .. Len(s) : /\ Reverse(s)[i] = s[(Len(s) - i) + 1]
                                /\ (Len(s) - i) + 1 \in 1 .. Len(s)
                                /\ (Len(s) - ((Len(s) - i) + 1)) + 1 = i
  BY DEF Reverse
<1>2. Reverse(s) \in Seq(S)
  BY <1>1 DEF Reverse
<1>3. \A i \in DOMAIN s : \E j \in DOMAIN Reverse(s) : Reverse(s)[j] = s[i]
  <2> SUFFICES ASSUME NEW i \in DOMAIN s PROVE \E j \in DOMAIN Reverse(s) : Reverse(s)[j] = s[i]
    OBVIOUS
  <2>1. (Len(s) - i) + 1 \in DOMAIN Reverse(s) /\ Reverse(s)[(Len(s) - i) + 1] = s[i]
    BY <1>1
  <2> QED BY <2>1
<1>4. \A j \in DOMAIN Reverse(s) : \E i \in DOMAIN s : s[i] = Reverse(s)[j]
  BY <1>1
<1>5. ToSet(Reverse(s)) = ToSet(s)
  BY <1>3, <1>4 DEF ToSet
<1> QED BY <1>2, <1>5

LEMMA JoinedIs ==
  ASSUME NEW S, NEW s \in Seq(S), NEW t \in Seq(S)
  PROVE  s \o t \in Seq(S) /\ ToSet(s \o t) = ToSet(s) \cup ToSet(t)
<1>1. /\ Len(s) \in Nat /\ Len(t) \in Nat /\ DOMAIN s = 1 .. Len(s) /\ DOMAIN t = 1 .. Len(t)
      /\ DOMAIN (s \o t) = 1 .. Len(s) + Len(t)
      /\ \A i \in 1 .. Len(s) : (s \o t)[i] = s[i]
      /\ \A i \in 1 .. Len(t) : (s \o t)[Len(s) + i] = t[i]
  OBVIOUS
<1>2. \A i \in 1 .. Len(s) + Len(t) :
         i \in 1 .. Len(s) \/ (i - Len(s) \in 1 .. Len(t) /\ Len(s) + (i - Len(s)) = i)
  BY <1>1
<1>3. \A i \in 1 .. Len(s) : i \in 1 .. Len(s) + Len(t)
  BY <1>1
<1>4. \A i \in 1 .. Len(t) : Len(s) + i \in 1 .. Len(s) + Len(t)
  BY <1>1
<1>5. ToSet(s \o t) \subseteq ToSet(s) \cup ToSet(t)
  <2> SUFFICES ASSUME NEW i \in 1 .. Len(s) + Len(t) PROVE (s \o t)[i] \in ToSet(s) \cup ToSet(t)
    BY <1>1 DEF ToSet
  <2> QED BY <1>1, <1>2 DEF ToSet
<1>6. ToSet(s) \cup ToSet(t) \subseteq ToSet(s \o t)
  BY <1>1, <1>3, <1>4, Zenon DEF ToSet
<1> QED BY <1>5, <1>6

-----------------------------------------------------------------------------
(* One record: which of the links it is an end of, and what else, is as it *)
(* was.                                                                    *)
SameInstances(q, r)  == q.class = r.class /\ q.mixins = r.mixins /\ q.instances = r.instances
SameSubclasses(q, r) == q.superclasses = r.superclasses /\ q.subclasses = r.subclasses
SameUsers(q, r)      == q.classMixins = r.classMixins /\ q.users = r.users
SameRest(q, r)       == q.is_class = r.is_class /\ q.home = r.home /\ q.destructing = r.destructing

LEMMA GainsInstanceIs ==
  \A r \in Object, id \in Id :
    /\ GainsInstance(r, id) \in Object
    /\ GainsInstance(r, id).instances = Append(r.instances, id)
    /\ GainsInstance(r, id).class = r.class
    /\ GainsInstance(r, id).mixins = r.mixins
    /\ SameSubclasses(GainsInstance(r, id), r)
    /\ SameUsers(GainsInstance(r, id), r)
    /\ SameRest(GainsInstance(r, id), r)
<1> SUFFICES ASSUME NEW r \in Object, NEW id \in Id
             PROVE  /\ GainsInstance(r, id) \in Object
                    /\ GainsInstance(r, id).instances = Append(r.instances, id)
                    /\ GainsInstance(r, id).class = r.class
                    /\ GainsInstance(r, id).mixins = r.mixins
                    /\ SameSubclasses(GainsInstance(r, id), r)
                    /\ SameUsers(GainsInstance(r, id), r)
                    /\ SameRest(GainsInstance(r, id), r)
  OBVIOUS
<1>1. PICK l : l = Append(r.instances, id)
  OBVIOUS
<1>2. r.instances \in Seq(Id)
  BY DEF Object
<1>3. l \in Seq(Id)
  BY <1>1, <1>2, AppendProperties
<1>4. GainsInstance(r, id) = [r EXCEPT !.instances = l]
  BY <1>1 DEF GainsInstance
<1> QED BY <1>1, <1>3, <1>4 DEF Object, SameSubclasses, SameUsers, SameRest

LEMMA LosesInstanceIs ==
  \A r \in Object, id \in Id :
    /\ LosesInstance(r, id) \in Object
    /\ LosesInstance(r, id).instances = Without(r.instances, id)
    /\ LosesInstance(r, id).class = r.class
    /\ LosesInstance(r, id).mixins = r.mixins
    /\ SameSubclasses(LosesInstance(r, id), r)
    /\ SameUsers(LosesInstance(r, id), r)
    /\ SameRest(LosesInstance(r, id), r)
<1> SUFFICES ASSUME NEW r \in Object, NEW id \in Id
             PROVE  /\ LosesInstance(r, id) \in Object
                    /\ LosesInstance(r, id).instances = Without(r.instances, id)
                    /\ LosesInstance(r, id).class = r.class
                    /\ LosesInstance(r, id).mixins = r.mixins
                    /\ SameSubclasses(LosesInstance(r, id), r)
                    /\ SameUsers(LosesInstance(r, id), r)
                    /\ SameRest(LosesInstance(r, id), r)
  OBVIOUS
<1>1. PICK l : l = Without(r.instances, id)
  OBVIOUS
<1>2. r.instances \in Seq(Id)
  BY DEF Object
<1>3. l \in Seq(Id)
  BY <1>1, <1>2, WithoutIs
<1>4. LosesInstance(r, id) = [r EXCEPT !.instances = l]
  BY <1>1 DEF LosesInstance
<1> QED BY <1>1, <1>3, <1>4 DEF Object, SameSubclasses, SameUsers, SameRest

LEMMA GainsSubclassIs ==
  \A r \in Object, id \in Id :
    /\ GainsSubclass(r, id) \in Object
    /\ GainsSubclass(r, id).subclasses = Append(r.subclasses, id)
    /\ SameInstances(GainsSubclass(r, id), r)
    /\ GainsSubclass(r, id).superclasses = r.superclasses
    /\ SameUsers(GainsSubclass(r, id), r)
    /\ SameRest(GainsSubclass(r, id), r)
<1> SUFFICES ASSUME NEW r \in Object, NEW id \in Id
             PROVE  /\ GainsSubclass(r, id) \in Object
                    /\ GainsSubclass(r, id).subclasses = Append(r.subclasses, id)
                    /\ SameInstances(GainsSubclass(r, id), r)
                    /\ GainsSubclass(r, id).superclasses = r.superclasses
                    /\ SameUsers(GainsSubclass(r, id), r)
                    /\ SameRest(GainsSubclass(r, id), r)
  OBVIOUS
<1>1. PICK l : l = Append(r.subclasses, id)
  OBVIOUS
<1>2. r.subclasses \in Seq(Id)
  BY DEF Object
<1>3. l \in Seq(Id)
  BY <1>1, <1>2, AppendProperties
<1>4. GainsSubclass(r, id) = [r EXCEPT !.subclasses = l]
  BY <1>1 DEF GainsSubclass
<1> QED BY <1>1, <1>3, <1>4 DEF Object, SameInstances, SameUsers, SameRest

LEMMA LosesSubclassIs ==
  \A r \in Object, id \in Id :
    /\ LosesSubclass(r, id) \in Object
    /\ LosesSubclass(r, id).subclasses = Without(r.subclasses, id)
    /\ SameInstances(LosesSubclass(r, id), r)
    /\ LosesSubclass(r, id).superclasses = r.superclasses
    /\ SameUsers(LosesSubclass(r, id), r)
    /\ SameRest(LosesSubclass(r, id), r)
<1> SUFFICES ASSUME NEW r \in Object, NEW id \in Id
             PROVE  /\ LosesSubclass(r, id) \in Object
                    /\ LosesSubclass(r, id).subclasses = Without(r.subclasses, id)
                    /\ SameInstances(LosesSubclass(r, id), r)
                    /\ LosesSubclass(r, id).superclasses = r.superclasses
                    /\ SameUsers(LosesSubclass(r, id), r)
                    /\ SameRest(LosesSubclass(r, id), r)
  OBVIOUS
<1>1. PICK l : l = Without(r.subclasses, id)
  OBVIOUS
<1>2. r.subclasses \in Seq(Id)
  BY DEF Object
<1>3. l \in Seq(Id)
  BY <1>1, <1>2, WithoutIs
<1>4. LosesSubclass(r, id) = [r EXCEPT !.subclasses = l]
  BY <1>1 DEF LosesSubclass
<1> QED BY <1>1, <1>3, <1>4 DEF Object, SameInstances, SameUsers, SameRest

LEMMA GainsUserIs ==
  \A r \in Object, id \in Id :
    /\ GainsUser(r, id) \in Object
    /\ GainsUser(r, id).users = Append(r.users, id)
    /\ SameInstances(GainsUser(r, id), r)
    /\ SameSubclasses(GainsUser(r, id), r)
    /\ GainsUser(r, id).classMixins = r.classMixins
    /\ SameRest(GainsUser(r, id), r)
<1> SUFFICES ASSUME NEW r \in Object, NEW id \in Id
             PROVE  /\ GainsUser(r, id) \in Object
                    /\ GainsUser(r, id).users = Append(r.users, id)
                    /\ SameInstances(GainsUser(r, id), r)
                    /\ SameSubclasses(GainsUser(r, id), r)
                    /\ GainsUser(r, id).classMixins = r.classMixins
                    /\ SameRest(GainsUser(r, id), r)
  OBVIOUS
<1>1. PICK l : l = Append(r.users, id)
  OBVIOUS
<1>2. r.users \in Seq(Id)
  BY DEF Object
<1>3. l \in Seq(Id)
  BY <1>1, <1>2, AppendProperties
<1>4. GainsUser(r, id) = [r EXCEPT !.users = l]
  BY <1>1 DEF GainsUser
<1> QED BY <1>1, <1>3, <1>4 DEF Object, SameInstances, SameSubclasses, SameRest

LEMMA LosesUserIs ==
  \A r \in Object, id \in Id :
    /\ LosesUser(r, id) \in Object
    /\ LosesUser(r, id).users = Without(r.users, id)
    /\ SameInstances(LosesUser(r, id), r)
    /\ SameSubclasses(LosesUser(r, id), r)
    /\ LosesUser(r, id).classMixins = r.classMixins
    /\ SameRest(LosesUser(r, id), r)
<1> SUFFICES ASSUME NEW r \in Object, NEW id \in Id
             PROVE  /\ LosesUser(r, id) \in Object
                    /\ LosesUser(r, id).users = Without(r.users, id)
                    /\ SameInstances(LosesUser(r, id), r)
                    /\ SameSubclasses(LosesUser(r, id), r)
                    /\ LosesUser(r, id).classMixins = r.classMixins
                    /\ SameRest(LosesUser(r, id), r)
  OBVIOUS
<1>1. PICK l : l = Without(r.users, id)
  OBVIOUS
<1>2. r.users \in Seq(Id)
  BY DEF Object
<1>3. l \in Seq(Id)
  BY <1>1, <1>2, WithoutIs
<1>4. LosesUser(r, id) = [r EXCEPT !.users = l]
  BY <1>1 DEF LosesUser
<1> QED BY <1>1, <1>3, <1>4 DEF Object, SameInstances, SameSubclasses, SameRest

LEMMA InheritsIs ==
  \A r \in Object, supers \in Seq(Id) :
    /\ Inherits(r, supers) \in Object
    /\ Inherits(r, supers).superclasses = supers
    /\ SameInstances(Inherits(r, supers), r)
    /\ Inherits(r, supers).subclasses = r.subclasses
    /\ SameUsers(Inherits(r, supers), r)
    /\ SameRest(Inherits(r, supers), r)
<1> SUFFICES ASSUME NEW r \in Object, NEW supers \in Seq(Id)
             PROVE  /\ Inherits(r, supers) \in Object
                    /\ Inherits(r, supers).superclasses = supers
                    /\ SameInstances(Inherits(r, supers), r)
                    /\ Inherits(r, supers).subclasses = r.subclasses
                    /\ SameUsers(Inherits(r, supers), r)
                    /\ SameRest(Inherits(r, supers), r)
  OBVIOUS
<1>1. Inherits(r, supers) = [r EXCEPT !.superclasses = supers]
  BY DEF Inherits
<1> QED BY <1>1 DEF Object, SameInstances, SameUsers, SameRest

LEMMA MixesIs ==
  \A r \in Object, mixins \in Seq(Id) :
    /\ Mixes(r, mixins) \in Object
    /\ Mixes(r, mixins).mixins = mixins
    /\ Mixes(r, mixins).class = r.class
    /\ Mixes(r, mixins).instances = r.instances
    /\ SameSubclasses(Mixes(r, mixins), r)
    /\ SameUsers(Mixes(r, mixins), r)
    /\ SameRest(Mixes(r, mixins), r)
<1> SUFFICES ASSUME NEW r \in Object, NEW mixins \in Seq(Id)
             PROVE  /\ Mixes(r, mixins) \in Object
                    /\ Mixes(r, mixins).mixins = mixins
                    /\ Mixes(r, mixins).class = r.class
                    /\ Mixes(r, mixins).instances = r.instances
                    /\ SameSubclasses(Mixes(r, mixins), r)
                    /\ SameUsers(Mixes(r, mixins), r)
                    /\ SameRest(Mixes(r, mixins), r)
  OBVIOUS
<1>1. Mixes(r, mixins) = [r EXCEPT !.mixins = mixins]
  BY DEF Mixes
<1> QED BY <1>1 DEF Object, SameSubclasses, SameUsers, SameRest

LEMMA ClassMixesIs ==
  \A r \in Object, mixins \in Seq(Id) :
    /\ ClassMixes(r, mixins) \in Object
    /\ ClassMixes(r, mixins).classMixins = mixins
    /\ SameInstances(ClassMixes(r, mixins), r)
    /\ SameSubclasses(ClassMixes(r, mixins), r)
    /\ ClassMixes(r, mixins).users = r.users
    /\ SameRest(ClassMixes(r, mixins), r)
<1> SUFFICES ASSUME NEW r \in Object, NEW mixins \in Seq(Id)
             PROVE  /\ ClassMixes(r, mixins) \in Object
                    /\ ClassMixes(r, mixins).classMixins = mixins
                    /\ SameInstances(ClassMixes(r, mixins), r)
                    /\ SameSubclasses(ClassMixes(r, mixins), r)
                    /\ ClassMixes(r, mixins).users = r.users
                    /\ SameRest(ClassMixes(r, mixins), r)
  OBVIOUS
<1>1. ClassMixes(r, mixins) = [r EXCEPT !.classMixins = mixins]
  BY DEF ClassMixes
<1> QED BY <1>1 DEF Object, SameInstances, SameSubclasses, SameRest

LEMMA LosesMixinIs ==
  \A r \in Object, id \in Id :
    /\ LosesMixin(r, id) \in Object
    /\ LosesMixin(r, id).mixins = Without(r.mixins, id)
    /\ LosesMixin(r, id).classMixins = Without(r.classMixins, id)
    /\ LosesMixin(r, id).class = r.class
    /\ LosesMixin(r, id).instances = r.instances
    /\ SameSubclasses(LosesMixin(r, id), r)
    /\ LosesMixin(r, id).users = r.users
    /\ SameRest(LosesMixin(r, id), r)
<1> SUFFICES ASSUME NEW r \in Object, NEW id \in Id
             PROVE  /\ LosesMixin(r, id) \in Object
                    /\ LosesMixin(r, id).mixins = Without(r.mixins, id)
                    /\ LosesMixin(r, id).classMixins = Without(r.classMixins, id)
                    /\ LosesMixin(r, id).class = r.class
                    /\ LosesMixin(r, id).instances = r.instances
                    /\ SameSubclasses(LosesMixin(r, id), r)
                    /\ LosesMixin(r, id).users = r.users
                    /\ SameRest(LosesMixin(r, id), r)
  OBVIOUS
<1>1. PICK l : l = Without(r.mixins, id)
  OBVIOUS
<1>2. r.mixins \in Seq(Id)
  BY DEF Object
<1>3. l \in Seq(Id)
  BY <1>1, <1>2, WithoutIs
<1>4. PICK m : m = Without(r.classMixins, id)
  OBVIOUS
<1>5. r.classMixins \in Seq(Id)
  BY DEF Object
<1>6. m \in Seq(Id)
  BY <1>4, <1>5, WithoutIs
<1>7. LosesMixin(r, id) = [r EXCEPT !.mixins = l, !.classMixins = m]
  BY <1>1, <1>4 DEF LosesMixin
<1> QED BY <1>1, <1>3, <1>4, <1>6, <1>7 DEF Object, SameSubclasses, SameRest

LEMMA MovesIs ==
  \A r \in Object, home \in Id \cup {Nowhere} :
    /\ Moves(r, home) \in Object
    /\ Moves(r, home).home = home
    /\ SameInstances(Moves(r, home), r)
    /\ SameSubclasses(Moves(r, home), r)
    /\ SameUsers(Moves(r, home), r)
    /\ Moves(r, home).is_class = r.is_class
    /\ Moves(r, home).destructing = r.destructing
<1> SUFFICES ASSUME NEW r \in Object, NEW home \in Id \cup {Nowhere}
             PROVE  /\ Moves(r, home) \in Object
                    /\ Moves(r, home).home = home
                    /\ SameInstances(Moves(r, home), r)
                    /\ SameSubclasses(Moves(r, home), r)
                    /\ SameUsers(Moves(r, home), r)
                    /\ Moves(r, home).is_class = r.is_class
                    /\ Moves(r, home).destructing = r.destructing
  OBVIOUS
<1>1. Moves(r, home) = [r EXCEPT !.home = home]
  BY DEF Moves
<1> QED BY <1>1 DEF Object, SameInstances, SameSubclasses, SameUsers

LEMMA ChangesClassIs ==
  \A r \in Object, cls \in Id :
    /\ ChangesClass(r, cls) \in Object
    /\ ChangesClass(r, cls).class = cls
    /\ ChangesClass(r, cls).mixins = r.mixins
    /\ ChangesClass(r, cls).instances = r.instances
    /\ SameSubclasses(ChangesClass(r, cls), r)
    /\ SameUsers(ChangesClass(r, cls), r)
    /\ SameRest(ChangesClass(r, cls), r)
<1> SUFFICES ASSUME NEW r \in Object, NEW cls \in Id
             PROVE  /\ ChangesClass(r, cls) \in Object
                    /\ ChangesClass(r, cls).class = cls
                    /\ ChangesClass(r, cls).mixins = r.mixins
                    /\ ChangesClass(r, cls).instances = r.instances
                    /\ SameSubclasses(ChangesClass(r, cls), r)
                    /\ SameUsers(ChangesClass(r, cls), r)
                    /\ SameRest(ChangesClass(r, cls), r)
  OBVIOUS
<1>1. ChangesClass(r, cls) = [r EXCEPT !.class = cls]
  BY DEF ChangesClass
<1> QED BY <1>1 DEF Object, SameSubclasses, SameUsers, SameRest

LEMMA CondemnsIs ==
  \A r \in Object :
    /\ Condemns(r) \in Object
    /\ Condemns(r).destructing = TRUE
    /\ SameInstances(Condemns(r), r)
    /\ SameSubclasses(Condemns(r), r)
    /\ SameUsers(Condemns(r), r)
    /\ Condemns(r).is_class = r.is_class
    /\ Condemns(r).home = r.home
<1> SUFFICES ASSUME NEW r \in Object
             PROVE  /\ Condemns(r) \in Object
                    /\ Condemns(r).destructing = TRUE
                    /\ SameInstances(Condemns(r), r)
                    /\ SameSubclasses(Condemns(r), r)
                    /\ SameUsers(Condemns(r), r)
                    /\ Condemns(r).is_class = r.is_class
                    /\ Condemns(r).home = r.home
  OBVIOUS
<1>1. Condemns(r) = [r EXCEPT !.destructing = TRUE]
  BY DEF Condemns
<1> QED BY <1>1 DEF Object, SameInstances, SameSubclasses, SameUsers

(* A class that was none: it inherits the root.                            *)
LEMMA BecomesClassIs ==
  ASSUME object_cls \in Id
  PROVE  \A r \in Object, cls \in Id :
           /\ BecomesClass(r, cls) \in Object
           /\ BecomesClass(r, cls).class = cls
           /\ BecomesClass(r, cls).is_class = TRUE
           /\ BecomesClass(r, cls).superclasses = <<object_cls>>
           /\ BecomesClass(r, cls).mixins = r.mixins
           /\ BecomesClass(r, cls).instances = r.instances
           /\ BecomesClass(r, cls).subclasses = r.subclasses
           /\ SameUsers(BecomesClass(r, cls), r)
           /\ BecomesClass(r, cls).home = r.home
           /\ BecomesClass(r, cls).destructing = r.destructing
<1> SUFFICES ASSUME NEW r \in Object, NEW cls \in Id
             PROVE  /\ BecomesClass(r, cls) \in Object
                    /\ BecomesClass(r, cls).class = cls
                    /\ BecomesClass(r, cls).is_class = TRUE
                    /\ BecomesClass(r, cls).superclasses = <<object_cls>>
                    /\ BecomesClass(r, cls).mixins = r.mixins
                    /\ BecomesClass(r, cls).instances = r.instances
                    /\ BecomesClass(r, cls).subclasses = r.subclasses
                    /\ SameUsers(BecomesClass(r, cls), r)
                    /\ BecomesClass(r, cls).home = r.home
                    /\ BecomesClass(r, cls).destructing = r.destructing
  OBVIOUS
<1>1. PICK l : l = <<object_cls>>
  OBVIOUS
<1>2. l \in Seq(Id)
  BY <1>1
<1>3. BecomesClass(r, cls) = [r EXCEPT !.class = cls, !.is_class = TRUE, !.superclasses = l]
  BY <1>1 DEF BecomesClass
<1> QED BY <1>1, <1>2, <1>3 DEF Object, SameUsers

-----------------------------------------------------------------------------
(* Tables: the objects that are there, and what of them a change leaves.   *)
Tables == {T \in Seq(Object \cup {Gone}) : Len(T) \in 2 .. MaxObjects}
Living(T) == {c \in 0 .. Len(T) - 1 : T[c + 1] # Gone}
Places == Id \cup {Nowhere}

Shape(U, T) == U \in Tables /\ Len(U) = Len(T) /\ Living(U) = Living(T)

LEMMA LivingIs ==
  ASSUME NEW T \in Tables
  PROVE  /\ Living(T) \subseteq Id /\ object_cls \in Id /\ class_cls \in Id
         /\ Len(T) \in Nat /\ DOMAIN T = 1 .. Len(T)
         /\ \A c \in Living(T) : c + 1 \in 1 .. Len(T) /\ T[c + 1] \in Object
<1>1. MaxObjects \in Nat
  BY ObjectsAssumption
<1> QED BY <1>1 DEF Tables, Living, Id, object_cls, class_cls

(* Each change of records, over a table.                                    *)
EachGainsInstance(T, S, id) == At(T, S, LAMBDA r : GainsInstance(r, id))
EachLosesInstance(T, S, id) == At(T, S, LAMBDA r : LosesInstance(r, id))
EachGainsSubclass(T, S, id) == At(T, S, LAMBDA r : GainsSubclass(r, id))
EachLosesSubclass(T, S, id) == At(T, S, LAMBDA r : LosesSubclass(r, id))
EachGainsUser(T, S, id) == At(T, S, LAMBDA r : GainsUser(r, id))
EachLosesUser(T, S, id) == At(T, S, LAMBDA r : LosesUser(r, id))
EachInherits(T, S, supers) == At(T, S, LAMBDA r : Inherits(r, supers))
EachMixes(T, S, mixins) == At(T, S, LAMBDA r : Mixes(r, mixins))
EachClassMixes(T, S, mixins) == At(T, S, LAMBDA r : ClassMixes(r, mixins))
EachLosesMixin(T, S, id) == At(T, S, LAMBDA r : LosesMixin(r, id))
EachMoves(T, S, home) == At(T, S, LAMBDA r : Moves(r, home))
EachChangesClass(T, S, cls) == At(T, S, LAMBDA r : ChangesClass(r, cls))
EachCondemns(T, S) == At(T, S, LAMBDA r : Condemns(r))
EachBecomesClass(T, S, cls) == At(T, S, LAMBDA r : BecomesClass(r, cls))

LEMMA Shaped ==
  ASSUME NEW T \in Tables, NEW U, DOMAIN U = DOMAIN T, U = [i \in DOMAIN T |-> U[i]],
         \A i \in 1 .. Len(T) : U[i] \in Object \cup {Gone} /\ (U[i] = Gone <=> T[i] = Gone)
  PROVE  Shape(U, T)
<1>1. Len(T) \in 2 .. MaxObjects /\ Len(T) \in Nat /\ DOMAIN T = 1 .. Len(T)
  BY LivingIs DEF Tables
<1>2. PICK V : V = Object \cup {Gone}
  OBVIOUS
<1>3. U \in [1 .. Len(T) -> V]
  BY <1>1, <1>2
<1>4. U \in Seq(V)
  BY <1>1, <1>3, SeqDef
<1>5. Len(U) = Len(T)
  BY <1>1, <1>3, <1>4, LenProperties
<1>6. U \in Tables
  BY <1>1, <1>2, <1>4, <1>5 DEF Tables
<1>7. \A c \in 0 .. Len(T) - 1 : c + 1 \in 1 .. Len(T)
  BY <1>1
<1>8. Living(U) = Living(T)
  BY <1>5, <1>7 DEF Living
<1> QED BY <1>5, <1>6, <1>8 DEF Shape

LEMMA AtGainsInstance ==
  ASSUME NEW T \in Tables, NEW S, NEW id \in Id, NEW U,
         U = EachGainsInstance(T, S, id)
  PROVE  /\ Shape(U, T)
         /\ \A c \in Living(T) :
              /\ U[c + 1].instances = IF c \in S THEN Append(T[c + 1].instances, id) ELSE T[c + 1].instances
              /\ U[c + 1].class = T[c + 1].class
              /\ U[c + 1].mixins = T[c + 1].mixins
              /\ SameSubclasses(U[c + 1], T[c + 1])
              /\ SameUsers(U[c + 1], T[c + 1])
              /\ SameRest(U[c + 1], T[c + 1])
<1>1. /\ DOMAIN T = 1 .. Len(T) /\ DOMAIN U = DOMAIN T
      /\ \A i \in 1 .. Len(T) : T[i] \in Object \cup {Gone}
      /\ U = [i \in DOMAIN T |-> U[i]]
  BY LivingIs DEF Tables, At, EachGainsInstance
<1>2. \A i \in 1 .. Len(T) :
         U[i] = IF i - 1 \in S /\ T[i] # Gone THEN GainsInstance(T[i], id) ELSE T[i]
  BY <1>1 DEF At, EachGainsInstance
<1>3. ASSUME NEW i \in 1 .. Len(T)
      PROVE  U[i] \in Object \cup {Gone} /\ (U[i] = Gone <=> T[i] = Gone)
  <2>1. T[i] # Gone => GainsInstance(T[i], id) \in Object /\ T[i] \in Object
    BY <1>1, LivingIs, GainsInstanceIs
  <2> QED BY <1>1, <1>2, <2>1, Absences
<1>4. ASSUME NEW c \in Living(T)
      PROVE  /\ U[c + 1].instances = IF c \in S THEN Append(T[c + 1].instances, id) ELSE T[c + 1].instances
             /\ U[c + 1].class = T[c + 1].class
             /\ U[c + 1].mixins = T[c + 1].mixins
             /\ SameSubclasses(U[c + 1], T[c + 1])
             /\ SameUsers(U[c + 1], T[c + 1])
             /\ SameRest(U[c + 1], T[c + 1])
  <2>1. PICK q, r : q = U[c + 1] /\ r = T[c + 1]
    OBVIOUS
  <2>2. c + 1 \in 1 .. Len(T) /\ (c + 1) - 1 = c /\ T[c + 1] # Gone /\ r \in Object
    BY <2>1, LivingIs DEF Living
  <2>3. q = IF c \in S THEN GainsInstance(r, id) ELSE r
    BY <1>2, <2>1, <2>2
  <2>4. /\ q.instances = IF c \in S THEN Append(r.instances, id) ELSE r.instances
        /\ q.class = r.class
        /\ q.mixins = r.mixins
        /\ SameSubclasses(q, r)
        /\ SameUsers(q, r)
        /\ SameRest(q, r)
    <3>1. CASE c \in S
      <4>1. q = GainsInstance(r, id)
        BY <2>3, <3>1
      <4> QED BY <2>2, <3>1, <4>1, LivingIs, GainsInstanceIs
    <3>2. CASE c \notin S
      <4>1. q = r
        BY <2>3, <3>2
      <4> QED BY <3>2, <4>1 DEF SameSubclasses, SameUsers, SameRest
    <3> QED BY <3>1, <3>2
  <2> QED BY <2>1, <2>4
<1>5. Shape(U, T)
  BY <1>1, <1>3, Shaped
<1> QED BY <1>4, <1>5

LEMMA AtLosesInstance ==
  ASSUME NEW T \in Tables, NEW S, NEW id \in Id, NEW U,
         U = EachLosesInstance(T, S, id)
  PROVE  /\ Shape(U, T)
         /\ \A c \in Living(T) :
              /\ U[c + 1].instances = IF c \in S THEN Without(T[c + 1].instances, id) ELSE T[c + 1].instances
              /\ U[c + 1].class = T[c + 1].class
              /\ U[c + 1].mixins = T[c + 1].mixins
              /\ SameSubclasses(U[c + 1], T[c + 1])
              /\ SameUsers(U[c + 1], T[c + 1])
              /\ SameRest(U[c + 1], T[c + 1])
<1>1. /\ DOMAIN T = 1 .. Len(T) /\ DOMAIN U = DOMAIN T
      /\ \A i \in 1 .. Len(T) : T[i] \in Object \cup {Gone}
      /\ U = [i \in DOMAIN T |-> U[i]]
  BY LivingIs DEF Tables, At, EachLosesInstance
<1>2. \A i \in 1 .. Len(T) :
         U[i] = IF i - 1 \in S /\ T[i] # Gone THEN LosesInstance(T[i], id) ELSE T[i]
  BY <1>1 DEF At, EachLosesInstance
<1>3. ASSUME NEW i \in 1 .. Len(T)
      PROVE  U[i] \in Object \cup {Gone} /\ (U[i] = Gone <=> T[i] = Gone)
  <2>1. T[i] # Gone => LosesInstance(T[i], id) \in Object /\ T[i] \in Object
    BY <1>1, LivingIs, LosesInstanceIs
  <2> QED BY <1>1, <1>2, <2>1, Absences
<1>4. ASSUME NEW c \in Living(T)
      PROVE  /\ U[c + 1].instances = IF c \in S THEN Without(T[c + 1].instances, id) ELSE T[c + 1].instances
             /\ U[c + 1].class = T[c + 1].class
             /\ U[c + 1].mixins = T[c + 1].mixins
             /\ SameSubclasses(U[c + 1], T[c + 1])
             /\ SameUsers(U[c + 1], T[c + 1])
             /\ SameRest(U[c + 1], T[c + 1])
  <2>1. PICK q, r : q = U[c + 1] /\ r = T[c + 1]
    OBVIOUS
  <2>2. c + 1 \in 1 .. Len(T) /\ (c + 1) - 1 = c /\ T[c + 1] # Gone /\ r \in Object
    BY <2>1, LivingIs DEF Living
  <2>3. q = IF c \in S THEN LosesInstance(r, id) ELSE r
    BY <1>2, <2>1, <2>2
  <2>4. /\ q.instances = IF c \in S THEN Without(r.instances, id) ELSE r.instances
        /\ q.class = r.class
        /\ q.mixins = r.mixins
        /\ SameSubclasses(q, r)
        /\ SameUsers(q, r)
        /\ SameRest(q, r)
    <3>1. CASE c \in S
      <4>1. q = LosesInstance(r, id)
        BY <2>3, <3>1
      <4> QED BY <2>2, <3>1, <4>1, LivingIs, LosesInstanceIs
    <3>2. CASE c \notin S
      <4>1. q = r
        BY <2>3, <3>2
      <4> QED BY <3>2, <4>1 DEF SameSubclasses, SameUsers, SameRest
    <3> QED BY <3>1, <3>2
  <2> QED BY <2>1, <2>4
<1>5. Shape(U, T)
  BY <1>1, <1>3, Shaped
<1> QED BY <1>4, <1>5

LEMMA AtGainsSubclass ==
  ASSUME NEW T \in Tables, NEW S, NEW id \in Id, NEW U,
         U = EachGainsSubclass(T, S, id)
  PROVE  /\ Shape(U, T)
         /\ \A c \in Living(T) :
              /\ U[c + 1].subclasses = IF c \in S THEN Append(T[c + 1].subclasses, id) ELSE T[c + 1].subclasses
              /\ SameInstances(U[c + 1], T[c + 1])
              /\ U[c + 1].superclasses = T[c + 1].superclasses
              /\ SameUsers(U[c + 1], T[c + 1])
              /\ SameRest(U[c + 1], T[c + 1])
<1>1. /\ DOMAIN T = 1 .. Len(T) /\ DOMAIN U = DOMAIN T
      /\ \A i \in 1 .. Len(T) : T[i] \in Object \cup {Gone}
      /\ U = [i \in DOMAIN T |-> U[i]]
  BY LivingIs DEF Tables, At, EachGainsSubclass
<1>2. \A i \in 1 .. Len(T) :
         U[i] = IF i - 1 \in S /\ T[i] # Gone THEN GainsSubclass(T[i], id) ELSE T[i]
  BY <1>1 DEF At, EachGainsSubclass
<1>3. ASSUME NEW i \in 1 .. Len(T)
      PROVE  U[i] \in Object \cup {Gone} /\ (U[i] = Gone <=> T[i] = Gone)
  <2>1. T[i] # Gone => GainsSubclass(T[i], id) \in Object /\ T[i] \in Object
    BY <1>1, LivingIs, GainsSubclassIs
  <2> QED BY <1>1, <1>2, <2>1, Absences
<1>4. ASSUME NEW c \in Living(T)
      PROVE  /\ U[c + 1].subclasses = IF c \in S THEN Append(T[c + 1].subclasses, id) ELSE T[c + 1].subclasses
             /\ SameInstances(U[c + 1], T[c + 1])
             /\ U[c + 1].superclasses = T[c + 1].superclasses
             /\ SameUsers(U[c + 1], T[c + 1])
             /\ SameRest(U[c + 1], T[c + 1])
  <2>1. PICK q, r : q = U[c + 1] /\ r = T[c + 1]
    OBVIOUS
  <2>2. c + 1 \in 1 .. Len(T) /\ (c + 1) - 1 = c /\ T[c + 1] # Gone /\ r \in Object
    BY <2>1, LivingIs DEF Living
  <2>3. q = IF c \in S THEN GainsSubclass(r, id) ELSE r
    BY <1>2, <2>1, <2>2
  <2>4. /\ q.subclasses = IF c \in S THEN Append(r.subclasses, id) ELSE r.subclasses
        /\ SameInstances(q, r)
        /\ q.superclasses = r.superclasses
        /\ SameUsers(q, r)
        /\ SameRest(q, r)
    <3>1. CASE c \in S
      <4>1. q = GainsSubclass(r, id)
        BY <2>3, <3>1
      <4> QED BY <2>2, <3>1, <4>1, LivingIs, GainsSubclassIs
    <3>2. CASE c \notin S
      <4>1. q = r
        BY <2>3, <3>2
      <4> QED BY <3>2, <4>1 DEF SameInstances, SameUsers, SameRest
    <3> QED BY <3>1, <3>2
  <2> QED BY <2>1, <2>4
<1>5. Shape(U, T)
  BY <1>1, <1>3, Shaped
<1> QED BY <1>4, <1>5

LEMMA AtLosesSubclass ==
  ASSUME NEW T \in Tables, NEW S, NEW id \in Id, NEW U,
         U = EachLosesSubclass(T, S, id)
  PROVE  /\ Shape(U, T)
         /\ \A c \in Living(T) :
              /\ U[c + 1].subclasses = IF c \in S THEN Without(T[c + 1].subclasses, id) ELSE T[c + 1].subclasses
              /\ SameInstances(U[c + 1], T[c + 1])
              /\ U[c + 1].superclasses = T[c + 1].superclasses
              /\ SameUsers(U[c + 1], T[c + 1])
              /\ SameRest(U[c + 1], T[c + 1])
<1>1. /\ DOMAIN T = 1 .. Len(T) /\ DOMAIN U = DOMAIN T
      /\ \A i \in 1 .. Len(T) : T[i] \in Object \cup {Gone}
      /\ U = [i \in DOMAIN T |-> U[i]]
  BY LivingIs DEF Tables, At, EachLosesSubclass
<1>2. \A i \in 1 .. Len(T) :
         U[i] = IF i - 1 \in S /\ T[i] # Gone THEN LosesSubclass(T[i], id) ELSE T[i]
  BY <1>1 DEF At, EachLosesSubclass
<1>3. ASSUME NEW i \in 1 .. Len(T)
      PROVE  U[i] \in Object \cup {Gone} /\ (U[i] = Gone <=> T[i] = Gone)
  <2>1. T[i] # Gone => LosesSubclass(T[i], id) \in Object /\ T[i] \in Object
    BY <1>1, LivingIs, LosesSubclassIs
  <2> QED BY <1>1, <1>2, <2>1, Absences
<1>4. ASSUME NEW c \in Living(T)
      PROVE  /\ U[c + 1].subclasses = IF c \in S THEN Without(T[c + 1].subclasses, id) ELSE T[c + 1].subclasses
             /\ SameInstances(U[c + 1], T[c + 1])
             /\ U[c + 1].superclasses = T[c + 1].superclasses
             /\ SameUsers(U[c + 1], T[c + 1])
             /\ SameRest(U[c + 1], T[c + 1])
  <2>1. PICK q, r : q = U[c + 1] /\ r = T[c + 1]
    OBVIOUS
  <2>2. c + 1 \in 1 .. Len(T) /\ (c + 1) - 1 = c /\ T[c + 1] # Gone /\ r \in Object
    BY <2>1, LivingIs DEF Living
  <2>3. q = IF c \in S THEN LosesSubclass(r, id) ELSE r
    BY <1>2, <2>1, <2>2
  <2>4. /\ q.subclasses = IF c \in S THEN Without(r.subclasses, id) ELSE r.subclasses
        /\ SameInstances(q, r)
        /\ q.superclasses = r.superclasses
        /\ SameUsers(q, r)
        /\ SameRest(q, r)
    <3>1. CASE c \in S
      <4>1. q = LosesSubclass(r, id)
        BY <2>3, <3>1
      <4> QED BY <2>2, <3>1, <4>1, LivingIs, LosesSubclassIs
    <3>2. CASE c \notin S
      <4>1. q = r
        BY <2>3, <3>2
      <4> QED BY <3>2, <4>1 DEF SameInstances, SameUsers, SameRest
    <3> QED BY <3>1, <3>2
  <2> QED BY <2>1, <2>4
<1>5. Shape(U, T)
  BY <1>1, <1>3, Shaped
<1> QED BY <1>4, <1>5

LEMMA AtGainsUser ==
  ASSUME NEW T \in Tables, NEW S, NEW id \in Id, NEW U,
         U = EachGainsUser(T, S, id)
  PROVE  /\ Shape(U, T)
         /\ \A c \in Living(T) :
              /\ U[c + 1].users = IF c \in S THEN Append(T[c + 1].users, id) ELSE T[c + 1].users
              /\ SameInstances(U[c + 1], T[c + 1])
              /\ SameSubclasses(U[c + 1], T[c + 1])
              /\ U[c + 1].classMixins = T[c + 1].classMixins
              /\ SameRest(U[c + 1], T[c + 1])
<1>1. /\ DOMAIN T = 1 .. Len(T) /\ DOMAIN U = DOMAIN T
      /\ \A i \in 1 .. Len(T) : T[i] \in Object \cup {Gone}
      /\ U = [i \in DOMAIN T |-> U[i]]
  BY LivingIs DEF Tables, At, EachGainsUser
<1>2. \A i \in 1 .. Len(T) :
         U[i] = IF i - 1 \in S /\ T[i] # Gone THEN GainsUser(T[i], id) ELSE T[i]
  BY <1>1 DEF At, EachGainsUser
<1>3. ASSUME NEW i \in 1 .. Len(T)
      PROVE  U[i] \in Object \cup {Gone} /\ (U[i] = Gone <=> T[i] = Gone)
  <2>1. T[i] # Gone => GainsUser(T[i], id) \in Object /\ T[i] \in Object
    BY <1>1, LivingIs, GainsUserIs
  <2> QED BY <1>1, <1>2, <2>1, Absences
<1>4. ASSUME NEW c \in Living(T)
      PROVE  /\ U[c + 1].users = IF c \in S THEN Append(T[c + 1].users, id) ELSE T[c + 1].users
             /\ SameInstances(U[c + 1], T[c + 1])
             /\ SameSubclasses(U[c + 1], T[c + 1])
             /\ U[c + 1].classMixins = T[c + 1].classMixins
             /\ SameRest(U[c + 1], T[c + 1])
  <2>1. PICK q, r : q = U[c + 1] /\ r = T[c + 1]
    OBVIOUS
  <2>2. c + 1 \in 1 .. Len(T) /\ (c + 1) - 1 = c /\ T[c + 1] # Gone /\ r \in Object
    BY <2>1, LivingIs DEF Living
  <2>3. q = IF c \in S THEN GainsUser(r, id) ELSE r
    BY <1>2, <2>1, <2>2
  <2>4. /\ q.users = IF c \in S THEN Append(r.users, id) ELSE r.users
        /\ SameInstances(q, r)
        /\ SameSubclasses(q, r)
        /\ q.classMixins = r.classMixins
        /\ SameRest(q, r)
    <3>1. CASE c \in S
      <4>1. q = GainsUser(r, id)
        BY <2>3, <3>1
      <4> QED BY <2>2, <3>1, <4>1, LivingIs, GainsUserIs
    <3>2. CASE c \notin S
      <4>1. q = r
        BY <2>3, <3>2
      <4> QED BY <3>2, <4>1 DEF SameInstances, SameSubclasses, SameRest
    <3> QED BY <3>1, <3>2
  <2> QED BY <2>1, <2>4
<1>5. Shape(U, T)
  BY <1>1, <1>3, Shaped
<1> QED BY <1>4, <1>5

LEMMA AtLosesUser ==
  ASSUME NEW T \in Tables, NEW S, NEW id \in Id, NEW U,
         U = EachLosesUser(T, S, id)
  PROVE  /\ Shape(U, T)
         /\ \A c \in Living(T) :
              /\ U[c + 1].users = IF c \in S THEN Without(T[c + 1].users, id) ELSE T[c + 1].users
              /\ SameInstances(U[c + 1], T[c + 1])
              /\ SameSubclasses(U[c + 1], T[c + 1])
              /\ U[c + 1].classMixins = T[c + 1].classMixins
              /\ SameRest(U[c + 1], T[c + 1])
<1>1. /\ DOMAIN T = 1 .. Len(T) /\ DOMAIN U = DOMAIN T
      /\ \A i \in 1 .. Len(T) : T[i] \in Object \cup {Gone}
      /\ U = [i \in DOMAIN T |-> U[i]]
  BY LivingIs DEF Tables, At, EachLosesUser
<1>2. \A i \in 1 .. Len(T) :
         U[i] = IF i - 1 \in S /\ T[i] # Gone THEN LosesUser(T[i], id) ELSE T[i]
  BY <1>1 DEF At, EachLosesUser
<1>3. ASSUME NEW i \in 1 .. Len(T)
      PROVE  U[i] \in Object \cup {Gone} /\ (U[i] = Gone <=> T[i] = Gone)
  <2>1. T[i] # Gone => LosesUser(T[i], id) \in Object /\ T[i] \in Object
    BY <1>1, LivingIs, LosesUserIs
  <2> QED BY <1>1, <1>2, <2>1, Absences
<1>4. ASSUME NEW c \in Living(T)
      PROVE  /\ U[c + 1].users = IF c \in S THEN Without(T[c + 1].users, id) ELSE T[c + 1].users
             /\ SameInstances(U[c + 1], T[c + 1])
             /\ SameSubclasses(U[c + 1], T[c + 1])
             /\ U[c + 1].classMixins = T[c + 1].classMixins
             /\ SameRest(U[c + 1], T[c + 1])
  <2>1. PICK q, r : q = U[c + 1] /\ r = T[c + 1]
    OBVIOUS
  <2>2. c + 1 \in 1 .. Len(T) /\ (c + 1) - 1 = c /\ T[c + 1] # Gone /\ r \in Object
    BY <2>1, LivingIs DEF Living
  <2>3. q = IF c \in S THEN LosesUser(r, id) ELSE r
    BY <1>2, <2>1, <2>2
  <2>4. /\ q.users = IF c \in S THEN Without(r.users, id) ELSE r.users
        /\ SameInstances(q, r)
        /\ SameSubclasses(q, r)
        /\ q.classMixins = r.classMixins
        /\ SameRest(q, r)
    <3>1. CASE c \in S
      <4>1. q = LosesUser(r, id)
        BY <2>3, <3>1
      <4> QED BY <2>2, <3>1, <4>1, LivingIs, LosesUserIs
    <3>2. CASE c \notin S
      <4>1. q = r
        BY <2>3, <3>2
      <4> QED BY <3>2, <4>1 DEF SameInstances, SameSubclasses, SameRest
    <3> QED BY <3>1, <3>2
  <2> QED BY <2>1, <2>4
<1>5. Shape(U, T)
  BY <1>1, <1>3, Shaped
<1> QED BY <1>4, <1>5

LEMMA AtInherits ==
  ASSUME NEW T \in Tables, NEW S, NEW supers \in Seq(Id), NEW U,
         U = EachInherits(T, S, supers)
  PROVE  /\ Shape(U, T)
         /\ \A c \in Living(T) :
              /\ U[c + 1].superclasses = IF c \in S THEN supers ELSE T[c + 1].superclasses
              /\ SameInstances(U[c + 1], T[c + 1])
              /\ U[c + 1].subclasses = T[c + 1].subclasses
              /\ SameUsers(U[c + 1], T[c + 1])
              /\ SameRest(U[c + 1], T[c + 1])
<1>1. /\ DOMAIN T = 1 .. Len(T) /\ DOMAIN U = DOMAIN T
      /\ \A i \in 1 .. Len(T) : T[i] \in Object \cup {Gone}
      /\ U = [i \in DOMAIN T |-> U[i]]
  BY LivingIs DEF Tables, At, EachInherits
<1>2. \A i \in 1 .. Len(T) :
         U[i] = IF i - 1 \in S /\ T[i] # Gone THEN Inherits(T[i], supers) ELSE T[i]
  BY <1>1 DEF At, EachInherits
<1>3. ASSUME NEW i \in 1 .. Len(T)
      PROVE  U[i] \in Object \cup {Gone} /\ (U[i] = Gone <=> T[i] = Gone)
  <2>1. T[i] # Gone => Inherits(T[i], supers) \in Object /\ T[i] \in Object
    BY <1>1, LivingIs, InheritsIs
  <2> QED BY <1>1, <1>2, <2>1, Absences
<1>4. ASSUME NEW c \in Living(T)
      PROVE  /\ U[c + 1].superclasses = IF c \in S THEN supers ELSE T[c + 1].superclasses
             /\ SameInstances(U[c + 1], T[c + 1])
             /\ U[c + 1].subclasses = T[c + 1].subclasses
             /\ SameUsers(U[c + 1], T[c + 1])
             /\ SameRest(U[c + 1], T[c + 1])
  <2>1. PICK q, r : q = U[c + 1] /\ r = T[c + 1]
    OBVIOUS
  <2>2. c + 1 \in 1 .. Len(T) /\ (c + 1) - 1 = c /\ T[c + 1] # Gone /\ r \in Object
    BY <2>1, LivingIs DEF Living
  <2>3. q = IF c \in S THEN Inherits(r, supers) ELSE r
    BY <1>2, <2>1, <2>2
  <2>4. /\ q.superclasses = IF c \in S THEN supers ELSE r.superclasses
        /\ SameInstances(q, r)
        /\ q.subclasses = r.subclasses
        /\ SameUsers(q, r)
        /\ SameRest(q, r)
    <3>1. CASE c \in S
      <4>1. q = Inherits(r, supers)
        BY <2>3, <3>1
      <4> QED BY <2>2, <3>1, <4>1, LivingIs, InheritsIs
    <3>2. CASE c \notin S
      <4>1. q = r
        BY <2>3, <3>2
      <4> QED BY <3>2, <4>1 DEF SameInstances, SameUsers, SameRest
    <3> QED BY <3>1, <3>2
  <2> QED BY <2>1, <2>4
<1>5. Shape(U, T)
  BY <1>1, <1>3, Shaped
<1> QED BY <1>4, <1>5

LEMMA AtMixes ==
  ASSUME NEW T \in Tables, NEW S, NEW mixins \in Seq(Id), NEW U,
         U = EachMixes(T, S, mixins)
  PROVE  /\ Shape(U, T)
         /\ \A c \in Living(T) :
              /\ U[c + 1].mixins = IF c \in S THEN mixins ELSE T[c + 1].mixins
              /\ U[c + 1].class = T[c + 1].class
              /\ U[c + 1].instances = T[c + 1].instances
              /\ SameSubclasses(U[c + 1], T[c + 1])
              /\ SameUsers(U[c + 1], T[c + 1])
              /\ SameRest(U[c + 1], T[c + 1])
<1>1. /\ DOMAIN T = 1 .. Len(T) /\ DOMAIN U = DOMAIN T
      /\ \A i \in 1 .. Len(T) : T[i] \in Object \cup {Gone}
      /\ U = [i \in DOMAIN T |-> U[i]]
  BY LivingIs DEF Tables, At, EachMixes
<1>2. \A i \in 1 .. Len(T) :
         U[i] = IF i - 1 \in S /\ T[i] # Gone THEN Mixes(T[i], mixins) ELSE T[i]
  BY <1>1 DEF At, EachMixes
<1>3. ASSUME NEW i \in 1 .. Len(T)
      PROVE  U[i] \in Object \cup {Gone} /\ (U[i] = Gone <=> T[i] = Gone)
  <2>1. T[i] # Gone => Mixes(T[i], mixins) \in Object /\ T[i] \in Object
    BY <1>1, LivingIs, MixesIs
  <2> QED BY <1>1, <1>2, <2>1, Absences
<1>4. ASSUME NEW c \in Living(T)
      PROVE  /\ U[c + 1].mixins = IF c \in S THEN mixins ELSE T[c + 1].mixins
             /\ U[c + 1].class = T[c + 1].class
             /\ U[c + 1].instances = T[c + 1].instances
             /\ SameSubclasses(U[c + 1], T[c + 1])
             /\ SameUsers(U[c + 1], T[c + 1])
             /\ SameRest(U[c + 1], T[c + 1])
  <2>1. PICK q, r : q = U[c + 1] /\ r = T[c + 1]
    OBVIOUS
  <2>2. c + 1 \in 1 .. Len(T) /\ (c + 1) - 1 = c /\ T[c + 1] # Gone /\ r \in Object
    BY <2>1, LivingIs DEF Living
  <2>3. q = IF c \in S THEN Mixes(r, mixins) ELSE r
    BY <1>2, <2>1, <2>2
  <2>4. /\ q.mixins = IF c \in S THEN mixins ELSE r.mixins
        /\ q.class = r.class
        /\ q.instances = r.instances
        /\ SameSubclasses(q, r)
        /\ SameUsers(q, r)
        /\ SameRest(q, r)
    <3>1. CASE c \in S
      <4>1. q = Mixes(r, mixins)
        BY <2>3, <3>1
      <4> QED BY <2>2, <3>1, <4>1, LivingIs, MixesIs
    <3>2. CASE c \notin S
      <4>1. q = r
        BY <2>3, <3>2
      <4> QED BY <3>2, <4>1 DEF SameSubclasses, SameUsers, SameRest
    <3> QED BY <3>1, <3>2
  <2> QED BY <2>1, <2>4
<1>5. Shape(U, T)
  BY <1>1, <1>3, Shaped
<1> QED BY <1>4, <1>5

LEMMA AtClassMixes ==
  ASSUME NEW T \in Tables, NEW S, NEW mixins \in Seq(Id), NEW U,
         U = EachClassMixes(T, S, mixins)
  PROVE  /\ Shape(U, T)
         /\ \A c \in Living(T) :
              /\ U[c + 1].classMixins = IF c \in S THEN mixins ELSE T[c + 1].classMixins
              /\ SameInstances(U[c + 1], T[c + 1])
              /\ SameSubclasses(U[c + 1], T[c + 1])
              /\ U[c + 1].users = T[c + 1].users
              /\ SameRest(U[c + 1], T[c + 1])
<1>1. /\ DOMAIN T = 1 .. Len(T) /\ DOMAIN U = DOMAIN T
      /\ \A i \in 1 .. Len(T) : T[i] \in Object \cup {Gone}
      /\ U = [i \in DOMAIN T |-> U[i]]
  BY LivingIs DEF Tables, At, EachClassMixes
<1>2. \A i \in 1 .. Len(T) :
         U[i] = IF i - 1 \in S /\ T[i] # Gone THEN ClassMixes(T[i], mixins) ELSE T[i]
  BY <1>1 DEF At, EachClassMixes
<1>3. ASSUME NEW i \in 1 .. Len(T)
      PROVE  U[i] \in Object \cup {Gone} /\ (U[i] = Gone <=> T[i] = Gone)
  <2>1. T[i] # Gone => ClassMixes(T[i], mixins) \in Object /\ T[i] \in Object
    BY <1>1, LivingIs, ClassMixesIs
  <2> QED BY <1>1, <1>2, <2>1, Absences
<1>4. ASSUME NEW c \in Living(T)
      PROVE  /\ U[c + 1].classMixins = IF c \in S THEN mixins ELSE T[c + 1].classMixins
             /\ SameInstances(U[c + 1], T[c + 1])
             /\ SameSubclasses(U[c + 1], T[c + 1])
             /\ U[c + 1].users = T[c + 1].users
             /\ SameRest(U[c + 1], T[c + 1])
  <2>1. PICK q, r : q = U[c + 1] /\ r = T[c + 1]
    OBVIOUS
  <2>2. c + 1 \in 1 .. Len(T) /\ (c + 1) - 1 = c /\ T[c + 1] # Gone /\ r \in Object
    BY <2>1, LivingIs DEF Living
  <2>3. q = IF c \in S THEN ClassMixes(r, mixins) ELSE r
    BY <1>2, <2>1, <2>2
  <2>4. /\ q.classMixins = IF c \in S THEN mixins ELSE r.classMixins
        /\ SameInstances(q, r)
        /\ SameSubclasses(q, r)
        /\ q.users = r.users
        /\ SameRest(q, r)
    <3>1. CASE c \in S
      <4>1. q = ClassMixes(r, mixins)
        BY <2>3, <3>1
      <4> QED BY <2>2, <3>1, <4>1, LivingIs, ClassMixesIs
    <3>2. CASE c \notin S
      <4>1. q = r
        BY <2>3, <3>2
      <4> QED BY <3>2, <4>1 DEF SameInstances, SameSubclasses, SameRest
    <3> QED BY <3>1, <3>2
  <2> QED BY <2>1, <2>4
<1>5. Shape(U, T)
  BY <1>1, <1>3, Shaped
<1> QED BY <1>4, <1>5

LEMMA AtLosesMixin ==
  ASSUME NEW T \in Tables, NEW S, NEW id \in Id, NEW U,
         U = EachLosesMixin(T, S, id)
  PROVE  /\ Shape(U, T)
         /\ \A c \in Living(T) :
              /\ U[c + 1].mixins = IF c \in S THEN Without(T[c + 1].mixins, id) ELSE T[c + 1].mixins
              /\ U[c + 1].classMixins = IF c \in S THEN Without(T[c + 1].classMixins, id) ELSE T[c + 1].classMixins
              /\ U[c + 1].class = T[c + 1].class
              /\ U[c + 1].instances = T[c + 1].instances
              /\ SameSubclasses(U[c + 1], T[c + 1])
              /\ U[c + 1].users = T[c + 1].users
              /\ SameRest(U[c + 1], T[c + 1])
<1>1. /\ DOMAIN T = 1 .. Len(T) /\ DOMAIN U = DOMAIN T
      /\ \A i \in 1 .. Len(T) : T[i] \in Object \cup {Gone}
      /\ U = [i \in DOMAIN T |-> U[i]]
  BY LivingIs DEF Tables, At, EachLosesMixin
<1>2. \A i \in 1 .. Len(T) :
         U[i] = IF i - 1 \in S /\ T[i] # Gone THEN LosesMixin(T[i], id) ELSE T[i]
  BY <1>1 DEF At, EachLosesMixin
<1>3. ASSUME NEW i \in 1 .. Len(T)
      PROVE  U[i] \in Object \cup {Gone} /\ (U[i] = Gone <=> T[i] = Gone)
  <2>1. T[i] # Gone => LosesMixin(T[i], id) \in Object /\ T[i] \in Object
    BY <1>1, LivingIs, LosesMixinIs
  <2> QED BY <1>1, <1>2, <2>1, Absences
<1>4. ASSUME NEW c \in Living(T)
      PROVE  /\ U[c + 1].mixins = IF c \in S THEN Without(T[c + 1].mixins, id) ELSE T[c + 1].mixins
             /\ U[c + 1].classMixins = IF c \in S THEN Without(T[c + 1].classMixins, id) ELSE T[c + 1].classMixins
             /\ U[c + 1].class = T[c + 1].class
             /\ U[c + 1].instances = T[c + 1].instances
             /\ SameSubclasses(U[c + 1], T[c + 1])
             /\ U[c + 1].users = T[c + 1].users
             /\ SameRest(U[c + 1], T[c + 1])
  <2>1. PICK q, r : q = U[c + 1] /\ r = T[c + 1]
    OBVIOUS
  <2>2. c + 1 \in 1 .. Len(T) /\ (c + 1) - 1 = c /\ T[c + 1] # Gone /\ r \in Object
    BY <2>1, LivingIs DEF Living
  <2>3. q = IF c \in S THEN LosesMixin(r, id) ELSE r
    BY <1>2, <2>1, <2>2
  <2>4. /\ q.mixins = IF c \in S THEN Without(r.mixins, id) ELSE r.mixins
        /\ q.classMixins = IF c \in S THEN Without(r.classMixins, id) ELSE r.classMixins
        /\ q.class = r.class
        /\ q.instances = r.instances
        /\ SameSubclasses(q, r)
        /\ q.users = r.users
        /\ SameRest(q, r)
    <3>1. CASE c \in S
      <4>1. q = LosesMixin(r, id)
        BY <2>3, <3>1
      <4> QED BY <2>2, <3>1, <4>1, LivingIs, LosesMixinIs
    <3>2. CASE c \notin S
      <4>1. q = r
        BY <2>3, <3>2
      <4> QED BY <3>2, <4>1 DEF SameSubclasses, SameRest
    <3> QED BY <3>1, <3>2
  <2> QED BY <2>1, <2>4
<1>5. Shape(U, T)
  BY <1>1, <1>3, Shaped
<1> QED BY <1>4, <1>5

LEMMA AtMoves ==
  ASSUME NEW T \in Tables, NEW S, NEW home \in Places, NEW U,
         U = EachMoves(T, S, home)
  PROVE  /\ Shape(U, T)
         /\ \A c \in Living(T) :
              /\ U[c + 1].home = IF c \in S THEN home ELSE T[c + 1].home
              /\ SameInstances(U[c + 1], T[c + 1])
              /\ SameSubclasses(U[c + 1], T[c + 1])
              /\ SameUsers(U[c + 1], T[c + 1])
              /\ U[c + 1].is_class = T[c + 1].is_class
              /\ U[c + 1].destructing = T[c + 1].destructing
<1>1. /\ DOMAIN T = 1 .. Len(T) /\ DOMAIN U = DOMAIN T
      /\ \A i \in 1 .. Len(T) : T[i] \in Object \cup {Gone}
      /\ U = [i \in DOMAIN T |-> U[i]]
  BY LivingIs DEF Tables, At, EachMoves
<1>2. \A i \in 1 .. Len(T) :
         U[i] = IF i - 1 \in S /\ T[i] # Gone THEN Moves(T[i], home) ELSE T[i]
  BY <1>1 DEF At, EachMoves
<1>3. ASSUME NEW i \in 1 .. Len(T)
      PROVE  U[i] \in Object \cup {Gone} /\ (U[i] = Gone <=> T[i] = Gone)
  <2>1. T[i] # Gone => Moves(T[i], home) \in Object /\ T[i] \in Object
    BY <1>1, LivingIs, MovesIs DEF Places
  <2> QED BY <1>1, <1>2, <2>1, Absences
<1>4. ASSUME NEW c \in Living(T)
      PROVE  /\ U[c + 1].home = IF c \in S THEN home ELSE T[c + 1].home
             /\ SameInstances(U[c + 1], T[c + 1])
             /\ SameSubclasses(U[c + 1], T[c + 1])
             /\ SameUsers(U[c + 1], T[c + 1])
             /\ U[c + 1].is_class = T[c + 1].is_class
             /\ U[c + 1].destructing = T[c + 1].destructing
  <2>1. PICK q, r : q = U[c + 1] /\ r = T[c + 1]
    OBVIOUS
  <2>2. c + 1 \in 1 .. Len(T) /\ (c + 1) - 1 = c /\ T[c + 1] # Gone /\ r \in Object
    BY <2>1, LivingIs DEF Living
  <2>3. q = IF c \in S THEN Moves(r, home) ELSE r
    BY <1>2, <2>1, <2>2
  <2>4. /\ q.home = IF c \in S THEN home ELSE r.home
        /\ SameInstances(q, r)
        /\ SameSubclasses(q, r)
        /\ SameUsers(q, r)
        /\ q.is_class = r.is_class
        /\ q.destructing = r.destructing
    <3>1. CASE c \in S
      <4>1. q = Moves(r, home)
        BY <2>3, <3>1
      <4> QED BY <2>2, <3>1, <4>1, LivingIs, MovesIs DEF Places
    <3>2. CASE c \notin S
      <4>1. q = r
        BY <2>3, <3>2
      <4> QED BY <3>2, <4>1 DEF SameInstances, SameSubclasses, SameUsers
    <3> QED BY <3>1, <3>2
  <2> QED BY <2>1, <2>4
<1>5. Shape(U, T)
  BY <1>1, <1>3, Shaped
<1> QED BY <1>4, <1>5

LEMMA AtChangesClass ==
  ASSUME NEW T \in Tables, NEW S, NEW cls \in Id, NEW U,
         U = EachChangesClass(T, S, cls)
  PROVE  /\ Shape(U, T)
         /\ \A c \in Living(T) :
              /\ U[c + 1].class = IF c \in S THEN cls ELSE T[c + 1].class
              /\ U[c + 1].mixins = T[c + 1].mixins
              /\ U[c + 1].instances = T[c + 1].instances
              /\ SameSubclasses(U[c + 1], T[c + 1])
              /\ SameUsers(U[c + 1], T[c + 1])
              /\ SameRest(U[c + 1], T[c + 1])
<1>1. /\ DOMAIN T = 1 .. Len(T) /\ DOMAIN U = DOMAIN T
      /\ \A i \in 1 .. Len(T) : T[i] \in Object \cup {Gone}
      /\ U = [i \in DOMAIN T |-> U[i]]
  BY LivingIs DEF Tables, At, EachChangesClass
<1>2. \A i \in 1 .. Len(T) :
         U[i] = IF i - 1 \in S /\ T[i] # Gone THEN ChangesClass(T[i], cls) ELSE T[i]
  BY <1>1 DEF At, EachChangesClass
<1>3. ASSUME NEW i \in 1 .. Len(T)
      PROVE  U[i] \in Object \cup {Gone} /\ (U[i] = Gone <=> T[i] = Gone)
  <2>1. T[i] # Gone => ChangesClass(T[i], cls) \in Object /\ T[i] \in Object
    BY <1>1, LivingIs, ChangesClassIs
  <2> QED BY <1>1, <1>2, <2>1, Absences
<1>4. ASSUME NEW c \in Living(T)
      PROVE  /\ U[c + 1].class = IF c \in S THEN cls ELSE T[c + 1].class
             /\ U[c + 1].mixins = T[c + 1].mixins
             /\ U[c + 1].instances = T[c + 1].instances
             /\ SameSubclasses(U[c + 1], T[c + 1])
             /\ SameUsers(U[c + 1], T[c + 1])
             /\ SameRest(U[c + 1], T[c + 1])
  <2>1. PICK q, r : q = U[c + 1] /\ r = T[c + 1]
    OBVIOUS
  <2>2. c + 1 \in 1 .. Len(T) /\ (c + 1) - 1 = c /\ T[c + 1] # Gone /\ r \in Object
    BY <2>1, LivingIs DEF Living
  <2>3. q = IF c \in S THEN ChangesClass(r, cls) ELSE r
    BY <1>2, <2>1, <2>2
  <2>4. /\ q.class = IF c \in S THEN cls ELSE r.class
        /\ q.mixins = r.mixins
        /\ q.instances = r.instances
        /\ SameSubclasses(q, r)
        /\ SameUsers(q, r)
        /\ SameRest(q, r)
    <3>1. CASE c \in S
      <4>1. q = ChangesClass(r, cls)
        BY <2>3, <3>1
      <4> QED BY <2>2, <3>1, <4>1, LivingIs, ChangesClassIs
    <3>2. CASE c \notin S
      <4>1. q = r
        BY <2>3, <3>2
      <4> QED BY <3>2, <4>1 DEF SameSubclasses, SameUsers, SameRest
    <3> QED BY <3>1, <3>2
  <2> QED BY <2>1, <2>4
<1>5. Shape(U, T)
  BY <1>1, <1>3, Shaped
<1> QED BY <1>4, <1>5

LEMMA AtCondemns ==
  ASSUME NEW T \in Tables, NEW S, NEW U,
         U = EachCondemns(T, S)
  PROVE  /\ Shape(U, T)
         /\ \A c \in Living(T) :
              /\ (c \in S => U[c + 1].destructing)
              /\ (c \notin S => U[c + 1].destructing = T[c + 1].destructing)
              /\ SameInstances(U[c + 1], T[c + 1])
              /\ SameSubclasses(U[c + 1], T[c + 1])
              /\ SameUsers(U[c + 1], T[c + 1])
              /\ U[c + 1].is_class = T[c + 1].is_class
              /\ U[c + 1].home = T[c + 1].home
<1>1. /\ DOMAIN T = 1 .. Len(T) /\ DOMAIN U = DOMAIN T
      /\ \A i \in 1 .. Len(T) : T[i] \in Object \cup {Gone}
      /\ U = [i \in DOMAIN T |-> U[i]]
  BY LivingIs DEF Tables, At, EachCondemns
<1>2. \A i \in 1 .. Len(T) :
         U[i] = IF i - 1 \in S /\ T[i] # Gone THEN Condemns(T[i]) ELSE T[i]
  BY <1>1 DEF At, EachCondemns
<1>3. ASSUME NEW i \in 1 .. Len(T)
      PROVE  U[i] \in Object \cup {Gone} /\ (U[i] = Gone <=> T[i] = Gone)
  <2>1. T[i] # Gone => Condemns(T[i]) \in Object /\ T[i] \in Object
    BY <1>1, LivingIs, CondemnsIs
  <2> QED BY <1>1, <1>2, <2>1, Absences
<1>4. ASSUME NEW c \in Living(T)
      PROVE  /\ (c \in S => U[c + 1].destructing)
             /\ (c \notin S => U[c + 1].destructing = T[c + 1].destructing)
             /\ SameInstances(U[c + 1], T[c + 1])
             /\ SameSubclasses(U[c + 1], T[c + 1])
             /\ SameUsers(U[c + 1], T[c + 1])
             /\ U[c + 1].is_class = T[c + 1].is_class
             /\ U[c + 1].home = T[c + 1].home
  <2>1. PICK q, r : q = U[c + 1] /\ r = T[c + 1]
    OBVIOUS
  <2>2. c + 1 \in 1 .. Len(T) /\ (c + 1) - 1 = c /\ T[c + 1] # Gone /\ r \in Object
    BY <2>1, LivingIs DEF Living
  <2>3. q = IF c \in S THEN Condemns(r) ELSE r
    BY <1>2, <2>1, <2>2
  <2>4. /\ (c \in S => q.destructing)
        /\ (c \notin S => q.destructing = r.destructing)
        /\ SameInstances(q, r)
        /\ SameSubclasses(q, r)
        /\ SameUsers(q, r)
        /\ q.is_class = r.is_class
        /\ q.home = r.home
    <3>1. CASE c \in S
      <4>1. q = Condemns(r)
        BY <2>3, <3>1
      <4> QED BY <2>2, <3>1, <4>1, LivingIs, CondemnsIs
    <3>2. CASE c \notin S
      <4>1. q = r
        BY <2>3, <3>2
      <4> QED BY <3>2, <4>1 DEF SameInstances, SameSubclasses, SameUsers
    <3> QED BY <3>1, <3>2
  <2> QED BY <2>1, <2>4
<1>5. Shape(U, T)
  BY <1>1, <1>3, Shaped
<1> QED BY <1>4, <1>5

LEMMA AtBecomesClass ==
  ASSUME NEW T \in Tables, NEW S, NEW cls \in Id, NEW U,
         U = EachBecomesClass(T, S, cls)
  PROVE  /\ Shape(U, T)
         /\ \A c \in Living(T) :
              /\ U[c + 1].class = IF c \in S THEN cls ELSE T[c + 1].class
              /\ (c \in S => U[c + 1].is_class)
              /\ (c \notin S => U[c + 1].is_class = T[c + 1].is_class)
              /\ U[c + 1].superclasses = IF c \in S THEN <<object_cls>> ELSE T[c + 1].superclasses
              /\ U[c + 1].mixins = T[c + 1].mixins
              /\ U[c + 1].instances = T[c + 1].instances
              /\ U[c + 1].subclasses = T[c + 1].subclasses
              /\ SameUsers(U[c + 1], T[c + 1])
              /\ U[c + 1].home = T[c + 1].home
              /\ U[c + 1].destructing = T[c + 1].destructing
<1>1. /\ DOMAIN T = 1 .. Len(T) /\ DOMAIN U = DOMAIN T
      /\ \A i \in 1 .. Len(T) : T[i] \in Object \cup {Gone}
      /\ U = [i \in DOMAIN T |-> U[i]]
  BY LivingIs DEF Tables, At, EachBecomesClass
<1>2. \A i \in 1 .. Len(T) :
         U[i] = IF i - 1 \in S /\ T[i] # Gone THEN BecomesClass(T[i], cls) ELSE T[i]
  BY <1>1 DEF At, EachBecomesClass
<1>3. ASSUME NEW i \in 1 .. Len(T)
      PROVE  U[i] \in Object \cup {Gone} /\ (U[i] = Gone <=> T[i] = Gone)
  <2>1. T[i] # Gone => BecomesClass(T[i], cls) \in Object /\ T[i] \in Object
    BY <1>1, LivingIs, BecomesClassIs
  <2> QED BY <1>1, <1>2, <2>1, Absences
<1>4. ASSUME NEW c \in Living(T)
      PROVE  /\ U[c + 1].class = IF c \in S THEN cls ELSE T[c + 1].class
             /\ (c \in S => U[c + 1].is_class)
             /\ (c \notin S => U[c + 1].is_class = T[c + 1].is_class)
             /\ U[c + 1].superclasses = IF c \in S THEN <<object_cls>> ELSE T[c + 1].superclasses
             /\ U[c + 1].mixins = T[c + 1].mixins
             /\ U[c + 1].instances = T[c + 1].instances
             /\ U[c + 1].subclasses = T[c + 1].subclasses
             /\ SameUsers(U[c + 1], T[c + 1])
             /\ U[c + 1].home = T[c + 1].home
             /\ U[c + 1].destructing = T[c + 1].destructing
  <2>1. PICK q, r : q = U[c + 1] /\ r = T[c + 1]
    OBVIOUS
  <2>2. c + 1 \in 1 .. Len(T) /\ (c + 1) - 1 = c /\ T[c + 1] # Gone /\ r \in Object
    BY <2>1, LivingIs DEF Living
  <2>3. q = IF c \in S THEN BecomesClass(r, cls) ELSE r
    BY <1>2, <2>1, <2>2
  <2>4. /\ q.class = IF c \in S THEN cls ELSE r.class
        /\ (c \in S => q.is_class)
        /\ (c \notin S => q.is_class = r.is_class)
        /\ q.superclasses = IF c \in S THEN <<object_cls>> ELSE r.superclasses
        /\ q.mixins = r.mixins
        /\ q.instances = r.instances
        /\ q.subclasses = r.subclasses
        /\ SameUsers(q, r)
        /\ q.home = r.home
        /\ q.destructing = r.destructing
    <3>1. CASE c \in S
      <4>1. q = BecomesClass(r, cls)
        BY <2>3, <3>1
      <4> QED BY <2>2, <3>1, <4>1, LivingIs, BecomesClassIs
    <3>2. CASE c \notin S
      <4>1. q = r
        BY <2>3, <3>2
      <4> QED BY <3>2, <4>1 DEF SameUsers
    <3> QED BY <3>1, <3>2
  <2> QED BY <2>1, <2>4
<1>5. Shape(U, T)
  BY <1>1, <1>3, Shaped
<1> QED BY <1>4, <1>5

-----------------------------------------------------------------------------
(* What the ends of the links say of one another, in any tables.           *)
Instances(T, c)  == {i \in Living(T) : T[i + 1].class = c \/ c \in ToSet(T[i + 1].mixins)}
Subclasses(T, c) == {i \in Living(T) : c \in ToSet(T[i + 1].superclasses)}
Users(T, c)      == {i \in Living(T) : c \in ToSet(T[i + 1].classMixins)}

InstancesAgree(T)  == \A c \in Living(T) : Lists1(T[c + 1].instances, Instances(T, c))
SubclassesAgree(T) == \A c \in Living(T) : Lists1(T[c + 1].subclasses, Subclasses(T, c))
UsersAgree(T)      == \A c \in Living(T) : Lists1(T[c + 1].users, Users(T, c))

(* Nothing leads to a number not given yet, and only a class inherits.     *)
LinksKnown(T) ==
  \A i \in Living(T) :
    /\ T[i + 1].class \in 0 .. Len(T) - 1
    /\ ToSet(T[i + 1].mixins) \subseteq 0 .. Len(T) - 1
    /\ ToSet(T[i + 1].superclasses) \subseteq 0 .. Len(T) - 1
    /\ ToSet(T[i + 1].classMixins) \subseteq 0 .. Len(T) - 1
OnlyClassesInherit(T) ==
  \A i \in Living(T) : ~T[i + 1].is_class => /\ ToSet(T[i + 1].superclasses) = {}
                                             /\ ToSet(T[i + 1].classMixins) = {}

Sane(T) == /\ T \in Tables /\ InstancesAgree(T) /\ SubclassesAgree(T) /\ UsersAgree(T)
           /\ LinksKnown(T) /\ OnlyClassesInherit(T)

(* Links of one kind that a change leaves agree as they did.               *)
LEMMA InstancesCarry ==
  ASSUME NEW T, NEW U, Shape(U, T), InstancesAgree(T),
         \A c \in Living(T) : SameInstances(U[c + 1], T[c + 1])
  PROVE  InstancesAgree(U)
<1>1. Living(U) = Living(T)
  BY DEF Shape
<1>2. \A c : Instances(U, c) = Instances(T, c)
  BY <1>1 DEF Instances, SameInstances
<1> QED BY <1>1, <1>2 DEF InstancesAgree, SameInstances

LEMMA SubclassesCarry ==
  ASSUME NEW T, NEW U, Shape(U, T), SubclassesAgree(T),
         \A c \in Living(T) : SameSubclasses(U[c + 1], T[c + 1])
  PROVE  SubclassesAgree(U)
<1>1. Living(U) = Living(T)
  BY DEF Shape
<1>2. \A c : Subclasses(U, c) = Subclasses(T, c)
  BY <1>1 DEF Subclasses, SameSubclasses
<1> QED BY <1>1, <1>2 DEF SubclassesAgree, SameSubclasses

LEMMA UsersCarry ==
  ASSUME NEW T, NEW U, Shape(U, T), UsersAgree(T),
         \A c \in Living(T) : SameUsers(U[c + 1], T[c + 1])
  PROVE  UsersAgree(U)
<1>1. Living(U) = Living(T)
  BY DEF Shape
<1>2. \A c : Users(U, c) = Users(T, c)
  BY <1>1 DEF Users, SameUsers
<1> QED BY <1>1, <1>2 DEF UsersAgree, SameUsers

(* One object leaves a list and enters it, or either, or neither.          *)
Relists(l, x, c, out, in, m) ==
  LET k == IF c \in out THEN Without(l, x) ELSE l
  IN  m = IF c \in in THEN Append(k, x) ELSE k

LEMMA Relisted ==
  ASSUME NEW l \in Seq(Id), NEW x \in Id, NEW M, Lists1(l, M),
         NEW c, NEW out, NEW in, NEW m, Relists(l, x, c, out, in, m),
         c \in in => c \in out \/ x \notin M,
         NEW N, \A i : i # x => (i \in N <=> i \in M),
         x \in N <=> c \in in \/ (x \in M /\ c \notin out)
  PROVE  Lists1(m, N)
<1>0. PICK k : k = IF c \in out THEN Without(l, x) ELSE l
  OBVIOUS
<1>a. m = IF c \in in THEN Append(k, x) ELSE k
  BY <1>0 DEF Relists
<1>1. IsInjective(l) /\ ToSet(l) = M
  BY DEF Lists1
<1>2. /\ k \in Seq(Id) /\ IsInjective(k)
      /\ ToSet(k) = IF c \in out THEN M \ {x} ELSE M
  BY <1>0, <1>1, WithoutIs
<1>3. c \in in => x \notin ToSet(k)
  BY <1>2
<1>4. CASE c \in in
  <2>1. m \in Seq(Id) /\ IsInjective(m) /\ ToSet(m) = ToSet(k) \cup {x}
    BY <1>a, <1>2, <1>3, <1>4, AppendIs
  <2>2. ToSet(k) \cup {x} = N
    BY <1>2, <1>4
  <2> QED BY <2>1, <2>2 DEF Lists1
<1>5. CASE c \notin in
  <2>1. m = k
    BY <1>a, <1>5
  <2>2. \A i : i \in ToSet(k) <=> i \in N
    BY <1>2, <1>5
  <2>3. ToSet(k) = N
    BY <2>2
  <2> QED BY <1>2, <2>1, <2>3 DEF Lists1
<1> QED BY <1>4, <1>5

(* `mixin`, on an object: its place in the lists of the classes.           *)
LEMMA MixedIs ==
  ASSUME NEW T, Sane(T), NEW id \in Living(T), NEW mixins \in Seq(Id),
         ToSet(mixins) \subseteq 0 .. Len(T) - 1, NEW U, U = Mixed(T, id, mixins)
  PROVE  /\ Shape(U, T) /\ Sane(U)
         /\ \A c \in Living(T) :
              /\ U[c + 1].class = T[c + 1].class
              /\ U[c + 1].mixins = IF c = id THEN mixins ELSE T[c + 1].mixins
              /\ SameSubclasses(U[c + 1], T[c + 1])
              /\ SameUsers(U[c + 1], T[c + 1])
              /\ SameRest(U[c + 1], T[c + 1])
<1>1. T \in Tables /\ Living(T) \subseteq Id /\ id \in Id /\ \A c \in Living(T) : T[c + 1] \in Object
  BY LivingIs DEF Sane
<1>2. PICK out, in : /\ out = NotItsClass(T, id) /\ in = ToSet(mixins) \ {T[id + 1].class}
  OBVIOUS
<1>3. PICK one : one = EachLosesInstance(T, out, id)
  OBVIOUS
<1>4. PICK two : two = EachGainsInstance(one, in, id)
  OBVIOUS
<1>5. U = EachMixes(two, {id}, mixins)
  BY <1>2, <1>3, <1>4 DEF Mixed, EachLosesInstance, EachGainsInstance, EachMixes
<1>6. /\ Shape(one, T)
      /\ \A c \in Living(T) :
           /\ one[c + 1].instances = IF c \in out THEN Without(T[c + 1].instances, id)
                                     ELSE T[c + 1].instances
           /\ one[c + 1].class = T[c + 1].class /\ one[c + 1].mixins = T[c + 1].mixins
           /\ SameSubclasses(one[c + 1], T[c + 1]) /\ SameUsers(one[c + 1], T[c + 1])
           /\ SameRest(one[c + 1], T[c + 1])
  BY <1>1, <1>3, AtLosesInstance
<1>7. one \in Tables /\ Living(one) = Living(T) /\ Len(one) = Len(T)
  BY <1>6 DEF Shape
<1>8. /\ Shape(two, one)
      /\ \A c \in Living(T) :
           /\ two[c + 1].instances = IF c \in in THEN Append(one[c + 1].instances, id)
                                     ELSE one[c + 1].instances
           /\ two[c + 1].class = one[c + 1].class /\ two[c + 1].mixins = one[c + 1].mixins
           /\ SameSubclasses(two[c + 1], one[c + 1]) /\ SameUsers(two[c + 1], one[c + 1])
           /\ SameRest(two[c + 1], one[c + 1])
  BY <1>1, <1>4, <1>7, AtGainsInstance
<1>9. two \in Tables /\ Living(two) = Living(T) /\ Len(two) = Len(T)
  BY <1>7, <1>8 DEF Shape
<1>10. /\ Shape(U, two)
       /\ \A c \in Living(T) :
            /\ U[c + 1].mixins = IF c \in {id} THEN mixins ELSE two[c + 1].mixins
            /\ U[c + 1].class = two[c + 1].class /\ U[c + 1].instances = two[c + 1].instances
            /\ SameSubclasses(U[c + 1], two[c + 1]) /\ SameUsers(U[c + 1], two[c + 1])
            /\ SameRest(U[c + 1], two[c + 1])
  BY <1>5, <1>9, AtMixes
<1>11. Shape(U, T) /\ U \in Tables /\ Living(U) = Living(T) /\ Len(U) = Len(T)
  BY <1>9, <1>10 DEF Shape
<1>12. ASSUME NEW c \in Living(T)
       PROVE  /\ U[c + 1].class = T[c + 1].class
              /\ U[c + 1].mixins = IF c = id THEN mixins ELSE T[c + 1].mixins
              /\ U[c + 1].instances = IF c \in in THEN Append(one[c + 1].instances, id)
                                      ELSE one[c + 1].instances
              /\ SameSubclasses(U[c + 1], T[c + 1])
              /\ SameUsers(U[c + 1], T[c + 1])
              /\ SameRest(U[c + 1], T[c + 1])
  BY <1>6, <1>8, <1>10 DEF SameSubclasses, SameUsers, SameRest
<1>13. ASSUME NEW c \in Living(T)
       PROVE  Lists1(U[c + 1].instances, Instances(U, c))
  <2>1. PICK l, M, m, N : /\ l = T[c + 1].instances /\ M = Instances(T, c)
                          /\ m = U[c + 1].instances /\ N = Instances(U, c)
    OBVIOUS
  <2>2. l \in Seq(Id)
    BY <1>1, <2>1 DEF Object
  <2>3. Lists1(l, M)
    BY <2>1 DEF Sane, InstancesAgree
  <2>4. (id \in M <=> T[id + 1].class = c \/ c \in ToSet(T[id + 1].mixins)) /\ M \subseteq Living(T)
    BY <2>1 DEF Instances
  <2>6. c \in in => c \in out \/ id \notin M
    BY <1>2, <2>4 DEF NotItsClass
  <2>7. Relists(l, id, c, out, in, m)
    BY <1>6, <1>12, <2>1 DEF Relists
  <2>8. ASSUME NEW i, i # id PROVE i \in N <=> i \in M
    BY <1>11, <1>12, <2>1, <2>8 DEF Instances
  <2>9. id \in N <=> T[id + 1].class = c \/ c \in ToSet(mixins)
    BY <1>11, <1>12, <2>1 DEF Instances
  <2>10. id \in N <=> c \in in \/ (id \in M /\ c \notin out)
    BY <1>2, <2>4, <2>9 DEF NotItsClass
  <2>11. Lists1(m, N)
    BY <1>1, <2>2, <2>3, <2>6, <2>7, <2>8, <2>10, Relisted
  <2> QED BY <2>1, <2>11
<1>14. InstancesAgree(U)
  BY <1>11, <1>13 DEF InstancesAgree
<1>15. SubclassesAgree(U) /\ UsersAgree(U)
  BY <1>11, <1>12, SubclassesCarry, UsersCarry DEF Sane
<1>16. LinksKnown(U) /\ OnlyClassesInherit(U)
  <2>1. \A c \in Living(U) : /\ c \in Living(T)
                             /\ U[c + 1].superclasses = T[c + 1].superclasses
                             /\ U[c + 1].classMixins = T[c + 1].classMixins
                             /\ U[c + 1].is_class = T[c + 1].is_class
    BY <1>11, <1>12 DEF SameSubclasses, SameUsers, SameRest
  <2>2. LinksKnown(T) /\ OnlyClassesInherit(T)
    BY DEF Sane
  <2>3. LinksKnown(U)
    BY <1>11, <1>12, <2>1, <2>2 DEF LinksKnown
  <2> QED BY <2>1, <2>2, <2>3 DEF OnlyClassesInherit
<1> QED BY <1>11, <1>12, <1>14, <1>15, <1>16 DEF Sane

(* `superclass`.                                                           *)
LEMMA SuperclassedIs ==
  ASSUME NEW T, Sane(T), NEW cls \in Living(T), T[cls + 1].is_class, NEW list \in Seq(Id),
         ToSet(list) \subseteq 0 .. Len(T) - 1, NEW U, U = Superclassed(T, cls, list)
  PROVE  /\ Shape(U, T) /\ Sane(U)
         /\ \A c \in Living(T) :
              /\ U[c + 1].superclasses = IF c = cls THEN list ELSE T[c + 1].superclasses
              /\ SameInstances(U[c + 1], T[c + 1])
              /\ SameUsers(U[c + 1], T[c + 1])
              /\ SameRest(U[c + 1], T[c + 1])
<1>1. T \in Tables /\ Living(T) \subseteq Id /\ cls \in Id /\ \A c \in Living(T) : T[c + 1] \in Object
  BY LivingIs DEF Sane
<1>2. PICK out, in : out = ToSet(T[cls + 1].superclasses) /\ in = ToSet(list)
  OBVIOUS
<1>3. PICK one : one = EachLosesSubclass(T, out, cls)
  OBVIOUS
<1>4. PICK two : two = EachGainsSubclass(one, in, cls)
  OBVIOUS
<1>5. U = EachInherits(two, {cls}, list)
  BY <1>2, <1>3, <1>4 DEF Superclassed, EachLosesSubclass, EachGainsSubclass, EachInherits
<1>6. /\ Shape(one, T)
      /\ \A c \in Living(T) :
           /\ one[c + 1].subclasses = IF c \in out THEN Without(T[c + 1].subclasses, cls)
                                     ELSE T[c + 1].subclasses
           /\ one[c + 1].superclasses = T[c + 1].superclasses
           /\ SameInstances(one[c + 1], T[c + 1]) /\ SameUsers(one[c + 1], T[c + 1])
           /\ SameRest(one[c + 1], T[c + 1])
  BY <1>1, <1>3, AtLosesSubclass
<1>7. one \in Tables /\ Living(one) = Living(T) /\ Len(one) = Len(T)
  BY <1>6 DEF Shape
<1>8. /\ Shape(two, one)
      /\ \A c \in Living(T) :
           /\ two[c + 1].subclasses = IF c \in in THEN Append(one[c + 1].subclasses, cls)
                                     ELSE one[c + 1].subclasses
           /\ two[c + 1].superclasses = one[c + 1].superclasses
           /\ SameInstances(two[c + 1], one[c + 1]) /\ SameUsers(two[c + 1], one[c + 1])
           /\ SameRest(two[c + 1], one[c + 1])
  BY <1>1, <1>4, <1>7, AtGainsSubclass
<1>9. two \in Tables /\ Living(two) = Living(T) /\ Len(two) = Len(T)
  BY <1>7, <1>8 DEF Shape
<1>10. /\ Shape(U, two)
       /\ \A c \in Living(T) :
            /\ U[c + 1].superclasses = IF c \in {cls} THEN list ELSE two[c + 1].superclasses
            /\ U[c + 1].subclasses = two[c + 1].subclasses
            /\ SameInstances(U[c + 1], two[c + 1]) /\ SameUsers(U[c + 1], two[c + 1])
            /\ SameRest(U[c + 1], two[c + 1])
  BY <1>5, <1>9, AtInherits
<1>11. Shape(U, T) /\ U \in Tables /\ Living(U) = Living(T) /\ Len(U) = Len(T)
  BY <1>9, <1>10 DEF Shape
<1>12. ASSUME NEW c \in Living(T)
       PROVE  /\ U[c + 1].superclasses = IF c = cls THEN list ELSE T[c + 1].superclasses
              /\ U[c + 1].subclasses = IF c \in in THEN Append(one[c + 1].subclasses, cls)
                                      ELSE one[c + 1].subclasses
              /\ SameInstances(U[c + 1], T[c + 1])
              /\ SameUsers(U[c + 1], T[c + 1])
              /\ SameRest(U[c + 1], T[c + 1])
  BY <1>6, <1>8, <1>10 DEF SameInstances, SameUsers, SameRest
<1>13. ASSUME NEW c \in Living(T)
       PROVE  Lists1(U[c + 1].subclasses, Subclasses(U, c))
  <2>1. PICK l, M, m, N : /\ l = T[c + 1].subclasses /\ M = Subclasses(T, c)
                          /\ m = U[c + 1].subclasses /\ N = Subclasses(U, c)
    OBVIOUS
  <2>2. l \in Seq(Id)
    BY <1>1, <2>1 DEF Object
  <2>3. Lists1(l, M)
    BY <2>1 DEF Sane, SubclassesAgree
  <2>4. (cls \in M <=> c \in out) /\ M \subseteq Living(T)
    BY <1>2, <2>1 DEF Subclasses
  <2>5. Relists(l, cls, c, out, in, m)
    BY <1>6, <1>12, <2>1 DEF Relists
  <2>6. ASSUME NEW i, i # cls PROVE i \in N <=> i \in M
    BY <1>11, <1>12, <2>1, <2>6 DEF Subclasses
  <2>7. cls \in N <=> c \in in \/ (cls \in M /\ c \notin out)
    BY <1>2, <1>11, <1>12, <2>1, <2>4 DEF Subclasses
  <2>8. c \in in => c \in out \/ cls \notin M
    BY <2>4
  <2>9. Lists1(m, N)
    BY <1>1, <2>2, <2>3, <2>5, <2>6, <2>7, <2>8, Relisted
  <2> QED BY <2>1, <2>9
<1>14. SubclassesAgree(U)
  BY <1>11, <1>13 DEF SubclassesAgree
<1>15. InstancesAgree(U) /\ UsersAgree(U)
  BY <1>11, <1>12, InstancesCarry, UsersCarry DEF Sane
<1>16. LinksKnown(U)
  BY <1>11, <1>12 DEF Sane, LinksKnown, SameInstances, SameUsers
<1>17. OnlyClassesInherit(U)
  <2> SUFFICES ASSUME NEW i \in Living(T), ~U[i + 1].is_class
               PROVE  ToSet(U[i + 1].superclasses) = {} /\ ToSet(U[i + 1].classMixins) = {}
    BY <1>11 DEF OnlyClassesInherit
  <2>1. ~T[i + 1].is_class /\ i # cls
    BY <1>12 DEF SameRest
  <2> QED BY <1>12, <2>1 DEF Sane, OnlyClassesInherit, SameUsers
<1> QED BY <1>11, <1>12, <1>14, <1>15, <1>16, <1>17 DEF Sane

(* `mixin`, on a class.                                                    *)
LEMMA ClassMixedIs ==
  ASSUME NEW T, Sane(T), NEW cls \in Living(T), T[cls + 1].is_class, NEW list \in Seq(Id),
         ToSet(list) \subseteq 0 .. Len(T) - 1, NEW U, U = ClassMixed(T, cls, list)
  PROVE  /\ Shape(U, T) /\ Sane(U)
         /\ \A c \in Living(T) :
              /\ U[c + 1].classMixins = IF c = cls THEN list ELSE T[c + 1].classMixins
              /\ SameInstances(U[c + 1], T[c + 1])
              /\ SameSubclasses(U[c + 1], T[c + 1])
              /\ SameRest(U[c + 1], T[c + 1])
<1>1. T \in Tables /\ Living(T) \subseteq Id /\ cls \in Id /\ \A c \in Living(T) : T[c + 1] \in Object
  BY LivingIs DEF Sane
<1>2. PICK out, in : out = ToSet(T[cls + 1].classMixins) /\ in = ToSet(list)
  OBVIOUS
<1>3. PICK one : one = EachLosesUser(T, out, cls)
  OBVIOUS
<1>4. PICK two : two = EachGainsUser(one, in, cls)
  OBVIOUS
<1>5. U = EachClassMixes(two, {cls}, list)
  BY <1>2, <1>3, <1>4 DEF ClassMixed, EachLosesUser, EachGainsUser, EachClassMixes
<1>6. /\ Shape(one, T)
      /\ \A c \in Living(T) :
           /\ one[c + 1].users = IF c \in out THEN Without(T[c + 1].users, cls)
                                     ELSE T[c + 1].users
           /\ one[c + 1].classMixins = T[c + 1].classMixins
           /\ SameInstances(one[c + 1], T[c + 1]) /\ SameSubclasses(one[c + 1], T[c + 1])
           /\ SameRest(one[c + 1], T[c + 1])
  BY <1>1, <1>3, AtLosesUser
<1>7. one \in Tables /\ Living(one) = Living(T) /\ Len(one) = Len(T)
  BY <1>6 DEF Shape
<1>8. /\ Shape(two, one)
      /\ \A c \in Living(T) :
           /\ two[c + 1].users = IF c \in in THEN Append(one[c + 1].users, cls)
                                     ELSE one[c + 1].users
           /\ two[c + 1].classMixins = one[c + 1].classMixins
           /\ SameInstances(two[c + 1], one[c + 1]) /\ SameSubclasses(two[c + 1], one[c + 1])
           /\ SameRest(two[c + 1], one[c + 1])
  BY <1>1, <1>4, <1>7, AtGainsUser
<1>9. two \in Tables /\ Living(two) = Living(T) /\ Len(two) = Len(T)
  BY <1>7, <1>8 DEF Shape
<1>10. /\ Shape(U, two)
       /\ \A c \in Living(T) :
            /\ U[c + 1].classMixins = IF c \in {cls} THEN list ELSE two[c + 1].classMixins
            /\ U[c + 1].users = two[c + 1].users
            /\ SameInstances(U[c + 1], two[c + 1]) /\ SameSubclasses(U[c + 1], two[c + 1])
            /\ SameRest(U[c + 1], two[c + 1])
  BY <1>5, <1>9, AtClassMixes
<1>11. Shape(U, T) /\ U \in Tables /\ Living(U) = Living(T) /\ Len(U) = Len(T)
  BY <1>9, <1>10 DEF Shape
<1>12. ASSUME NEW c \in Living(T)
       PROVE  /\ U[c + 1].classMixins = IF c = cls THEN list ELSE T[c + 1].classMixins
              /\ U[c + 1].users = IF c \in in THEN Append(one[c + 1].users, cls)
                                      ELSE one[c + 1].users
              /\ SameInstances(U[c + 1], T[c + 1])
              /\ SameSubclasses(U[c + 1], T[c + 1])
              /\ SameRest(U[c + 1], T[c + 1])
  BY <1>6, <1>8, <1>10 DEF SameInstances, SameSubclasses, SameRest
<1>13. ASSUME NEW c \in Living(T)
       PROVE  Lists1(U[c + 1].users, Users(U, c))
  <2>1. PICK l, M, m, N : /\ l = T[c + 1].users /\ M = Users(T, c)
                          /\ m = U[c + 1].users /\ N = Users(U, c)
    OBVIOUS
  <2>2. l \in Seq(Id)
    BY <1>1, <2>1 DEF Object
  <2>3. Lists1(l, M)
    BY <2>1 DEF Sane, UsersAgree
  <2>4. (cls \in M <=> c \in out) /\ M \subseteq Living(T)
    BY <1>2, <2>1 DEF Users
  <2>5. Relists(l, cls, c, out, in, m)
    BY <1>6, <1>12, <2>1 DEF Relists
  <2>6. ASSUME NEW i, i # cls PROVE i \in N <=> i \in M
    BY <1>11, <1>12, <2>1, <2>6 DEF Users
  <2>7. cls \in N <=> c \in in \/ (cls \in M /\ c \notin out)
    BY <1>2, <1>11, <1>12, <2>1, <2>4 DEF Users
  <2>8. c \in in => c \in out \/ cls \notin M
    BY <2>4
  <2>9. Lists1(m, N)
    BY <1>1, <2>2, <2>3, <2>5, <2>6, <2>7, <2>8, Relisted
  <2> QED BY <2>1, <2>9
<1>14. UsersAgree(U)
  BY <1>11, <1>13 DEF UsersAgree
<1>15. InstancesAgree(U) /\ SubclassesAgree(U)
  BY <1>11, <1>12, InstancesCarry, SubclassesCarry DEF Sane
<1>16. LinksKnown(U)
  BY <1>11, <1>12 DEF Sane, LinksKnown, SameInstances, SameSubclasses
<1>17. OnlyClassesInherit(U)
  <2> SUFFICES ASSUME NEW i \in Living(T), ~U[i + 1].is_class
               PROVE  ToSet(U[i + 1].superclasses) = {} /\ ToSet(U[i + 1].classMixins) = {}
    BY <1>11 DEF OnlyClassesInherit
  <2>1. ~T[i + 1].is_class /\ i # cls
    BY <1>12 DEF SameRest
  <2> QED BY <1>12, <2>1 DEF Sane, OnlyClassesInherit, SameSubclasses
<1> QED BY <1>11, <1>12, <1>14, <1>15, <1>16, <1>17 DEF Sane

(* `alloc`.                                                                *)
LEMMA Extended ==
  ASSUME NEW T \in Tables, Len(T) < MaxObjects, NEW new \in Object, NEW U, U = Append(T, new)
  PROVE  /\ U \in Tables /\ Len(U) = Len(T) + 1 /\ Living(U) = Living(T) \cup {Len(T)}
         /\ \A c \in Living(T) : U[c + 1] = T[c + 1]
         /\ U[Len(T) + 1] = new
<1>1. /\ Len(T) \in Nat /\ Len(T) \in 2 .. MaxObjects /\ MaxObjects \in Nat
      /\ T \in Seq(Object \cup {Gone}) /\ \A c \in Living(T) : c + 1 \in 1 .. Len(T)
  BY LivingIs, ObjectsAssumption DEF Tables
<1>2. PICK V : V = Object \cup {Gone}
  OBVIOUS
<1>3. /\ U \in Seq(V) /\ Len(U) = Len(T) + 1 /\ U[Len(T) + 1] = new
      /\ \A i \in 1 .. Len(T) : U[i] = T[i]
  BY <1>1, <1>2, AppendProperties
<1>4. U \in Tables /\ Len(U) = Len(T) + 1
  BY <1>1, <1>2, <1>3 DEF Tables
<1>5. new # Gone
  BY Absences
<1>6. ASSUME NEW c PROVE c \in Living(U) <=> c \in Living(T) \cup {Len(T)}
  <2>1. CASE c = Len(T)
    BY <1>1, <1>3, <1>5, <2>1 DEF Living
  <2>2. CASE c # Len(T)
    <3>1. c \in 0 .. Len(U) - 1 <=> c \in 0 .. Len(T) - 1
      BY <1>1, <1>3, <2>2
    <3>2. c \in 0 .. Len(T) - 1 => U[c + 1] = T[c + 1]
      BY <1>1, <1>3
    <3> QED BY <2>2, <3>1, <3>2 DEF Living
  <2> QED BY <2>1, <2>2
<1> QED BY <1>1, <1>3, <1>4, <1>6

(* The objects there were keep what leads from them, and there is one more. *)
Extends(U, T) ==
  /\ Sane(U) /\ Len(U) = Len(T) + 1 /\ Living(U) = Living(T) \cup {Len(T)}
  /\ Len(T) \in Id /\ Len(T) \notin Living(T)
  /\ \A c \in Living(T) :
       /\ U[c + 1].class = T[c + 1].class
       /\ U[c + 1].mixins = T[c + 1].mixins
       /\ U[c + 1].superclasses = T[c + 1].superclasses
       /\ U[c + 1].classMixins = T[c + 1].classMixins
       /\ SameRest(U[c + 1], T[c + 1])
BornAs(new, class, home) ==
  /\ new.class = class /\ new.mixins = <<>>
  /\ (new.is_class <=> reachable(class_cls, class))
  /\ ToSet(new.superclasses) \subseteq {object_cls} /\ new.classMixins = <<>>
  /\ new.home = home /\ new.destructing = FALSE

LEMMA AllocatedIs ==
  ASSUME Sane(objects), Len(objects) < MaxObjects, NEW class \in 0 .. Len(objects) - 1,
         NEW home \in Places, NEW U, U = Allocated(class, home)
  PROVE  Extends(U, objects) /\ BornAs(U[Len(objects) + 1], class, home)
<1>0. PICK id : id = Len(objects)
  OBVIOUS
<1> DEFINE T == objects
<1>1. /\ T \in Tables /\ Living(T) \subseteq Id /\ Len(T) \in Nat /\ Len(T) \in 2 .. MaxObjects
      /\ MaxObjects \in Nat /\ object_cls \in Id
      /\ \A c \in Living(T) : T[c + 1] \in Object
  BY LivingIs, ObjectsAssumption DEF Sane, Tables
<1>2. id \in Id /\ id \notin Living(T) /\ class \in Id /\ class # id /\ object_cls # id
  BY <1>0, <1>1 DEF Id, Living, object_cls
<1>3. PICK isClass : isClass = reachable(class_cls, class)
  OBVIOUS
<1>3a. isClass \in BOOLEAN
  <2>1. (class_cls \in Ancestors(class)) \in BOOLEAN
    OBVIOUS
  <2>2. isClass = (class_cls \in Ancestors(class))
    BY <1>3 DEF reachable
  <2> QED BY <2>1, <2>2, Zenon
<1>4. PICK sup : sup = IF isClass THEN <<object_cls>> ELSE <<>>
  OBVIOUS
<1>5. sup \in Seq(Id) /\ ToSet(sup) = IF isClass THEN {object_cls} ELSE {}
  BY <1>1, <1>4 DEF ToSet
<1>6. PICK new : new = Born(class, isClass, sup, home)
  OBVIOUS
<1>7. /\ new \in Object /\ new.class = class /\ new.is_class = isClass /\ new.mixins = <<>>
      /\ new.superclasses = sup /\ new.subclasses = <<>> /\ new.instances = <<>>
      /\ new.classMixins = <<>> /\ new.users = <<>> /\ new.home = home /\ new.destructing = FALSE
  BY <1>2, <1>3a, <1>5, <1>6 DEF Born, Object, Places
<1>8. PICK one : one = EachGainsInstance(T, {class}, id)
  OBVIOUS
<1>9. PICK in : in = IF isClass THEN {object_cls} ELSE {}
  OBVIOUS
<1>10. PICK two : two = IF isClass THEN EachGainsSubclass(one, {object_cls}, id) ELSE one
  OBVIOUS
<1>11. U = Append(two, new)
  BY <1>0, <1>3, <1>4, <1>6, <1>8, <1>10 DEF Allocated, EachGainsInstance, EachGainsSubclass
<1>12. /\ Shape(one, T)
       /\ \A c \in Living(T) :
            /\ one[c + 1].instances = IF c \in {class} THEN Append(T[c + 1].instances, id)
                                      ELSE T[c + 1].instances
            /\ one[c + 1].class = T[c + 1].class /\ one[c + 1].mixins = T[c + 1].mixins
            /\ SameSubclasses(one[c + 1], T[c + 1]) /\ SameUsers(one[c + 1], T[c + 1])
            /\ SameRest(one[c + 1], T[c + 1])
  BY <1>1, <1>2, <1>8, AtGainsInstance
<1>13. one \in Tables /\ Living(one) = Living(T) /\ Len(one) = Len(T)
  BY <1>12 DEF Shape
<1>14. /\ Shape(two, T)
       /\ \A c \in Living(T) :
            /\ two[c + 1].subclasses = IF c \in in THEN Append(one[c + 1].subclasses, id)
                                       ELSE one[c + 1].subclasses
            /\ two[c + 1].superclasses = one[c + 1].superclasses
            /\ SameInstances(two[c + 1], one[c + 1]) /\ SameUsers(two[c + 1], one[c + 1])
            /\ SameRest(two[c + 1], one[c + 1])
  <2>1. CASE isClass
    <3>1. two = EachGainsSubclass(one, {object_cls}, id) /\ in = {object_cls}
      BY <1>9, <1>10, <2>1
    <3> QED BY <1>2, <1>13, <3>1, AtGainsSubclass DEF Shape
  <2>2. CASE ~isClass
    <3>1. two = one /\ in = {}
      BY <1>9, <1>10, <2>2
    <3> QED BY <1>12, <1>13, <3>1 DEF Shape, SameInstances, SameUsers, SameRest
  <2> QED BY <2>1, <2>2
<1>15. two \in Tables /\ Living(two) = Living(T) /\ Len(two) = Len(T)
  BY <1>14 DEF Shape
<1>16. /\ U \in Tables /\ Len(U) = Len(T) + 1 /\ Living(U) = Living(T) \cup {id}
       /\ \A c \in Living(T) : U[c + 1] = two[c + 1]
       /\ U[id + 1] = new
  <2>1. Len(two) < MaxObjects /\ Len(two) = id /\ new \in Object /\ two \in Tables
    BY <1>0, <1>7, <1>15
  <2>2. /\ U \in Tables /\ Len(U) = Len(two) + 1 /\ Living(U) = Living(two) \cup {Len(two)}
        /\ \A c \in Living(two) : U[c + 1] = two[c + 1]
        /\ U[Len(two) + 1] = new
    BY <1>11, <2>1, Extended, Zenon
  <2> QED BY <1>15, <2>1, <2>2
<1>17. ASSUME NEW c \in Living(T)
       PROVE  /\ U[c + 1].class = T[c + 1].class /\ U[c + 1].mixins = T[c + 1].mixins
              /\ U[c + 1].instances = IF c \in {class} THEN Append(T[c + 1].instances, id)
                                      ELSE T[c + 1].instances
              /\ U[c + 1].superclasses = T[c + 1].superclasses
              /\ U[c + 1].subclasses = IF c \in in THEN Append(T[c + 1].subclasses, id)
                                       ELSE T[c + 1].subclasses
              /\ SameUsers(U[c + 1], T[c + 1])
              /\ SameRest(U[c + 1], T[c + 1])
  BY <1>12, <1>14, <1>16 DEF SameInstances, SameSubclasses, SameUsers, SameRest
<1>18. LinksKnown(T) /\ \A i \in Living(T) : i \in 0 .. Len(T) - 1
  BY DEF Sane, Living
<1>19. \A i : i \in Living(U) <=> i \in Living(T) \/ i = id
  BY <1>16
<1>20. ToSet(new.mixins) = {} /\ ToSet(new.classMixins) = {} /\ ToSet(new.superclasses) = in
  <2>1. ToSet(<<>>) = {}
    BY DEF ToSet
  <2>2. ToSet(sup) = in
    BY <1>5, <1>9
  <2> QED BY <1>7, <2>1, <2>2
<1> HIDE DEF T
<1>21. InstancesAgree(U)
  <2>1. ASSUME NEW c \in Living(T) PROVE Lists1(U[c + 1].instances, Instances(U, c))
    <3>1. PICK l, M, m, N : /\ l = T[c + 1].instances /\ M = Instances(T, c)
                            /\ m = U[c + 1].instances /\ N = Instances(U, c)
      OBVIOUS
    <3>2. l \in Seq(Id) /\ Lists1(l, M)
      BY <1>1, <3>1 DEF Object, Sane, InstancesAgree, T
    <3>3. PICK out, into : out = {} /\ into = {class}
      OBVIOUS
    <3>4. Relists(l, id, c, out, into, m)
      BY <1>17, <3>1, <3>3 DEF Relists
    <3>5. ASSUME NEW i, i # id PROVE i \in N <=> i \in M
      BY <1>17, <1>19, <3>1, <3>5 DEF Instances
    <3>6. id \notin M
      BY <1>2, <3>1 DEF Instances
    <3>7. id \in N <=> c \in into \/ (id \in M /\ c \notin out)
      BY <1>7, <1>16, <1>19, <1>20, <3>1, <3>3, <3>6 DEF Instances
    <3>8. Lists1(m, N)
      BY <1>2, <3>2, <3>4, <3>5, <3>6, <3>7, Relisted
    <3> QED BY <3>1, <3>8
  <2>2. Lists1(U[id + 1].instances, Instances(U, id))
    <3>1. ASSUME NEW i \in Living(U) PROVE i \notin Instances(U, id)
      <4>1. CASE i = id
        BY <1>2, <1>7, <1>16, <1>20, <4>1 DEF Instances
      <4>2. CASE i \in Living(T)
        <5>1. id \notin 0 .. Len(T) - 1
          BY <1>0, <1>1 DEF T
        <5> QED BY <1>17, <1>18, <4>2, <5>1 DEF Instances, LinksKnown
      <4> QED BY <1>19, <4>1, <4>2
    <3>2. Instances(U, id) = {} /\ U[id + 1].instances = <<>>
      BY <1>7, <1>16, <3>1 DEF Instances
    <3> QED BY <3>2 DEF Lists1, ToSet, IsInjective
  <2> QED BY <1>19, <2>1, <2>2 DEF InstancesAgree
<1>22. SubclassesAgree(U)
  <2>1. ASSUME NEW c \in Living(T) PROVE Lists1(U[c + 1].subclasses, Subclasses(U, c))
    <3>1. PICK l, M, m, N : /\ l = T[c + 1].subclasses /\ M = Subclasses(T, c)
                            /\ m = U[c + 1].subclasses /\ N = Subclasses(U, c)
      OBVIOUS
    <3>2. l \in Seq(Id) /\ Lists1(l, M)
      BY <1>1, <3>1 DEF Object, Sane, SubclassesAgree, T
    <3>3. PICK out : out = {}
      OBVIOUS
    <3>4. Relists(l, id, c, out, in, m)
      BY <1>17, <3>1, <3>3 DEF Relists
    <3>5. ASSUME NEW i, i # id PROVE i \in N <=> i \in M
      BY <1>17, <1>19, <3>1, <3>5 DEF Subclasses
    <3>6. id \notin M
      BY <1>2, <3>1 DEF Subclasses
    <3>7. id \in N <=> c \in in \/ (id \in M /\ c \notin out)
      BY <1>16, <1>19, <1>20, <3>1, <3>3, <3>6 DEF Subclasses
    <3>8. Lists1(m, N)
      BY <1>2, <3>2, <3>4, <3>5, <3>6, <3>7, Relisted
    <3> QED BY <3>1, <3>8
  <2>2. Lists1(U[id + 1].subclasses, Subclasses(U, id))
    <3>1. ASSUME NEW i \in Living(U) PROVE i \notin Subclasses(U, id)
      <4>1. CASE i = id
        BY <1>2, <1>9, <1>16, <1>20, <4>1 DEF Subclasses
      <4>2. CASE i \in Living(T)
        <5>1. id \notin 0 .. Len(T) - 1
          BY <1>0, <1>1 DEF T
        <5> QED BY <1>17, <1>18, <4>2, <5>1 DEF Subclasses, LinksKnown
      <4> QED BY <1>19, <4>1, <4>2
    <3>2. Subclasses(U, id) = {} /\ U[id + 1].subclasses = <<>>
      BY <1>7, <1>16, <3>1 DEF Subclasses
    <3> QED BY <3>2 DEF Lists1, ToSet, IsInjective
  <2> QED BY <1>19, <2>1, <2>2 DEF SubclassesAgree
<1>23. UsersAgree(U)
  <2>1. ASSUME NEW c \in Living(T) PROVE Lists1(U[c + 1].users, Users(U, c))
    <3>1. ASSUME NEW i PROVE i \in Users(U, c) <=> i \in Users(T, c)
      BY <1>16, <1>17, <1>19, <1>20 DEF Users, SameUsers
    <3>2. Users(U, c) = Users(T, c) /\ U[c + 1].users = T[c + 1].users
      BY <1>17, <3>1 DEF SameUsers
    <3> QED BY <3>2 DEF Sane, UsersAgree, T
  <2>2. Lists1(U[id + 1].users, Users(U, id))
    <3>1. ASSUME NEW i \in Living(U) PROVE i \notin Users(U, id)
      <4>1. CASE i = id
        BY <1>16, <1>20, <4>1 DEF Users
      <4>2. CASE i \in Living(T)
        <5>1. id \notin 0 .. Len(T) - 1
          BY <1>0, <1>1 DEF T
        <5> QED BY <1>17, <1>18, <4>2, <5>1 DEF Users, LinksKnown, SameUsers
      <4> QED BY <1>19, <4>1, <4>2
    <3>2. Users(U, id) = {} /\ U[id + 1].users = <<>>
      BY <1>7, <1>16, <3>1 DEF Users
    <3> QED BY <3>2 DEF Lists1, ToSet, IsInjective
  <2> QED BY <1>19, <2>1, <2>2 DEF UsersAgree
<1>24. LinksKnown(U)
  <2>1. 0 .. Len(T) - 1 \subseteq 0 .. Len(U) - 1 /\ class \in 0 .. Len(U) - 1 /\ object_cls \in 0 .. Len(U) - 1
    BY <1>1, <1>16 DEF T, object_cls
  <2>2. ASSUME NEW i \in Living(T)
        PROVE  /\ U[i + 1].class \in 0 .. Len(U) - 1
               /\ ToSet(U[i + 1].mixins) \subseteq 0 .. Len(U) - 1
               /\ ToSet(U[i + 1].superclasses) \subseteq 0 .. Len(U) - 1
               /\ ToSet(U[i + 1].classMixins) \subseteq 0 .. Len(U) - 1
    BY <1>17, <1>18, <2>1 DEF LinksKnown, SameUsers
  <2>3. /\ new.class \in 0 .. Len(U) - 1
        /\ ToSet(new.mixins) \subseteq 0 .. Len(U) - 1
        /\ ToSet(new.superclasses) \subseteq 0 .. Len(U) - 1
        /\ ToSet(new.classMixins) \subseteq 0 .. Len(U) - 1
    BY <1>7, <1>9, <1>20, <2>1
  <2> QED BY <1>16, <1>19, <2>2, <2>3 DEF LinksKnown
<1>25. OnlyClassesInherit(U)
  <2>1. ASSUME NEW i \in Living(T), ~U[i + 1].is_class
        PROVE  ToSet(U[i + 1].superclasses) = {} /\ ToSet(U[i + 1].classMixins) = {}
    BY <1>17, <2>1 DEF Sane, OnlyClassesInherit, SameUsers, SameRest, T
  <2>2. ~new.is_class => ToSet(new.superclasses) = {} /\ ToSet(new.classMixins) = {}
    BY <1>7, <1>9, <1>20
  <2> QED BY <1>16, <1>19, <2>1, <2>2 DEF OnlyClassesInherit
<1>26. Sane(U)
  BY <1>16, <1>21, <1>22, <1>23, <1>24, <1>25 DEF Sane
<1>27. ToSet(new.superclasses) \subseteq {object_cls}
  BY <1>9, <1>20
<1>28. Extends(U, T)
  BY <1>0, <1>2, <1>16, <1>17, <1>19, <1>26 DEF T, SameUsers, Extends
<1>29. BornAs(new, class, home)
  BY <1>3, <1>7, <1>27 DEF BornAs
<1> QED BY <1>0, <1>16, <1>28, <1>29 DEF T

(* What changes no link, and takes no class away.                          *)
LEMMA SaneCarry ==
  ASSUME NEW T, NEW U, Shape(U, T), Sane(T),
         \A c \in Living(T) : /\ SameInstances(U[c + 1], T[c + 1])
                              /\ SameSubclasses(U[c + 1], T[c + 1])
                              /\ SameUsers(U[c + 1], T[c + 1])
                              /\ U[c + 1].is_class = T[c + 1].is_class
  PROVE  Sane(U)
<1>1. U \in Tables /\ Living(U) = Living(T) /\ Len(U) = Len(T)
  BY DEF Shape
<1>2. InstancesAgree(U) /\ SubclassesAgree(U) /\ UsersAgree(U)
  BY InstancesCarry, SubclassesCarry, UsersCarry DEF Sane
<1>3. LinksKnown(U)
  BY <1>1 DEF Sane, LinksKnown, SameInstances, SameSubclasses, SameUsers
<1>4. OnlyClassesInherit(U)
  BY <1>1 DEF Sane, OnlyClassesInherit, SameSubclasses, SameUsers
<1> QED BY <1>1, <1>2, <1>3, <1>4 DEF Sane

(* `class`: the object changes lists, and may begin to inherit.            *)
OnlyReclassed(U, T, id, cls) ==
  \A c \in Living(T) :
    /\ U[c + 1].class = IF c = id THEN cls ELSE T[c + 1].class
    /\ U[c + 1].mixins = T[c + 1].mixins
    /\ \/ U[c + 1].superclasses = T[c + 1].superclasses
       \/ c = id /\ ~T[c + 1].is_class /\ ToSet(U[c + 1].superclasses) = {object_cls}
    /\ U[c + 1].classMixins = T[c + 1].classMixins
    /\ T[c + 1].is_class => U[c + 1].is_class
    /\ U[c + 1].home = T[c + 1].home
    /\ U[c + 1].destructing = T[c + 1].destructing

LEMMA ReclassedIs ==
  ASSUME Sane(objects), NEW id \in Living(objects), NEW cls \in Living(objects),
         cls # objects[id + 1].class,
         {cls, objects[id + 1].class} \cap ToSet(objects[id + 1].mixins) = {},
         NEW U, U = Reclassed(id, cls)
  PROVE  Shape(U, objects) /\ Sane(U) /\ OnlyReclassed(U, objects, id, cls)
<1>1. PICK T : T = objects
  OBVIOUS
<1>2. /\ T \in Tables /\ Living(T) \subseteq Id /\ id \in Id /\ cls \in Id /\ Len(T) \in Nat
      /\ Len(T) \in 2 .. MaxObjects /\ \A c \in Living(T) : T[c + 1] \in Object
  BY <1>1, LivingIs DEF Sane, Tables
<1>3. PICK old : old = T[id + 1].class
  OBVIOUS
<1>4. PICK out, into, self, root : out = {old} /\ into = {cls} /\ self = {id} /\ root = {object_cls}
  OBVIOUS
<1>5. PICK one : one = EachLosesInstance(T, out, id)
  OBVIOUS
<1>6. PICK two : two = EachGainsInstance(one, into, id)
  OBVIOUS
<1>a. PICK three : three = EachBecomesClass(two, self, cls)
  OBVIOUS
<1>b. PICK four : four = EachGainsSubclass(three, root, id)
  OBVIOUS
<1>c. PICK other : other = EachChangesClass(two, self, cls)
  OBVIOUS
<1>7. PICK in : in = IF ~T[id + 1].is_class /\ reachable(class_cls, cls) THEN {object_cls} ELSE {}
  OBVIOUS
<1>8. U = IF ~T[id + 1].is_class /\ reachable(class_cls, cls) THEN four ELSE other
  BY <1>1, <1>3, <1>4, <1>5, <1>6, <1>a, <1>b, <1>c
     DEF Reclassed, obj, EachLosesInstance, EachGainsInstance, EachBecomesClass, EachGainsSubclass,
         EachChangesClass
<1>9. /\ Shape(one, T)
      /\ \A c \in Living(T) :
           /\ one[c + 1].instances = IF c \in out THEN Without(T[c + 1].instances, id)
                                     ELSE T[c + 1].instances
           /\ one[c + 1].class = T[c + 1].class /\ one[c + 1].mixins = T[c + 1].mixins
           /\ SameSubclasses(one[c + 1], T[c + 1]) /\ SameUsers(one[c + 1], T[c + 1])
           /\ SameRest(one[c + 1], T[c + 1])
  BY <1>2, <1>5, AtLosesInstance
<1>10. one \in Tables /\ Living(one) = Living(T) /\ Len(one) = Len(T)
  BY <1>9 DEF Shape
<1>11. /\ Shape(two, one)
       /\ \A c \in Living(T) :
            /\ two[c + 1].instances = IF c \in into THEN Append(one[c + 1].instances, id)
                                      ELSE one[c + 1].instances
            /\ two[c + 1].class = one[c + 1].class /\ two[c + 1].mixins = one[c + 1].mixins
            /\ SameSubclasses(two[c + 1], one[c + 1]) /\ SameUsers(two[c + 1], one[c + 1])
            /\ SameRest(two[c + 1], one[c + 1])
  BY <1>2, <1>6, <1>10, AtGainsInstance
<1>12. two \in Tables /\ Living(two) = Living(T) /\ Len(two) = Len(T)
  BY <1>10, <1>11 DEF Shape
<1>13. ASSUME NEW c \in Living(T)
       PROVE  /\ Relists(T[c + 1].instances, id, c, out, into, two[c + 1].instances)
              /\ two[c + 1].class = T[c + 1].class /\ two[c + 1].mixins = T[c + 1].mixins
              /\ SameSubclasses(two[c + 1], T[c + 1]) /\ SameUsers(two[c + 1], T[c + 1])
              /\ SameRest(two[c + 1], T[c + 1])
  BY <1>9, <1>11 DEF Relists, SameSubclasses, SameUsers, SameRest
<1>14. /\ Shape(other, two)
       /\ \A c \in Living(T) :
            /\ other[c + 1].class = IF c \in self THEN cls ELSE two[c + 1].class
            /\ other[c + 1].mixins = two[c + 1].mixins
            /\ other[c + 1].instances = two[c + 1].instances
            /\ SameSubclasses(other[c + 1], two[c + 1]) /\ SameUsers(other[c + 1], two[c + 1])
            /\ SameRest(other[c + 1], two[c + 1])
  BY <1>2, <1>c, <1>12, AtChangesClass
<1>15. /\ Shape(three, two)
       /\ \A c \in Living(T) :
            /\ three[c + 1].class = IF c \in self THEN cls ELSE two[c + 1].class
            /\ (c \in self => three[c + 1].is_class)
            /\ (c \notin self => three[c + 1].is_class = two[c + 1].is_class)
            /\ three[c + 1].superclasses = IF c \in self THEN <<object_cls>> ELSE two[c + 1].superclasses
            /\ three[c + 1].mixins = two[c + 1].mixins
            /\ three[c + 1].instances = two[c + 1].instances
            /\ three[c + 1].subclasses = two[c + 1].subclasses
            /\ SameUsers(three[c + 1], two[c + 1])
            /\ three[c + 1].home = two[c + 1].home
            /\ three[c + 1].destructing = two[c + 1].destructing
  BY <1>2, <1>a, <1>12, AtBecomesClass
<1>16. three \in Tables /\ Living(three) = Living(T) /\ Len(three) = Len(T)
  BY <1>12, <1>15 DEF Shape
<1>17. /\ Shape(four, three)
       /\ \A c \in Living(T) :
            /\ four[c + 1].subclasses = IF c \in root THEN Append(three[c + 1].subclasses, id)
                                        ELSE three[c + 1].subclasses
            /\ four[c + 1].superclasses = three[c + 1].superclasses
            /\ SameInstances(four[c + 1], three[c + 1]) /\ SameUsers(four[c + 1], three[c + 1])
            /\ SameRest(four[c + 1], three[c + 1])
  BY <1>2, <1>b, <1>16, AtGainsSubclass
<1>18. /\ Shape(U, T)
       /\ \A c \in Living(T) :
            /\ Relists(T[c + 1].instances, id, c, out, into, U[c + 1].instances)
            /\ Relists(T[c + 1].subclasses, id, c, {}, in, U[c + 1].subclasses)
            /\ U[c + 1].class = IF c = id THEN cls ELSE T[c + 1].class
            /\ U[c + 1].mixins = T[c + 1].mixins
            /\ U[c + 1].superclasses = IF c = id /\ in # {} THEN <<object_cls>>
                                       ELSE T[c + 1].superclasses
            /\ SameUsers(U[c + 1], T[c + 1])
            /\ (c = id /\ in # {} => U[c + 1].is_class)
            /\ (c # id \/ in = {} => U[c + 1].is_class = T[c + 1].is_class)
            /\ U[c + 1].home = T[c + 1].home
            /\ U[c + 1].destructing = T[c + 1].destructing
  <2>1. CASE ~T[id + 1].is_class /\ reachable(class_cls, cls)
    <3>1. U = four /\ in = {object_cls} /\ in # {}
      BY <1>7, <1>8, <2>1
    <3>2. Shape(four, T)
      BY <1>16, <1>17 DEF Shape
    <3>3. ASSUME NEW c \in Living(T)
          PROVE  /\ Relists(T[c + 1].instances, id, c, out, into, four[c + 1].instances)
                 /\ Relists(T[c + 1].subclasses, id, c, {}, root, four[c + 1].subclasses)
      BY <1>13, <1>15, <1>17 DEF Relists, SameInstances, SameSubclasses
    <3>4. ASSUME NEW c \in Living(T)
          PROVE  /\ four[c + 1].class = IF c = id THEN cls ELSE T[c + 1].class
                 /\ four[c + 1].mixins = T[c + 1].mixins
                 /\ four[c + 1].superclasses = IF c = id THEN <<object_cls>> ELSE T[c + 1].superclasses
      BY <1>4, <1>13, <1>15, <1>17 DEF SameInstances, SameSubclasses
    <3>5. ASSUME NEW c \in Living(T)
          PROVE  /\ SameUsers(four[c + 1], T[c + 1])
                 /\ (c = id => four[c + 1].is_class)
                 /\ (c # id => four[c + 1].is_class = T[c + 1].is_class)
                 /\ four[c + 1].home = T[c + 1].home
                 /\ four[c + 1].destructing = T[c + 1].destructing
      BY <1>4, <1>13, <1>15, <1>17 DEF SameUsers, SameRest
    <3> QED BY <1>4, <3>1, <3>2, <3>3, <3>4, <3>5
  <2>2. CASE ~(~T[id + 1].is_class /\ reachable(class_cls, cls))
    <3>1. U = other /\ in = {}
      BY <1>7, <1>8, <2>2
    <3>2. Shape(other, T)
      BY <1>12, <1>14 DEF Shape
    <3> QED BY <1>4, <1>13, <1>14, <3>1, <3>2
            DEF Relists, SameInstances, SameSubclasses, SameUsers, SameRest
  <2> QED BY <2>1, <2>2
<1>19. U \in Tables /\ Living(U) = Living(T) /\ Len(U) = Len(T)
  BY <1>18 DEF Shape
<1>20. in # {} => ~T[id + 1].is_class /\ in = {object_cls}
  BY <1>7
<1>21. ASSUME in # {} PROVE ToSet(T[id + 1].superclasses) = {}
  BY <1>1, <1>20, <1>21 DEF Sane, OnlyClassesInherit
<1>22. ToSet(<<object_cls>>) = {object_cls}
  BY DEF ToSet
<1>23. InstancesAgree(U)
  <2> SUFFICES ASSUME NEW c \in Living(T) PROVE Lists1(U[c + 1].instances, Instances(U, c))
    BY <1>19 DEF InstancesAgree
  <2>1. PICK l, M, m, N : /\ l = T[c + 1].instances /\ M = Instances(T, c)
                          /\ m = U[c + 1].instances /\ N = Instances(U, c)
    OBVIOUS
  <2>2. l \in Seq(Id) /\ Lists1(l, M)
    BY <1>1, <1>2, <2>1 DEF Object, Sane, InstancesAgree
  <2>4. Relists(l, id, c, out, into, m)
    BY <1>18, <2>1
  <2>5. ASSUME NEW i, i # id PROVE i \in N <=> i \in M
    BY <1>18, <1>19, <2>1, <2>5 DEF Instances
  <2>6. (id \in M <=> old = c \/ c \in ToSet(T[id + 1].mixins)) /\ id \in Living(T)
    BY <1>1, <1>3, <2>1 DEF Instances
  <2>7. id \in N <=> cls = c \/ c \in ToSet(T[id + 1].mixins)
    BY <1>18, <1>19, <2>1, <2>6 DEF Instances
  <2>8. cls # old /\ cls \notin ToSet(T[id + 1].mixins) /\ old \notin ToSet(T[id + 1].mixins)
    BY <1>1, <1>3
  <2>9. c \in into => c \in out \/ id \notin M
    BY <1>4, <2>6, <2>8
  <2>10. id \in N <=> c \in into \/ (id \in M /\ c \notin out)
    BY <1>4, <2>6, <2>7, <2>8
  <2>11. Lists1(m, N)
    BY <1>2, <2>2, <2>4, <2>5, <2>9, <2>10, Relisted
  <2> QED BY <2>1, <2>11
<1>24. SubclassesAgree(U)
  <2> SUFFICES ASSUME NEW c \in Living(T) PROVE Lists1(U[c + 1].subclasses, Subclasses(U, c))
    BY <1>19 DEF SubclassesAgree
  <2>1. PICK l, M, m, N : /\ l = T[c + 1].subclasses /\ M = Subclasses(T, c)
                          /\ m = U[c + 1].subclasses /\ N = Subclasses(U, c)
    OBVIOUS
  <2>2. l \in Seq(Id) /\ Lists1(l, M)
    BY <1>1, <1>2, <2>1 DEF Object, Sane, SubclassesAgree
  <2>3. PICK none : none = {}
    OBVIOUS
  <2>4. Relists(l, id, c, none, in, m)
    BY <1>18, <2>1, <2>3
  <2>5. ASSUME NEW i, i # id PROVE i \in N <=> i \in M
    BY <1>18, <1>19, <2>1, <2>5 DEF Subclasses
  <2>6. (id \in M <=> c \in ToSet(T[id + 1].superclasses)) /\ id \in Living(T)
    BY <1>1, <2>1 DEF Subclasses
  <2>7. id \in N <=> c \in ToSet(U[id + 1].superclasses)
    BY <1>19, <2>1, <2>6 DEF Subclasses
  <2>8. id \in N <=> c \in in \/ (id \in M /\ c \notin none)
    <3>1. CASE in = {}
      BY <1>18, <2>3, <2>6, <2>7, <3>1
    <3>2. CASE in # {}
      BY <1>18, <1>20, <1>21, <1>22, <2>3, <2>6, <2>7, <3>2
    <3> QED BY <3>1, <3>2
  <2>9. c \in in => c \in none \/ id \notin M
    BY <1>21, <2>6
  <2>10. Lists1(m, N)
    BY <1>2, <2>2, <2>4, <2>5, <2>8, <2>9, Relisted
  <2> QED BY <2>1, <2>10
<1>25. UsersAgree(U)
  BY <1>1, <1>18, UsersCarry DEF Sane
<1>26. LinksKnown(U)
  <2>1. cls \in 0 .. Len(T) - 1 /\ object_cls \in 0 .. Len(T) - 1
    BY <1>1, <1>2 DEF Living, object_cls
  <2>2. LinksKnown(T)
    BY <1>1 DEF Sane
  <2>3. ASSUME NEW i \in Living(T)
        PROVE  /\ ToSet(U[i + 1].superclasses) \subseteq 0 .. Len(T) - 1
               /\ U[i + 1].class \in 0 .. Len(T) - 1
    BY <1>18, <1>22, <2>1, <2>2 DEF LinksKnown
  <2>4. ASSUME NEW i \in Living(T)
        PROVE  /\ ToSet(U[i + 1].mixins) \subseteq 0 .. Len(T) - 1
               /\ ToSet(U[i + 1].classMixins) \subseteq 0 .. Len(T) - 1
    BY <1>18, <2>2 DEF LinksKnown, SameUsers
  <2> QED BY <1>19, <2>3, <2>4 DEF LinksKnown
<1>27. OnlyClassesInherit(U)
  <2> SUFFICES ASSUME NEW i \in Living(T), ~U[i + 1].is_class
               PROVE  ToSet(U[i + 1].superclasses) = {} /\ ToSet(U[i + 1].classMixins) = {}
    BY <1>19 DEF OnlyClassesInherit
  <2>1. ~T[i + 1].is_class /\ U[i + 1].superclasses = T[i + 1].superclasses
    BY <1>18
  <2> QED BY <1>1, <1>18, <2>1 DEF Sane, OnlyClassesInherit, SameUsers
<1>28. Sane(U)
  BY <1>19, <1>23, <1>24, <1>25, <1>26, <1>27 DEF Sane
<1>29. ASSUME NEW c \in Living(T)
       PROVE  /\ U[c + 1].class = IF c = id THEN cls ELSE T[c + 1].class
              /\ U[c + 1].mixins = T[c + 1].mixins
              /\ \/ U[c + 1].superclasses = T[c + 1].superclasses
                 \/ c = id /\ ~T[c + 1].is_class /\ ToSet(U[c + 1].superclasses) = {object_cls}
              /\ U[c + 1].classMixins = T[c + 1].classMixins
              /\ T[c + 1].is_class => U[c + 1].is_class
              /\ U[c + 1].home = T[c + 1].home
              /\ U[c + 1].destructing = T[c + 1].destructing
  BY <1>18, <1>20, <1>22 DEF SameUsers
<1>30. OnlyReclassed(U, T, id, cls)
  BY <1>29 DEF OnlyReclassed
<1> QED BY <1>1, <1>18, <1>28, <1>30

(* `oo::copy`: the three commands one after the other, on the new object.  *)
CopyOf(new, r, home) ==
  /\ new.class = r.class /\ new.mixins = r.mixins
  /\ ToSet(new.superclasses) \subseteq {object_cls} \cup ToSet(r.superclasses)
  /\ ToSet(new.classMixins) \subseteq ToSet(r.classMixins)
  /\ new.home = home /\ new.destructing = FALSE

LEMMA CopiedIs ==
  ASSUME Sane(objects), Len(objects) < MaxObjects, NEW src \in Living(objects),
         NEW home \in Places, NEW U, U = Copied(src, home)
  PROVE  Extends(U, objects) /\ CopyOf(U[Len(objects) + 1], objects[src + 1], home)
<1>0. PICK id : id = Len(objects)
  OBVIOUS
<1>1. PICK T, r : T = objects /\ r = T[src + 1]
  OBVIOUS
<1>2. /\ T \in Tables /\ Len(T) \in Nat /\ r \in Object /\ src \in Living(T) /\ id = Len(T)
      /\ r.mixins \in Seq(Id) /\ r.superclasses \in Seq(Id) /\ r.classMixins \in Seq(Id)
      /\ r.class \in 0 .. Len(T) - 1
      /\ ToSet(r.mixins) \subseteq 0 .. Len(T) - 1
      /\ ToSet(r.superclasses) \subseteq 0 .. Len(T) - 1
      /\ ToSet(r.classMixins) \subseteq 0 .. Len(T) - 1
  BY <1>0, <1>1, LivingIs DEF Sane, LinksKnown, Object
<1>3. 0 .. Len(T) - 1 \subseteq 0 .. id
  BY <1>2
<1>4. PICK zero : zero = Allocated(r.class, home)
  OBVIOUS
<1>5. /\ Sane(zero) /\ Len(zero) = Len(T) + 1 /\ Living(zero) = Living(T) \cup {id}
      /\ id \in Id /\ id \notin Living(T)
      /\ \A c \in Living(T) :
           /\ zero[c + 1].class = T[c + 1].class
           /\ zero[c + 1].mixins = T[c + 1].mixins
           /\ zero[c + 1].superclasses = T[c + 1].superclasses
           /\ zero[c + 1].classMixins = T[c + 1].classMixins
           /\ SameRest(zero[c + 1], T[c + 1])
      /\ zero[id + 1].class = r.class /\ zero[id + 1].mixins = <<>>
      /\ (zero[id + 1].is_class <=> reachable(class_cls, r.class))
      /\ ToSet(zero[id + 1].superclasses) \subseteq {object_cls} /\ zero[id + 1].classMixins = <<>>
      /\ zero[id + 1].home = home /\ zero[id + 1].destructing = FALSE
  <2>1. r.class \in 0 .. Len(objects) - 1 /\ zero = Allocated(r.class, home)
    BY <1>1, <1>2, <1>4
  <2>2. Extends(zero, objects) /\ BornAs(zero[Len(objects) + 1], r.class, home)
    BY <2>1, AllocatedIs
  <2> QED BY <1>0, <1>1, <2>2 DEF Extends, BornAs
<1>6. id \in Living(zero) /\ 0 .. Len(zero) - 1 = 0 .. id /\ ToSet(<<>>) = {}
  BY <1>2, <1>5 DEF ToSet
<1>7. PICK one : one = Mixed(zero, id, r.mixins)
  OBVIOUS
<1>8. /\ Shape(one, zero) /\ Sane(one)
      /\ \A c \in Living(zero) :
           /\ one[c + 1].class = zero[c + 1].class
           /\ one[c + 1].mixins = IF c = id THEN r.mixins ELSE zero[c + 1].mixins
           /\ SameSubclasses(one[c + 1], zero[c + 1])
           /\ SameUsers(one[c + 1], zero[c + 1])
           /\ SameRest(one[c + 1], zero[c + 1])
  <2>1. r.mixins \in Seq(Id) /\ ToSet(r.mixins) \subseteq 0 .. Len(zero) - 1
    BY <1>2, <1>3, <1>6
  <2> QED BY <1>5, <1>6, <1>7, <2>1, MixedIs
<1>9. Living(one) = Living(zero) /\ Len(one) = Len(zero)
  BY <1>8 DEF Shape
<1>10. PICK two : two = Superclassed(one, id, r.superclasses)
  OBVIOUS
<1>11. PICK three : three = ClassMixed(two, id, r.classMixins)
  OBVIOUS
<1>12. U = IF r.is_class /\ one[id + 1].is_class THEN three ELSE one
  BY <1>0, <1>1, <1>4, <1>7, <1>10, <1>11 DEF Copied, obj
<1>13. CASE r.is_class /\ one[id + 1].is_class
  <2>1. /\ Shape(two, one) /\ Sane(two)
        /\ \A c \in Living(one) :
             /\ two[c + 1].superclasses = IF c = id THEN r.superclasses ELSE one[c + 1].superclasses
             /\ SameInstances(two[c + 1], one[c + 1])
             /\ SameUsers(two[c + 1], one[c + 1])
             /\ SameRest(two[c + 1], one[c + 1])
    <3>1. r.superclasses \in Seq(Id) /\ ToSet(r.superclasses) \subseteq 0 .. Len(one) - 1
      BY <1>2, <1>3, <1>6, <1>9
    <3>2. Sane(one) /\ id \in Living(one) /\ one[id + 1].is_class
      BY <1>6, <1>8, <1>9, <1>13
    <3> QED BY <1>10, <3>1, <3>2, SuperclassedIs
  <2>2. /\ Living(two) = Living(zero) /\ Len(two) = Len(zero) /\ two[id + 1].is_class
    BY <1>6, <1>9, <1>13, <2>1 DEF Shape, SameRest
  <2>3. /\ Shape(three, two) /\ Sane(three)
        /\ \A c \in Living(two) :
             /\ three[c + 1].classMixins = IF c = id THEN r.classMixins ELSE two[c + 1].classMixins
             /\ SameInstances(three[c + 1], two[c + 1])
             /\ SameSubclasses(three[c + 1], two[c + 1])
             /\ SameRest(three[c + 1], two[c + 1])
    <3>1. r.classMixins \in Seq(Id) /\ ToSet(r.classMixins) \subseteq 0 .. Len(two) - 1
      BY <1>2, <1>3, <1>6, <2>2
    <3>2. Sane(two) /\ id \in Living(two) /\ two[id + 1].is_class
      BY <1>6, <2>1, <2>2
    <3> QED BY <1>11, <3>1, <3>2, ClassMixedIs
  <2>4. Sane(U) /\ Len(U) = Len(T) + 1 /\ Living(U) = Living(T) \cup {id} /\ U = three
    BY <1>5, <1>12, <1>13, <2>2, <2>3 DEF Shape
  <2>5. ASSUME NEW c \in Living(T)
        PROVE  /\ U[c + 1].class = T[c + 1].class
               /\ U[c + 1].mixins = T[c + 1].mixins
               /\ U[c + 1].superclasses = T[c + 1].superclasses
               /\ U[c + 1].classMixins = T[c + 1].classMixins
               /\ SameRest(U[c + 1], T[c + 1])
    <3>1. c # id /\ c \in Living(zero) /\ c \in Living(one) /\ c \in Living(two)
      BY <1>5, <1>9, <2>2
    <3> QED BY <1>5, <1>8, <2>1, <2>3, <2>4, <3>1
            DEF SameInstances, SameSubclasses, SameUsers, SameRest
  <2>6. /\ U[id + 1].class = r.class /\ U[id + 1].mixins = r.mixins
        /\ U[id + 1].superclasses = r.superclasses
        /\ U[id + 1].classMixins = r.classMixins
        /\ U[id + 1].home = home /\ U[id + 1].destructing = FALSE
    BY <1>5, <1>6, <1>8, <1>9, <2>1, <2>2, <2>3, <2>4
       DEF SameInstances, SameSubclasses, SameUsers, SameRest
  <2>7. Extends(U, T)
    BY <1>2, <1>5, <2>4, <2>5 DEF Extends
  <2>8. CopyOf(U[id + 1], r, home)
    BY <2>6 DEF CopyOf
  <2> QED BY <1>0, <1>1, <2>7, <2>8
<1>14. CASE ~(r.is_class /\ one[id + 1].is_class)
  <2>1. Sane(U) /\ Len(U) = Len(T) + 1 /\ Living(U) = Living(T) \cup {id} /\ U = one
    BY <1>5, <1>8, <1>9, <1>12, <1>14
  <2>2. ASSUME NEW c \in Living(T)
        PROVE  /\ U[c + 1].class = T[c + 1].class
               /\ U[c + 1].mixins = T[c + 1].mixins
               /\ U[c + 1].superclasses = T[c + 1].superclasses
               /\ U[c + 1].classMixins = T[c + 1].classMixins
               /\ SameRest(U[c + 1], T[c + 1])
    <3>1. c # id /\ c \in Living(zero)
      BY <1>5
    <3> QED BY <1>5, <1>8, <2>1, <3>1 DEF SameSubclasses, SameUsers, SameRest
  <2>3. /\ U[id + 1].class = r.class /\ U[id + 1].mixins = r.mixins
        /\ ToSet(U[id + 1].superclasses) \subseteq {object_cls}
        /\ U[id + 1].classMixins = <<>>
        /\ U[id + 1].home = home /\ U[id + 1].destructing = FALSE
    BY <1>5, <1>6, <1>8, <2>1 DEF SameSubclasses, SameUsers, SameRest
  <2>4. Extends(U, T)
    BY <1>2, <1>5, <2>1, <2>2 DEF Extends
  <2>5. CopyOf(U[id + 1], r, home)
    BY <1>6, <2>3 DEF CopyOf
  <2> QED BY <1>0, <1>1, <2>4, <2>5
<1> QED BY <1>13, <1>14

(* The end of delete_object: the object leaves the lists it is on, and the *)
(* table.                                                                  *)
Emptying(T, id) == [T EXCEPT ![id + 1] = Gone]

LEMMA Emptied ==
  ASSUME NEW T \in Tables, NEW id \in Living(T), NEW U, U = Emptying(T, id)
  PROVE  /\ U \in Tables /\ Len(U) = Len(T) /\ Living(U) = Living(T) \ {id}
         /\ \A c \in Living(U) : U[c + 1] = T[c + 1]
<1>1. /\ Len(T) \in Nat /\ Len(T) \in 2 .. MaxObjects /\ T \in Seq(Object \cup {Gone})
      /\ id \in 0 .. Len(T) - 1 /\ \A c \in Living(T) : c + 1 \in 1 .. Len(T)
  BY LivingIs DEF Tables, Living
<1>2. PICK V : V = Object \cup {Gone}
  OBVIOUS
<1>3. /\ U \in Seq(V) /\ Len(U) = Len(T)
      /\ \A i \in 1 .. Len(T) : U[i] = IF i = id + 1 THEN Gone ELSE T[i]
  BY <1>1, <1>2 DEF Emptying
<1>4. U \in Tables
  BY <1>1, <1>2, <1>3 DEF Tables
<1>5. \A c \in 0 .. Len(T) - 1 : c + 1 \in 1 .. Len(T) /\ (c + 1 = id + 1 <=> c = id)
  BY <1>1
<1>6. Living(U) = Living(T) \ {id}
  BY <1>1, <1>3, <1>5 DEF Living
<1> QED BY <1>1, <1>3, <1>4, <1>5, <1>6 DEF Living

LEMMA DeletedIs ==
  ASSUME Sane(objects), NEW id \in Living(objects),
         NEW U, U = Emptying(Unlinked(id), id)
  PROVE  /\ Sane(U) /\ Len(U) = Len(objects) /\ Living(U) = Living(objects) \ {id}
         /\ \A c \in Living(U) :
              /\ U[c + 1].class = objects[c + 1].class
              /\ ToSet(U[c + 1].mixins) \subseteq ToSet(objects[c + 1].mixins)
              /\ U[c + 1].superclasses = objects[c + 1].superclasses
              /\ ToSet(U[c + 1].classMixins) \subseteq ToSet(objects[c + 1].classMixins)
              /\ SameRest(U[c + 1], objects[c + 1])
<1>1. PICK T, r : T = objects /\ r = T[id + 1]
  OBVIOUS
<1>2. /\ T \in Tables /\ Living(T) \subseteq Id /\ id \in Id
      /\ \A c \in Living(T) : T[c + 1] \in Object
  BY <1>1, LivingIs DEF Sane
<1>3. PICK i_out, s_out, u_out, m_out :
        /\ i_out = {r.class} \cup ToSet(r.mixins) /\ s_out = ToSet(r.superclasses)
        /\ u_out = ToSet(r.classMixins) /\ m_out = ToSet(r.users)
  OBVIOUS
<1>4. PICK one : one = EachLosesInstance(T, i_out, id)
  OBVIOUS
<1>5. PICK two : two = EachLosesSubclass(one, s_out, id)
  OBVIOUS
<1>6. PICK three : three = EachLosesUser(two, u_out, id)
  OBVIOUS
<1>7. PICK four : four = EachLosesMixin(three, m_out, id)
  OBVIOUS
<1>8. U = Emptying(four, id)
  BY <1>1, <1>3, <1>4, <1>5, <1>6, <1>7
     DEF Unlinked, obj, EachLosesInstance, EachLosesSubclass, EachLosesUser, EachLosesMixin
<1>9. /\ Shape(one, T)
      /\ \A c \in Living(T) :
           /\ one[c + 1].instances = IF c \in i_out THEN Without(T[c + 1].instances, id)
                                     ELSE T[c + 1].instances
           /\ one[c + 1].class = T[c + 1].class /\ one[c + 1].mixins = T[c + 1].mixins
           /\ SameSubclasses(one[c + 1], T[c + 1]) /\ SameUsers(one[c + 1], T[c + 1])
           /\ SameRest(one[c + 1], T[c + 1])
  BY <1>2, <1>4, AtLosesInstance
<1>10. one \in Tables /\ Living(one) = Living(T) /\ Len(one) = Len(T)
  BY <1>9 DEF Shape
<1>11. /\ Shape(two, one)
       /\ \A c \in Living(T) :
            /\ two[c + 1].subclasses = IF c \in s_out THEN Without(one[c + 1].subclasses, id)
                                       ELSE one[c + 1].subclasses
            /\ two[c + 1].superclasses = one[c + 1].superclasses
            /\ SameInstances(two[c + 1], one[c + 1]) /\ SameUsers(two[c + 1], one[c + 1])
            /\ SameRest(two[c + 1], one[c + 1])
  BY <1>2, <1>5, <1>10, AtLosesSubclass
<1>12. two \in Tables /\ Living(two) = Living(T) /\ Len(two) = Len(T)
  BY <1>10, <1>11 DEF Shape
<1>13. /\ Shape(three, two)
       /\ \A c \in Living(T) :
            /\ three[c + 1].users = IF c \in u_out THEN Without(two[c + 1].users, id)
                                    ELSE two[c + 1].users
            /\ three[c + 1].classMixins = two[c + 1].classMixins
            /\ SameInstances(three[c + 1], two[c + 1]) /\ SameSubclasses(three[c + 1], two[c + 1])
            /\ SameRest(three[c + 1], two[c + 1])
  BY <1>2, <1>6, <1>12, AtLosesUser
<1>14. three \in Tables /\ Living(three) = Living(T) /\ Len(three) = Len(T)
  BY <1>12, <1>13 DEF Shape
<1>15. /\ Shape(four, three)
       /\ \A c \in Living(T) :
            /\ four[c + 1].mixins = IF c \in m_out THEN Without(three[c + 1].mixins, id)
                                    ELSE three[c + 1].mixins
            /\ four[c + 1].classMixins = IF c \in m_out THEN Without(three[c + 1].classMixins, id)
                                         ELSE three[c + 1].classMixins
            /\ four[c + 1].class = three[c + 1].class
            /\ four[c + 1].instances = three[c + 1].instances
            /\ SameSubclasses(four[c + 1], three[c + 1])
            /\ four[c + 1].users = three[c + 1].users
            /\ SameRest(four[c + 1], three[c + 1])
  BY <1>2, <1>7, <1>14, AtLosesMixin
<1>16. four \in Tables /\ Living(four) = Living(T) /\ Len(four) = Len(T)
  BY <1>14, <1>15 DEF Shape
<1>17. /\ U \in Tables /\ Len(U) = Len(T) /\ Living(U) = Living(T) \ {id}
       /\ \A c \in Living(U) : U[c + 1] = four[c + 1]
  <2>1. id \in Living(four)
    BY <1>1, <1>16
  <2>2. /\ U \in Tables /\ Len(U) = Len(four) /\ Living(U) = Living(four) \ {id}
        /\ \A c \in Living(U) : U[c + 1] = four[c + 1]
    BY <1>8, <1>16, <2>1, Emptied
  <2> QED BY <1>16, <2>2
<1>18. PICK none : none = {}
  OBVIOUS
<1>19. ASSUME NEW c \in Living(U)
       PROVE  /\ c \in Living(T) /\ c # id
              /\ Relists(T[c + 1].instances, id, c, i_out, none, U[c + 1].instances)
              /\ Relists(T[c + 1].subclasses, id, c, s_out, none, U[c + 1].subclasses)
              /\ Relists(T[c + 1].users, id, c, u_out, none, U[c + 1].users)
  <2>1. c \in Living(T) /\ c # id /\ U[c + 1] = four[c + 1]
    BY <1>17
  <2> QED BY <1>9, <1>11, <1>13, <1>15, <1>18, <2>1
          DEF Relists, SameInstances, SameSubclasses, SameUsers
<1>20. ASSUME NEW c \in Living(U)
       PROVE  /\ U[c + 1].class = T[c + 1].class
              /\ U[c + 1].mixins = T[c + 1].mixins \/ U[c + 1].mixins = Without(T[c + 1].mixins, id)
              /\ U[c + 1].superclasses = T[c + 1].superclasses
              /\ \/ U[c + 1].classMixins = T[c + 1].classMixins
                 \/ U[c + 1].classMixins = Without(T[c + 1].classMixins, id)
              /\ SameRest(U[c + 1], T[c + 1])
  <2>1. c \in Living(T) /\ U[c + 1] = four[c + 1]
    BY <1>17
  <2> QED BY <1>9, <1>11, <1>13, <1>15, <2>1
          DEF SameInstances, SameSubclasses, SameUsers, SameRest
<1>21. ASSUME NEW c \in Living(U)
       PROVE  /\ U[c + 1].class = T[c + 1].class
              /\ ToSet(U[c + 1].mixins) \subseteq ToSet(T[c + 1].mixins)
              /\ \A x : x # id => (x \in ToSet(U[c + 1].mixins) <=> x \in ToSet(T[c + 1].mixins))
              /\ U[c + 1].superclasses = T[c + 1].superclasses
              /\ ToSet(U[c + 1].classMixins) \subseteq ToSet(T[c + 1].classMixins)
              /\ \A x : x # id => (x \in ToSet(U[c + 1].classMixins) <=> x \in ToSet(T[c + 1].classMixins))
              /\ SameRest(U[c + 1], T[c + 1])
  <2>1. T[c + 1].mixins \in Seq(Id) /\ T[c + 1].classMixins \in Seq(Id)
    BY <1>2, <1>19 DEF Object
  <2>2. /\ ToSet(Without(T[c + 1].mixins, id)) = ToSet(T[c + 1].mixins) \ {id}
        /\ ToSet(Without(T[c + 1].classMixins, id)) = ToSet(T[c + 1].classMixins) \ {id}
    BY <2>1, WithoutIs
  <2> QED BY <1>20, <2>2
<1>22. InstancesAgree(U)
  <2> SUFFICES ASSUME NEW c \in Living(U) PROVE Lists1(U[c + 1].instances, Instances(U, c))
    BY DEF InstancesAgree
  <2>1. PICK l, M, m, N : /\ l = T[c + 1].instances /\ M = Instances(T, c)
                          /\ m = U[c + 1].instances /\ N = Instances(U, c)
    OBVIOUS
  <2>2. l \in Seq(Id) /\ Lists1(l, M)
    BY <1>1, <1>2, <1>19, <2>1 DEF Object, Sane, InstancesAgree
  <2>3. Relists(l, id, c, i_out, none, m)
    BY <1>19, <2>1
  <2>4. ASSUME NEW i, i # id PROVE i \in N <=> i \in M
    BY <1>17, <1>19, <1>21, <2>1, <2>4 DEF Instances
  <2>5. id \in N <=> c \in none \/ (id \in M /\ c \notin i_out)
    BY <1>1, <1>3, <1>17, <1>18, <2>1 DEF Instances
  <2>6. c \in none => c \in i_out \/ id \notin M
    BY <1>18
  <2>7. Lists1(m, N)
    BY <1>2, <2>2, <2>3, <2>4, <2>5, <2>6, Relisted
  <2> QED BY <2>1, <2>7
<1>23. SubclassesAgree(U)
  <2> SUFFICES ASSUME NEW c \in Living(U) PROVE Lists1(U[c + 1].subclasses, Subclasses(U, c))
    BY DEF SubclassesAgree
  <2>1. PICK l, M, m, N : /\ l = T[c + 1].subclasses /\ M = Subclasses(T, c)
                          /\ m = U[c + 1].subclasses /\ N = Subclasses(U, c)
    OBVIOUS
  <2>2. l \in Seq(Id) /\ Lists1(l, M)
    BY <1>1, <1>2, <1>19, <2>1 DEF Object, Sane, SubclassesAgree
  <2>3. Relists(l, id, c, s_out, none, m)
    BY <1>19, <2>1
  <2>4. ASSUME NEW i, i # id PROVE i \in N <=> i \in M
    BY <1>17, <1>19, <1>21, <2>1, <2>4 DEF Subclasses
  <2>5. id \in N <=> c \in none \/ (id \in M /\ c \notin s_out)
    BY <1>1, <1>3, <1>17, <1>18, <2>1 DEF Subclasses
  <2>6. c \in none => c \in s_out \/ id \notin M
    BY <1>18
  <2>7. Lists1(m, N)
    BY <1>2, <2>2, <2>3, <2>4, <2>5, <2>6, Relisted
  <2> QED BY <2>1, <2>7
<1>24. UsersAgree(U)
  <2> SUFFICES ASSUME NEW c \in Living(U) PROVE Lists1(U[c + 1].users, Users(U, c))
    BY DEF UsersAgree
  <2>1. PICK l, M, m, N : /\ l = T[c + 1].users /\ M = Users(T, c)
                          /\ m = U[c + 1].users /\ N = Users(U, c)
    OBVIOUS
  <2>2. l \in Seq(Id) /\ Lists1(l, M)
    BY <1>1, <1>2, <1>19, <2>1 DEF Object, Sane, UsersAgree
  <2>3. Relists(l, id, c, u_out, none, m)
    BY <1>19, <2>1
  <2>4. ASSUME NEW i, i # id PROVE i \in N <=> i \in M
    BY <1>17, <1>19, <1>21, <2>1, <2>4 DEF Users
  <2>5. id \in N <=> c \in none \/ (id \in M /\ c \notin u_out)
    BY <1>1, <1>3, <1>17, <1>18, <2>1 DEF Users
  <2>6. c \in none => c \in u_out \/ id \notin M
    BY <1>18
  <2>7. Lists1(m, N)
    BY <1>2, <2>2, <2>3, <2>4, <2>5, <2>6, Relisted
  <2> QED BY <2>1, <2>7
<1>25. LinksKnown(U)
  <2>1. LinksKnown(T)
    BY <1>1 DEF Sane
  <2> SUFFICES ASSUME NEW i \in Living(U)
               PROVE  /\ U[i + 1].class \in 0 .. Len(T) - 1
                      /\ ToSet(U[i + 1].mixins) \subseteq 0 .. Len(T) - 1
                      /\ ToSet(U[i + 1].superclasses) \subseteq 0 .. Len(T) - 1
                      /\ ToSet(U[i + 1].classMixins) \subseteq 0 .. Len(T) - 1
    BY <1>17 DEF LinksKnown
  <2>2. /\ T[i + 1].class \in 0 .. Len(T) - 1
        /\ ToSet(T[i + 1].mixins) \subseteq 0 .. Len(T) - 1
        /\ ToSet(T[i + 1].superclasses) \subseteq 0 .. Len(T) - 1
        /\ ToSet(T[i + 1].classMixins) \subseteq 0 .. Len(T) - 1
    BY <1>19, <2>1 DEF LinksKnown
  <2>3. PICK D : D = 0 .. Len(T) - 1
    OBVIOUS
  <2> QED BY <1>21, <2>2, <2>3
<1>26. OnlyClassesInherit(U)
  <2> SUFFICES ASSUME NEW i \in Living(U), ~U[i + 1].is_class
               PROVE  ToSet(U[i + 1].superclasses) = {} /\ ToSet(U[i + 1].classMixins) = {}
    BY DEF OnlyClassesInherit
  <2>1. ~T[i + 1].is_class
    BY <1>21 DEF SameRest
  <2>2. ToSet(T[i + 1].superclasses) = {} /\ ToSet(T[i + 1].classMixins) = {}
    BY <1>1, <1>19, <2>1 DEF Sane, OnlyClassesInherit
  <2> QED BY <1>21, <2>2
<1>27. Sane(U)
  BY <1>17, <1>22, <1>23, <1>24, <1>25, <1>26 DEF Sane
<1> QED BY <1>1, <1>17, <1>21, <1>27

(* `rename`, and the mark of what is being destroyed.                      *)
LEMMA MarkedIs ==
  ASSUME Sane(objects), NEW id \in Living(objects), NEW U, U = Marked(id)
  PROVE  /\ Shape(U, objects) /\ Sane(U)
         /\ \A c \in Living(objects) :
              /\ U[c + 1].class = objects[c + 1].class
              /\ U[c + 1].mixins = objects[c + 1].mixins
              /\ U[c + 1].superclasses = objects[c + 1].superclasses
              /\ U[c + 1].classMixins = objects[c + 1].classMixins
              /\ U[c + 1].is_class = objects[c + 1].is_class
              /\ U[c + 1].home = objects[c + 1].home
              /\ (c # id => U[c + 1].destructing = objects[c + 1].destructing)
         /\ U[id + 1].destructing
<1>1. PICK T, self : T = objects /\ self = {id} /\ T \in Tables
  BY DEF Sane
<1>2. U = EachCondemns(T, self)
  BY <1>1 DEF Marked, EachCondemns
<1>3. /\ Shape(U, T)
      /\ \A c \in Living(T) :
           /\ (c \in self => U[c + 1].destructing)
           /\ (c \notin self => U[c + 1].destructing = T[c + 1].destructing)
           /\ SameInstances(U[c + 1], T[c + 1])
           /\ SameSubclasses(U[c + 1], T[c + 1])
           /\ SameUsers(U[c + 1], T[c + 1])
           /\ U[c + 1].is_class = T[c + 1].is_class
           /\ U[c + 1].home = T[c + 1].home
  BY <1>1, <1>2, AtCondemns
<1>4. Sane(U)
  BY <1>1, <1>3, SaneCarry
<1> QED BY <1>1, <1>3, <1>4 DEF SameInstances, SameSubclasses, SameUsers

OnlyMoved(U, T, id) ==
  \A c \in Living(T) :
    /\ U[c + 1].class = T[c + 1].class
    /\ U[c + 1].mixins = T[c + 1].mixins
    /\ U[c + 1].superclasses = T[c + 1].superclasses
    /\ U[c + 1].classMixins = T[c + 1].classMixins
    /\ U[c + 1].is_class = T[c + 1].is_class
    /\ (c # id => U[c + 1].home = T[c + 1].home)
    /\ U[c + 1].destructing = T[c + 1].destructing

LEMMA MovedIs ==
  ASSUME Sane(objects), NEW id \in Living(objects), NEW home \in Places,
         NEW U, U = EachMoves(objects, {id}, home)
  PROVE  Shape(U, objects) /\ Sane(U) /\ OnlyMoved(U, objects, id)
<1>1. PICK T, self : T = objects /\ self = {id} /\ T \in Tables
  BY DEF Sane
<1>2. U = EachMoves(T, self, home)
  BY <1>1
<1>3. /\ Shape(U, T)
      /\ \A c \in Living(T) :
           /\ U[c + 1].home = IF c \in self THEN home ELSE T[c + 1].home
           /\ SameInstances(U[c + 1], T[c + 1])
           /\ SameSubclasses(U[c + 1], T[c + 1])
           /\ SameUsers(U[c + 1], T[c + 1])
           /\ U[c + 1].is_class = T[c + 1].is_class
           /\ U[c + 1].destructing = T[c + 1].destructing
  <2>1. T \in Tables /\ home \in Places /\ U = EachMoves(T, self, home)
    BY <1>1, <1>2
  <2>2. Shape(U, T)
    BY <2>1, AtMoves
  <2>3. \A c \in Living(T) : U[c + 1].home = IF c \in self THEN home ELSE T[c + 1].home
    BY <2>1, AtMoves
  <2>4. \A c \in Living(T) :
          /\ SameInstances(U[c + 1], T[c + 1])
          /\ SameSubclasses(U[c + 1], T[c + 1])
          /\ SameUsers(U[c + 1], T[c + 1])
          /\ U[c + 1].is_class = T[c + 1].is_class
          /\ U[c + 1].destructing = T[c + 1].destructing
    BY <2>1, AtMoves
  <2> QED BY <2>2, <2>3, <2>4
<1>4. Sane(U)
  BY <1>1, <1>3, SaneCarry
<1> QED BY <1>1, <1>3, <1>4 DEF OnlyMoved, SameInstances, SameSubclasses, SameUsers


-----------------------------------------------------------------------------
(* What is under way: the main script first, and each frame about an object *)
(* there is or was.                                                        *)
WorkOK(W, n) ==
  /\ W \in Seq(Work) /\ W # <<>> /\ W[1].what = "main"
  /\ \A i \in 1 .. Len(W) : W[i].obj \in 0 .. n - 1

Kinds == Scripts \cup {"descendants", "nested", "namespace"}

LEMMA DoingIs ==
  ASSUME NEW what \in Kinds, NEW id \in Id, NEW todo \in Seq(Id)
  PROVE  /\ Doing(what, id, todo) \in Work /\ Doing(what, id, todo).what = what
         /\ Doing(what, id, todo).obj = id /\ Doing(what, id, todo).todo = todo
<1>1. PICK list : list = Seq(Id)
  OBVIOUS
<1> QED BY <1>1 DEF Doing, Work, Kinds

Shorter(frame) == [frame EXCEPT !.todo = Tail(@)]

LEMMA ShorterIs ==
  ASSUME NEW frame \in Work, frame.todo # <<>>
  PROVE  /\ Shorter(frame) \in Work /\ Shorter(frame).what = frame.what
         /\ Shorter(frame).obj = frame.obj
         /\ Head(frame.todo) \in Id
         /\ ToSet(frame.todo) = {Head(frame.todo)} \cup ToSet(Shorter(frame).todo)
<1>1. PICK list : list = Seq(Id)
  OBVIOUS
<1>2. PICK todo : todo = frame.todo
  OBVIOUS
<1>3. todo \in Seq(Id) /\ todo # <<>>
  BY <1>2 DEF Work
<1>4. Tail(todo) \in Seq(Id) /\ Head(todo) \in Id
  BY <1>3
<1>5. /\ Shorter(frame) \in Work /\ Shorter(frame).what = frame.what
      /\ Shorter(frame).obj = frame.obj /\ Shorter(frame).todo = Tail(todo)
  BY <1>1, <1>2, <1>4 DEF Work, Shorter
<1>6. /\ Len(todo) \in Nat /\ Len(todo) >= 1 /\ DOMAIN todo = 1 .. Len(todo)
      /\ DOMAIN Tail(todo) = 1 .. Len(todo) - 1 /\ Head(todo) = todo[1]
      /\ \A i \in 1 .. Len(todo) - 1 : Tail(todo)[i] = todo[i + 1]
  BY <1>3
<1>7. ToSet(todo) = {Head(todo)} \cup ToSet(Tail(todo))
  <2>1. \A i \in 1 .. Len(todo) : i = 1 \/ (i - 1 \in 1 .. Len(todo) - 1 /\ (i - 1) + 1 = i)
    BY <1>6
  <2>2. \A i \in 1 .. Len(todo) - 1 : i + 1 \in 1 .. Len(todo)
    BY <1>6
  <2>3. 1 \in 1 .. Len(todo)
    BY <1>6
  <2>4. ASSUME NEW x \in ToSet(todo) PROVE x \in {Head(todo)} \cup ToSet(Tail(todo))
    <3>1. PICK i \in 1 .. Len(todo) : x = todo[i]
      BY <1>6 DEF ToSet
    <3>2. CASE i = 1
      BY <1>6, <3>1, <3>2
    <3>3. CASE i # 1
      <4>1. i - 1 \in DOMAIN Tail(todo) /\ Tail(todo)[i - 1] = x
        BY <1>6, <2>1, <3>1, <3>3
      <4> QED BY <4>1 DEF ToSet
    <3> QED BY <3>2, <3>3
  <2>5. ASSUME NEW x \in ToSet(Tail(todo)) PROVE x \in ToSet(todo)
    BY <1>6, <2>2, <2>5 DEF ToSet
  <2>6. Head(todo) \in ToSet(todo)
    BY <1>6, <2>3 DEF ToSet
  <2> QED BY <2>4, <2>5, <2>6
<1> QED BY <1>2, <1>4, <1>5, <1>7

LEMMA PushedIs ==
  ASSUME NEW W \in Seq(Work), NEW frame \in Work, NEW V, V = Append(W, frame)
  PROVE  /\ V \in Seq(Work) /\ Len(V) = Len(W) + 1 /\ Len(W) \in Nat
         /\ (\A i \in 1 .. Len(W) : V[i] = W[i]) /\ V[Len(V)] = frame
         /\ \A i \in 1 .. Len(V) : i \in 1 .. Len(W) \/ i = Len(V)
OBVIOUS

LEMMA PoppedIs ==
  ASSUME NEW W \in Seq(Work), W # <<>>, NEW V, V = Front(W)
  PROVE  /\ V \in Seq(Work) /\ Len(V) = Len(W) - 1 /\ Len(W) \in Nat
         /\ Len(W) \in 1 .. Len(W) /\ Len(W) \notin 1 .. Len(V)
         /\ \A i \in 1 .. Len(V) : V[i] = W[i] /\ i \in 1 .. Len(W)
         /\ \A i \in 1 .. Len(W) : i \in 1 .. Len(V) \/ i = Len(W)
<1>1. PICK n : n = Len(W) - 1
  OBVIOUS
<1>2. n \in Nat /\ n + 1 = Len(W) /\ \A i \in 1 .. n : W[i] \in Work /\ i \in 1 .. Len(W)
  BY <1>1
<1>3. V = SubSeq(W, 1, n)
  BY <1>1 DEF Front
<1>4. /\ V \in Seq(Work) /\ Len(V) = n
      /\ \A i \in 1 .. n : V[i] = W[i]
  <2>1. /\ V \in Seq(Work) /\ Len(V) = IF 1 <= n THEN n - 1 + 1 ELSE 0
        /\ \A i \in 1 .. n - 1 + 1 : V[i] = W[1 + i - 1]
    BY <1>2, <1>3, SubSeqProperties
  <2>2. n - 1 + 1 = n /\ \A i \in 1 .. n : 1 + i - 1 = i
    BY <1>2
  <2> QED BY <1>2, <2>1, <2>2
<1> QED BY <1>2, <1>4

LEMMA PushOK ==
  ASSUME NEW W, NEW m \in Nat, NEW n \in Nat, WorkOK(W, m), m <= n,
         NEW frame \in Work, frame.obj \in 0 .. n - 1, NEW V, V = Append(W, frame)
  PROVE  WorkOK(V, n)
<1>1. W \in Seq(Work) /\ W # <<>> /\ 1 \in 1 .. Len(W)
  BY DEF WorkOK
<1>2. /\ V \in Seq(Work) /\ Len(V) = Len(W) + 1 /\ Len(W) \in Nat
      /\ (\A i \in 1 .. Len(W) : V[i] = W[i]) /\ V[Len(V)] = frame
      /\ \A i \in 1 .. Len(V) : i \in 1 .. Len(W) \/ i = Len(V)
  BY <1>1, PushedIs
<1>3. \A x \in 0 .. m - 1 : x \in 0 .. n - 1
  OBVIOUS
<1>4. V # <<>> /\ V[1].what = "main"
  BY <1>1, <1>2 DEF WorkOK
<1>5. ASSUME NEW i \in 1 .. Len(V) PROVE V[i].obj \in 0 .. n - 1
  BY <1>2, <1>3 DEF WorkOK
<1> QED BY <1>2, <1>4, <1>5 DEF WorkOK

LEMMA PopOK ==
  ASSUME NEW W, NEW n \in Nat, WorkOK(W, n), W[Len(W)].what # "main", NEW V, V = Front(W)
  PROVE  WorkOK(V, n)
<1>1. W \in Seq(Work) /\ W # <<>> /\ 1 \in 1 .. Len(W) /\ Len(W) # 1
  BY DEF WorkOK
<1>2. /\ V \in Seq(Work) /\ Len(V) = Len(W) - 1 /\ Len(W) \in Nat
      /\ \A i \in 1 .. Len(V) : V[i] = W[i] /\ i \in 1 .. Len(W)
  BY <1>1, PoppedIs
<1>3. 1 \in 1 .. Len(V) /\ V # <<>>
  BY <1>1, <1>2
<1> QED BY <1>2, <1>3 DEF WorkOK

LEMMA ListsAre ==
  ASSUME NEW S \in SUBSET Living(objects), Sane(objects), NEW list \in Lists(S)
  PROVE  /\ list \in Seq(Id) /\ ToSet(list) \subseteq S
         /\ ToSet(list) \subseteq 0 .. Len(objects) - 1
<1>1. S \subseteq Id /\ S \subseteq 0 .. Len(objects) - 1
  BY LivingIs DEF Sane, Living
<1>2. PICK n \in Nat : list \in [1 .. n -> S]
  BY ObjectsAssumption DEF Lists, BoundedSeq, SeqOf
<1>3. list \in Seq(S) /\ DOMAIN list = 1 .. n
  BY <1>2
<1>4. ToSet(list) \subseteq S
  BY <1>2, <1>3 DEF ToSet
<1>5. list \in Seq(Id)
  <2>1. list \in [1 .. n -> Id]
    BY <1>1, <1>2
  <2> QED BY <2>1
<1> QED BY <1>1, <1>4, <1>5

LEMMA LiveIs == Live = Living(objects) /\ \A id : alive(id) <=> id \in Living(objects)
<1>1. \A id : alive(id) <=> id \in Living(objects)
  BY DEF alive, Ids, Living, obj
<1> QED BY <1>1 DEF Live, Living, Ids

(* What a deletion and `namespace delete` list.                            *)
LEMMA InsideIs ==
  ASSUME Sane(objects), NEW id
  PROVE  /\ Inside(id) \in Seq(Id)
         /\ ToSet(Inside(id)) = {d \in Living(objects) : objects[d + 1].home = id}
<1>1. /\ Len(objects) \in Nat /\ DOMAIN objects = 1 .. Len(objects)
      /\ Living(objects) \subseteq Id /\ Len(objects) \in 2 .. MaxObjects
  BY LivingIs DEF Sane, Tables
<1>2. PICK all : all = [i \in DOMAIN objects |-> i - 1]
  OBVIOUS
<1>3. all \in Seq(Id) /\ ToSet(all) = 0 .. Len(objects) - 1
  <2>1. DOMAIN all = 1 .. Len(objects) /\ \A i \in 1 .. Len(objects) : all[i] = i - 1
    BY <1>1, <1>2
  <2>2. \A i \in 1 .. Len(objects) : i - 1 \in Id /\ i - 1 \in 0 .. Len(objects) - 1
    BY <1>1, ObjectsAssumption DEF Id
  <2>3. \A d \in 0 .. Len(objects) - 1 : d + 1 \in 1 .. Len(objects) /\ (d + 1) - 1 = d
    BY <1>1
  <2>4. all \in Seq(Id)
    BY <1>1, <1>2, <2>2
  <2>5. \A d : d \in ToSet(all) <=> d \in 0 .. Len(objects) - 1
    <3>1. ASSUME NEW d \in ToSet(all) PROVE d \in 0 .. Len(objects) - 1
      BY <2>1, <2>2 DEF ToSet
    <3>2. ASSUME NEW d \in 0 .. Len(objects) - 1 PROVE d \in ToSet(all)
      <4>1. d + 1 \in DOMAIN all /\ all[d + 1] = d
        BY <2>1, <2>3
      <4> QED BY <4>1 DEF ToSet
    <3> QED BY <3>1, <3>2
  <2> QED BY <2>4, <2>5
<1>4. PICK there : there = {d \in Live : obj(d).home = id}
  OBVIOUS
<1>5. Inside(id) = Keeping(all, there)
  BY <1>2, <1>4 DEF Inside
<1>6. Inside(id) \in Seq(Id) /\ ToSet(Inside(id)) = ToSet(all) \cap there
  BY <1>3, <1>5, KeepingIs
<1>7. there = {d \in Living(objects) : objects[d + 1].home = id}
  BY <1>4, LiveIs DEF obj
<1> QED BY <1>3, <1>6, <1>7 DEF Living

LEMMA DescendantsIs ==
  ASSUME Sane(objects), NEW id \in Living(objects)
  PROVE  /\ Descendants(id) \in Seq(Id)
         /\ objects[id + 1].is_class =>
              ToSet(Descendants(id)) =
                (Users(objects, id) \cup Subclasses(objects, id) \cup Instances(objects, id))
                  \ ({id} \cup deleting)
<1>1. PICK r : r = objects[id + 1]
  OBVIOUS
<1>2. PICK us, ss, is : us = Reverse(r.users) /\ ss = Reverse(r.subclasses) /\ is = Reverse(r.instances)
  OBVIOUS
<1>3. r.users \in Seq(Id) /\ r.subclasses \in Seq(Id) /\ r.instances \in Seq(Id)
  BY <1>1, LivingIs DEF Sane, Object
<1>4. /\ us \in Seq(Id) /\ ToSet(us) = ToSet(r.users)
      /\ ss \in Seq(Id) /\ ToSet(ss) = ToSet(r.subclasses)
      /\ is \in Seq(Id) /\ ToSet(is) = ToSet(r.instances)
  BY <1>2, <1>3, ReverseIs
<1>5. PICK two : two = us \o ss
  OBVIOUS
<1>6. two \in Seq(Id) /\ ToSet(two) = ToSet(us) \cup ToSet(ss)
  BY <1>4, <1>5, JoinedIs
<1>7. PICK all : all = two \o is
  OBVIOUS
<1>8. all \in Seq(Id) /\ ToSet(all) = ToSet(two) \cup ToSet(is)
  BY <1>4, <1>6, <1>7, JoinedIs
<1>9. PICK but : but = Ids \ ({id} \cup deleting)
  OBVIOUS
<1>10. Keeping(all, but) \in Seq(Id) /\ ToSet(Keeping(all, but)) = ToSet(all) \cap but
  BY <1>8, KeepingIs
<1>11. Descendants(id) = IF ~r.is_class THEN <<>> ELSE Keeping(all, but)
  BY <1>1, <1>2, <1>5, <1>7, <1>9 DEF Descendants, obj
<1>12. Descendants(id) \in Seq(Id)
  BY <1>10, <1>11
<1>13. /\ ToSet(r.users) = Users(objects, id) /\ ToSet(r.subclasses) = Subclasses(objects, id)
       /\ ToSet(r.instances) = Instances(objects, id)
  BY <1>1 DEF Sane, UsersAgree, SubclassesAgree, InstancesAgree, Lists1
<1>14. Users(objects, id) \cup Subclasses(objects, id) \cup Instances(objects, id) \subseteq Ids
  BY DEF Users, Subclasses, Instances, Living, Ids
<1>15. ASSUME r.is_class
       PROVE  ToSet(Descendants(id)) =
                (Users(objects, id) \cup Subclasses(objects, id) \cup Instances(objects, id))
                  \ ({id} \cup deleting)
  <2>1. Descendants(id) = Keeping(all, but)
    BY <1>11, <1>15
  <2>2. ToSet(Descendants(id)) = ToSet(all) \cap but
    BY <1>10, <2>1
  <2> QED BY <1>4, <1>6, <1>8, <1>9, <1>13, <1>14, <2>2
<1> QED BY <1>1, <1>12, <1>15

-----------------------------------------------------------------------------
(* The tables agree, and what is under way is about objects there are or   *)
(* were: the invariant for types, and for the two ends of each link.       *)
Known == /\ Sane(objects) /\ deleting \subseteq Living(objects)
         /\ WorkOK(work, Len(objects))

LEMMA KnownIs ==
  ASSUME Known
  PROVE  /\ Sane(objects) /\ Len(objects) \in Nat /\ Len(objects) \in 2 .. MaxObjects
         /\ Live = Living(objects) /\ Living(objects) \subseteq Id
         /\ Living(objects) \subseteq 0 .. Len(objects) - 1
         /\ 0 .. Len(objects) - 1 \subseteq Id
         /\ work \in Seq(Work) /\ work # <<>> /\ Len(work) \in Nat /\ Len(work) \in 1 .. Len(work)
         /\ now = work[Len(work)] /\ now \in Work
         /\ now.obj \in 0 .. Len(objects) - 1
         /\ \A id : alive(id) <=> id \in Living(objects)
<1>1. Sane(objects) /\ objects \in Tables /\ Len(objects) \in Nat /\ Len(objects) \in 2 .. MaxObjects
  BY LivingIs DEF Known, Sane, Tables
<1>2. /\ Living(objects) \subseteq 0 .. Len(objects) - 1 /\ Living(objects) \subseteq Id
      /\ 0 .. Len(objects) - 1 \subseteq Id
  BY <1>1, LivingIs, ObjectsAssumption DEF Living, Id
<1>3. work \in Seq(Work) /\ work # <<>>
  BY DEF Known, WorkOK
<1>4. Len(work) \in Nat /\ Len(work) \in 1 .. Len(work) /\ work[Len(work)] \in Work
  BY <1>3
<1>5. now = work[Len(work)] /\ now.obj \in 0 .. Len(objects) - 1
  BY <1>4 DEF now, Last, Known, WorkOK
<1> QED BY <1>1, <1>2, <1>3, <1>4, <1>5, LiveIs

(* The roots, as Init makes them.                                          *)
LEMMA InitIs ==
  ASSUME Init
  PROVE  /\ objects \in Tables /\ Len(objects) = 2 /\ Living(objects) = {0, 1}
         /\ objects[1].class = class_cls /\ objects[2].class = class_cls
         /\ objects[1].is_class = TRUE /\ objects[2].is_class = TRUE
         /\ objects[1].mixins = <<>> /\ objects[2].mixins = <<>>
         /\ objects[1].superclasses = <<>> /\ objects[2].superclasses = <<object_cls>>
         /\ objects[1].subclasses = <<class_cls>> /\ objects[2].subclasses = <<>>
         /\ objects[1].instances = <<>> /\ objects[2].instances = <<object_cls, class_cls>>
         /\ objects[1].classMixins = <<>> /\ objects[2].classMixins = <<>>
         /\ objects[1].users = <<>> /\ objects[2].users = <<>>
         /\ objects[1].home = Nowhere /\ objects[2].home = Nowhere
<1>1. PICK zero, one : /\ zero = [Born(class_cls, TRUE, <<>>, Nowhere) EXCEPT !.subclasses = <<class_cls>>]
                       /\ one = [Born(class_cls, TRUE, <<object_cls>>, Nowhere) EXCEPT
                                   !.instances = <<object_cls, class_cls>>]
  OBVIOUS
<1>2. PICK list : list = Seq(Id)
  OBVIOUS
<1>3. /\ object_cls \in Id /\ class_cls \in Id /\ <<>> \in list /\ <<class_cls>> \in list
      /\ <<object_cls>> \in list /\ <<object_cls, class_cls>> \in list
      /\ Nowhere \in Id \cup {Nowhere}
  <2>1. 0 \in Id /\ 1 \in Id
    BY ObjectsAssumption DEF Id
  <2> QED BY <1>2, <2>1 DEF object_cls, class_cls
<1>4. /\ zero \in Object /\ zero.class = class_cls /\ zero.is_class = TRUE /\ zero.mixins = <<>>
      /\ zero.superclasses = <<>> /\ zero.subclasses = <<class_cls>> /\ zero.instances = <<>>
      /\ zero.classMixins = <<>> /\ zero.users = <<>> /\ zero.home = Nowhere
  BY <1>1, <1>2, <1>3 DEF Born, Object
<1>5. /\ one \in Object /\ one.class = class_cls /\ one.is_class = TRUE /\ one.mixins = <<>>
      /\ one.superclasses = <<object_cls>> /\ one.subclasses = <<>>
      /\ one.instances = <<object_cls, class_cls>>
      /\ one.classMixins = <<>> /\ one.users = <<>> /\ one.home = Nowhere
  BY <1>1, <1>2, <1>3 DEF Born, Object
<1>6. PICK T : T = <<zero, one>>
  OBVIOUS
<1>7. T = objects
  BY <1>1, <1>6 DEF Init
<1>8. /\ T \in Tables /\ Len(T) = 2 /\ T[1] = zero /\ T[2] = one
  BY <1>4, <1>5, <1>6, ObjectsAssumption DEF Tables
<1>9. Living(T) = {0, 1}
  <2>1. zero # Gone /\ one # Gone
    BY <1>4, <1>5, Absences
  <2>2. 0 .. Len(T) - 1 = {0, 1} /\ 0 + 1 = 1 /\ 1 + 1 = 2
    BY <1>8
  <2> QED BY <1>8, <2>1, <2>2 DEF Living
<1> QED BY <1>4, <1>5, <1>7, <1>8, <1>9

LEMMA KnownInit ==
  ASSUME Init PROVE Known
<1>1. class_cls \in Id
  BY ObjectsAssumption DEF Id, class_cls
<1>2. PICK T, zero, one : T = objects /\ zero = T[1] /\ one = T[2]
  OBVIOUS
<1>3. T = objects
  BY <1>2
<1>4. T \in Tables /\ Len(T) = 2 /\ T[1] = zero /\ T[2] = one /\ Living(T) = {0, 1}
  BY <1>2, InitIs
<1>5. Living(T) = {0, 1}
  BY <1>4
<1>6. /\ zero.class = class_cls /\ zero.is_class = TRUE /\ zero.mixins = <<>>
      /\ zero.superclasses = <<>> /\ zero.subclasses = <<class_cls>> /\ zero.instances = <<>>
      /\ zero.classMixins = <<>> /\ zero.users = <<>>
  BY <1>2, InitIs
<1>7. /\ one.class = class_cls /\ one.is_class = TRUE /\ one.mixins = <<>>
      /\ one.superclasses = <<object_cls>> /\ one.subclasses = <<>>
      /\ one.instances = <<object_cls, class_cls>>
      /\ one.classMixins = <<>> /\ one.users = <<>>
  BY <1>2, InitIs
<1>8. /\ ToSet(<<>>) = {} /\ ToSet(<<class_cls>>) = {1} /\ ToSet(<<object_cls>>) = {0}
       /\ ToSet(<<object_cls, class_cls>>) = {0, 1}
       /\ IsInjective(<<>>) /\ IsInjective(<<class_cls>>)
       /\ IsInjective(<<object_cls>>) /\ IsInjective(<<object_cls, class_cls>>)
  BY DEF ToSet, IsInjective, object_cls, class_cls
<1>9. \A i \in {0, 1} : i = 0 \/ i = 1
  OBVIOUS
<1>10. /\ Instances(T, 0) = {} /\ Instances(T, 1) = {0, 1}
       /\ Subclasses(T, 0) = {1} /\ Subclasses(T, 1) = {}
       /\ Users(T, 0) = {} /\ Users(T, 1) = {}
  BY <1>6, <1>7, <1>4, <1>5, <1>8 DEF Instances, Subclasses, Users, class_cls
<1>11. InstancesAgree(T) /\ SubclassesAgree(T) /\ UsersAgree(T)
  <2>1. /\ Lists1(zero.instances, Instances(T, 0)) /\ Lists1(zero.subclasses, Subclasses(T, 0))
        /\ Lists1(zero.users, Users(T, 0))
    BY <1>6, <1>8, <1>10 DEF Lists1
  <2>2. /\ Lists1(one.instances, Instances(T, 1)) /\ Lists1(one.subclasses, Subclasses(T, 1))
        /\ Lists1(one.users, Users(T, 1))
    BY <1>7, <1>8, <1>10 DEF Lists1
  <2>3. T[0 + 1] = zero /\ T[1 + 1] = one
    BY <1>4
  <2>4. \A c \in Living(T) : c = 0 \/ c = 1
    BY <1>5
  <2> QED BY <2>1, <2>2, <2>3, <2>4 DEF InstancesAgree, SubclassesAgree, UsersAgree
<1>12. LinksKnown(T) /\ OnlyClassesInherit(T)
  BY <1>6, <1>7, <1>4, <1>5, <1>8 DEF LinksKnown, OnlyClassesInherit, class_cls
<1>13. Sane(objects)
  BY <1>3, <1>4, <1>11, <1>12 DEF Sane
<1>14. WorkOK(work, Len(objects))
  <2>1. PICK main : main = Doing("main", class_cls, <<>>)
    OBVIOUS
  <2>2. main \in Work /\ main.what = "main" /\ main.obj = 1
    <3>1. <<>> \in Seq(Id) /\ class_cls \in Id
      BY <1>1
    <3>2. "main" \in Kinds
      BY DEF Kinds, Scripts
    <3>3. PICK none : none = <<>>
      OBVIOUS
    <3>4. none \in Seq(Id) /\ main = Doing("main", class_cls, none)
      BY <2>1, <3>1, <3>3
    <3>5. main \in Work /\ main.what = "main" /\ main.obj = class_cls
      BY <3>1, <3>2, <3>4, DoingIs
    <3> QED BY <3>5 DEF class_cls
  <2>3. work = <<main>>
    BY <2>1 DEF Init
  <2> QED BY <1>3, <1>4, <2>2, <2>3 DEF WorkOK
<1> QED BY <1>13, <1>14 DEF Known, Init

LEMMA KnownGrows ==
  ASSUME Known, Extends(objects', objects), deleting' = deleting,
         work' = Append(work, Doing("construct", Len(objects), <<>>))
  PROVE  Known'
<1>1. /\ Sane(objects') /\ Len(objects') = Len(objects) + 1 /\ Len(objects) \in Id
      /\ Living(objects) \subseteq Living(objects')
  BY DEF Extends
<1>2. PICK frame : frame = Doing("construct", Len(objects), <<>>)
  OBVIOUS
<1>3. frame \in Work /\ frame.obj = Len(objects)
  <2>1. <<>> \in Seq(Id) /\ "construct" \in Kinds
    BY DEF Kinds, Scripts
  <2>2. PICK none : none = <<>>
    OBVIOUS
  <2>3. none \in Seq(Id) /\ frame = Doing("construct", Len(objects), none)
    BY <1>2, <2>1, <2>2
  <2> QED BY <1>1, <2>1, <2>3, DoingIs
<1>4. /\ Len(objects) \in Nat /\ Len(objects') \in Nat /\ Len(objects) <= Len(objects')
      /\ Len(objects) \in 0 .. Len(objects') - 1
  BY <1>1, KnownIs
<1>5. WorkOK(work', Len(objects'))
  BY <1>2, <1>3, <1>4, PushOK DEF Known
<1> QED BY <1>1, <1>5 DEF Known

LEMMA KnownCreate ==
  ASSUME Known, NEW class \in Live, NEW home \in (Homes \cap Live) \cup {Nowhere}, Create(class, home)
  PROVE  Known'
<1>1. /\ class \in 0 .. Len(objects) - 1 /\ home \in Places /\ Len(objects) < MaxObjects
      /\ objects' = Allocated(class, home)
      /\ work' = Append(work, Doing("construct", Len(objects), <<>>)) /\ deleting' = deleting
  BY KnownIs DEF Create, Into, Places
<1>2. Extends(objects', objects)
  BY <1>1, KnownIs, AllocatedIs
<1> QED BY <1>1, <1>2, KnownGrows

LEMMA KnownCopy ==
  ASSUME Known, NEW src \in Live, NEW home \in (Homes \cap Live) \cup {Nowhere}, Copy(src, home)
  PROVE  Known'
<1>1. /\ src \in Living(objects) /\ home \in Places /\ Len(objects) < MaxObjects
      /\ objects' = Copied(src, home)
      /\ work' = Append(work, Doing("construct", Len(objects), <<>>)) /\ deleting' = deleting
  BY KnownIs DEF Copy, Into, Places
<1>2. Extends(objects', objects)
  BY <1>1, KnownIs, CopiedIs
<1> QED BY <1>1, <1>2, KnownGrows

(* A change of links or names: the objects stay, and so does the work.     *)
LEMMA KnownRelinks ==
  ASSUME Known, Shape(objects', objects), Sane(objects'), UNCHANGED <<deleting, work>>
  PROVE  Known'
BY DEF Known, Shape

LEMMA KnownSuperclasses ==
  ASSUME Known, NEW id \in Live, NEW list \in Lists(Live) \ {<<>>}, set_superclasses(id, list)
  PROVE  Known'
<1>1. /\ id \in Living(objects) /\ objects[id + 1].is_class
      /\ list \in Seq(Id) /\ ToSet(list) \subseteq 0 .. Len(objects) - 1
      /\ objects' = Superclassed(objects, id, list) /\ UNCHANGED <<deleting, work>>
  <2>1. Live \in SUBSET Living(objects) /\ Sane(objects) /\ list \in Lists(Live)
    BY KnownIs
  <2> QED BY <2>1, KnownIs, ListsAre DEF set_superclasses, Class, obj
<1>2. Shape(objects', objects) /\ Sane(objects')
  BY <1>1, KnownIs, SuperclassedIs
<1> QED BY <1>1, <1>2, KnownRelinks

LEMMA KnownMixins ==
  ASSUME Known, NEW id \in Live, NEW list \in Lists(Mixable \cap Live), set_mixins(id, list)
  PROVE  Known'
<1>1. /\ id \in Living(objects)
      /\ list \in Seq(Id) /\ ToSet(list) \subseteq 0 .. Len(objects) - 1
      /\ objects' = Mixed(objects, id, list) /\ UNCHANGED <<deleting, work>>
  <2>1. Mixable \cap Live \in SUBSET Living(objects) /\ Sane(objects)
    BY KnownIs
  <2> QED BY <2>1, KnownIs, ListsAre DEF set_mixins
<1>2. Shape(objects', objects) /\ Sane(objects')
  BY <1>1, KnownIs, MixedIs
<1> QED BY <1>1, <1>2, KnownRelinks

LEMMA KnownClassMixins ==
  ASSUME Known, NEW id \in Live, NEW list \in Lists(Mixable \cap Live), set_class_mixins(id, list)
  PROVE  Known'
<1>1. /\ id \in Living(objects) /\ objects[id + 1].is_class
      /\ list \in Seq(Id) /\ ToSet(list) \subseteq 0 .. Len(objects) - 1
      /\ objects' = ClassMixed(objects, id, list) /\ UNCHANGED <<deleting, work>>
  <2>1. Mixable \cap Live \in SUBSET Living(objects) /\ Sane(objects)
    BY KnownIs
  <2> QED BY <2>1, KnownIs, ListsAre DEF set_class_mixins, Class, obj
<1>2. Shape(objects', objects) /\ Sane(objects')
  BY <1>1, KnownIs, ClassMixedIs
<1> QED BY <1>1, <1>2, KnownRelinks

LEMMA KnownClass ==
  ASSUME Known, "twice" \notin Departures, NEW id \in Live, NEW cls \in Live, set_class(id, cls)
  PROVE  Known'
<1>1. /\ id \in Living(objects) /\ cls \in Living(objects) /\ cls # objects[id + 1].class
      /\ {cls, objects[id + 1].class} \cap ToSet(objects[id + 1].mixins) = {}
      /\ objects' = Reclassed(id, cls) /\ UNCHANGED <<deleting, work>>
  BY KnownIs DEF set_class, obj
<1>2. Shape(objects', objects) /\ Sane(objects')
  BY <1>1, KnownIs, ReclassedIs
<1> QED BY <1>1, <1>2, KnownRelinks

LEMMA KnownRename ==
  ASSUME Known, NEW id \in Live, NEW home \in (Homes \cap Live) \cup {Nowhere}, Rename(id, home)
  PROVE  Known'
<1>1. /\ id \in Living(objects) /\ home \in Places
      /\ objects' = EachMoves(objects, {id}, home) /\ UNCHANGED <<deleting, work>>
  BY KnownIs DEF Rename, EachMoves, Places
<1>2. Shape(objects', objects) /\ Sane(objects')
  BY <1>1, KnownIs, MovedIs
<1> QED BY <1>1, <1>2, KnownRelinks

(* A script, or a list's next, marks an object: its destructor begins, on  *)
(* what is left under way.                                                 *)
LEMMA DestroyerIs ==
  ASSUME NEW id \in Id
  PROVE  Destroyer(id) \in Work /\ Destroyer(id).what = "destroy" /\ Destroyer(id).obj = id
<1>1. <<>> \in Seq(Id) /\ "destroy" \in Kinds
  BY DEF Kinds, Scripts
<1>2. PICK none : none = <<>>
  OBVIOUS
<1>3. none \in Seq(Id) /\ Destroyer(id) = Doing("destroy", id, none)
  BY <1>1, <1>2 DEF Destroyer
<1> QED BY <1>1, <1>3, DoingIs

LEMMA KnownMarks ==
  ASSUME Known, NEW id \in Living(objects), objects' = Marked(id), deleting' = deleting,
         NEW W, WorkOK(W, Len(objects)), work' = Append(W, Destroyer(id))
  PROVE  Known'
<1>1. Sane(objects') /\ Shape(objects', objects)
  BY KnownIs, MarkedIs
<1>2. /\ Destroyer(id) \in Work /\ Destroyer(id).obj \in 0 .. Len(objects) - 1
      /\ Len(objects) \in Nat /\ Len(objects) <= Len(objects)
  BY KnownIs, DestroyerIs
<1>3. WorkOK(work', Len(objects))
  BY <1>2, PushOK
<1> QED BY <1>1, <1>3 DEF Known, Shape

LEMMA KnownDestroy ==
  ASSUME Known, NEW id \in Live, Destroy(id)
  PROVE  Known'
<1>1. /\ id \in Living(objects) /\ WorkOK(work, Len(objects))
      /\ objects' = Marked(id) /\ work' = Append(work, Destroyer(id)) /\ deleting' = deleting
  BY KnownIs DEF Destroy, Into, Known
<1> QED BY <1>1, KnownMarks

(* What is on top of the work replaced, or gone.                           *)
LEMMA Popped ==
  ASSUME Known, now.what # "main"
  PROVE  WorkOK(Front(work), Len(objects))
BY KnownIs, PopOK DEF Known

LEMMA Replaced ==
  ASSUME Known, now.what # "main", NEW frame \in Work, frame.obj = now.obj
  PROVE  WorkOK(Append(Front(work), frame), Len(objects))
<1>1. /\ Len(objects) \in Nat /\ Len(objects) <= Len(objects)
      /\ frame.obj \in 0 .. Len(objects) - 1
  BY KnownIs
<1> QED BY <1>1, Popped, PushOK

LEMMA Shortened ==
  ASSUME Known, now.what # "main", now.todo # <<>>
  PROVE  WorkOK(Append(Front(work), Shorter(now)), Len(objects))
<1>1. Shorter(now) \in Work /\ Shorter(now).obj = now.obj
  BY KnownIs, ShorterIs
<1> QED BY <1>1, Replaced

LEMMA DeleterIs ==
  ASSUME Known, NEW id \in Living(objects)
  PROVE  /\ Deleter(id) \in Work /\ Deleter(id).what = "descendants" /\ Deleter(id).obj = id
         /\ Deleter(id).todo = Descendants(id)
<1>1. "descendants" \in Kinds /\ id \in Id /\ Descendants(id) \in Seq(Id)
  BY KnownIs, DescendantsIs DEF Kinds
<1> QED BY <1>1, DoingIs DEF Deleter

LEMMA KnownNamespace ==
  ASSUME Known, NEW id \in Live, NamespaceDelete(id)
  PROVE  Known'
<1>1. PICK todo : todo = Append(Inside(id), id)
  OBVIOUS
<1>2. PICK frame : frame = Doing("namespace", id, todo)
  OBVIOUS
<1>3. id \in Id /\ id \in 0 .. Len(objects) - 1 /\ Inside(id) \in Seq(Id) /\ todo \in Seq(Id)
  BY <1>1, KnownIs, InsideIs, AppendProperties
<1>4. frame \in Work /\ frame.obj = id
  <2>1. "namespace" \in Kinds
    BY DEF Kinds
  <2> QED BY <1>2, <1>3, <2>1, DoingIs
<1>5. work' = Append(work, frame) /\ UNCHANGED <<objects, deleting>>
  BY <1>1, <1>2 DEF NamespaceDelete, Into
<1>6. WorkOK(work, Len(objects)) /\ Len(objects) \in Nat /\ Len(objects) <= Len(objects)
  BY KnownIs DEF Known
<1>7. WorkOK(work', Len(objects))
  BY <1>3, <1>4, <1>5, <1>6, PushOK
<1> QED BY <1>5, <1>7 DEF Known

LEMMA KnownSweep ==
  ASSUME Known, SweepNamespace
  PROVE  Known'
<1>1. now.what = "namespace" /\ now.what # "main" /\ deleting' = deleting
  BY DEF SweepNamespace
<1>2. CASE now.todo = <<>>
  <2>1. work' = Front(work) /\ objects' = objects
    BY <1>2 DEF SweepNamespace
  <2> QED BY <1>1, <2>1, Popped DEF Known
<1>3. CASE now.todo # <<>>
  <2>1. PICK d, rest : d = Head(now.todo) /\ rest = Append(Front(work), Shorter(now))
    OBVIOUS
  <2>2. WorkOK(rest, Len(objects))
    BY <1>1, <1>3, <2>1, Shortened
  <2>3. IF Destroys(d) THEN objects' = Marked(d) /\ work' = Append(rest, Destroyer(d))
        ELSE work' = rest /\ objects' = objects
    BY <1>3, <2>1 DEF SweepNamespace, Instead, Shorter
  <2>4. CASE Destroys(d)
    <3>1. d \in Living(objects)
      BY <2>4, KnownIs DEF Destroys
    <3> QED BY <1>1, <2>2, <2>3, <2>4, <3>1, KnownMarks
  <2>5. CASE ~Destroys(d)
    BY <1>1, <2>2, <2>3, <2>5 DEF Known
  <2> QED BY <2>4, <2>5
<1> QED BY <1>2, <1>3

LEMMA KnownConstructed ==
  ASSUME Known, Constructed
  PROVE  Known'
BY Popped DEF Known, Constructed

LEMMA KnownConstructorFails ==
  ASSUME Known, ConstructorFails
  PROVE  Known'
<1>1. PICK id : id = now.obj
  OBVIOUS
<1>2. /\ now.what # "main" /\ id \in Living(objects)
      /\ objects' = Marked(id) /\ deleting' = deleting
      /\ work' = Append(Front(work), Destroyer(id))
  BY <1>1, KnownIs DEF ConstructorFails, Instead, Destroys
<1>3. WorkOK(Front(work), Len(objects))
  BY <1>2, Popped
<1> QED BY <1>2, <1>3, KnownMarks

LEMMA KnownDestructorEnds ==
  ASSUME Known, DestructorEnds
  PROVE  Known'
<1>1. PICK id : id = now.obj
  OBVIOUS
<1>2. now.what # "main" /\ objects' = objects
  BY DEF DestructorEnds
<1>3. CASE Deletes(id)
  <2>1. id \in Living(objects) /\ Deleter(id) \in Work /\ Deleter(id).obj = now.obj
    BY <1>1, <1>3, KnownIs, DeleterIs DEF Deletes
  <2>2. work' = Append(Front(work), Deleter(id)) /\ deleting' = deleting \cup {id}
    BY <1>1, <1>3 DEF DestructorEnds, Instead
  <2> QED BY <1>2, <2>1, <2>2, Replaced DEF Known
<1>4. CASE ~Deletes(id)
  <2>1. work' = Front(work) /\ deleting' = deleting
    BY <1>1, <1>4 DEF DestructorEnds
  <2> QED BY <1>2, <2>1, Popped DEF Known
<1> QED BY <1>3, <1>4

LEMMA KnownNext ==
  ASSUME Known, NextOfList
  PROVE  Known'
<1>1. PICK d, rest : d = Head(now.todo) /\ rest = Append(Front(work), Shorter(now))
  OBVIOUS
<1>2. now.what # "main" /\ now.todo # <<>>
  BY DEF NextOfList
<1>3. WorkOK(rest, Len(objects))
  BY <1>1, <1>2, Shortened
<1>4. \/ work' = rest /\ objects' = objects /\ deleting' = deleting
      \/ Destroys(d) /\ objects' = Marked(d) /\ work' = Append(rest, Destroyer(d)) /\ deleting' = deleting
      \/ Deletes(d) /\ objects' = objects /\ work' = Append(rest, Deleter(d))
           /\ deleting' = deleting \cup {d}
  BY <1>1 DEF NextOfList, Instead, Shorter
<1>5. CASE work' = rest /\ objects' = objects /\ deleting' = deleting
  BY <1>3, <1>5 DEF Known
<1>6. CASE Destroys(d) /\ objects' = Marked(d) /\ work' = Append(rest, Destroyer(d)) /\ deleting' = deleting
  <2>1. d \in Living(objects)
    BY <1>6, KnownIs DEF Destroys
  <2> QED BY <1>3, <1>6, <2>1, KnownMarks
<1>7. CASE Deletes(d) /\ objects' = objects /\ work' = Append(rest, Deleter(d))
           /\ deleting' = deleting \cup {d}
  <2>1. /\ d \in Living(objects) /\ Deleter(d) \in Work /\ Deleter(d).obj \in 0 .. Len(objects) - 1
        /\ Len(objects) \in Nat /\ Len(objects) <= Len(objects)
    BY <1>7, KnownIs, DeleterIs DEF Deletes
  <2>2. WorkOK(work', Len(objects))
    BY <1>3, <1>7, <2>1, PushOK
  <2> QED BY <1>7, <2>1, <2>2 DEF Known
<1> QED BY <1>4, <1>5, <1>6, <1>7

LEMMA KnownDescendantsDone ==
  ASSUME Known, DescendantsDone
  PROVE  Known'
<1>1. PICK frame : frame = Doing("nested", now.obj, Inside(now.obj))
  OBVIOUS
<1>2. /\ now.what # "main" /\ work' = Append(Front(work), frame)
      /\ objects' = objects /\ deleting' = deleting
  BY <1>1 DEF DescendantsDone, Instead
<1>3. frame \in Work /\ frame.obj = now.obj
  <2>1. "nested" \in Kinds /\ now.obj \in Id /\ Inside(now.obj) \in Seq(Id)
    BY KnownIs, InsideIs DEF Kinds
  <2> QED BY <1>1, <2>1, DoingIs
<1> QED BY <1>2, <1>3, Replaced DEF Known

(* What is deleted is alive: so far this is the other invariant's to say.  *)
LEMMA KnownDelete ==
  ASSUME Known, Delete, now.obj \in Living(objects)
  PROVE  Known'
<1>1. PICK id : id = now.obj
  OBVIOUS
<1>2. /\ now.what # "main" /\ work' = Front(work) /\ deleting' = deleting \ {id}
      /\ objects' = Emptying(Unlinked(id), id)
  BY <1>1 DEF Delete, Emptying
<1>3. /\ Sane(objects') /\ Len(objects') = Len(objects)
      /\ Living(objects') = Living(objects) \ {id}
  BY <1>1, <1>2, KnownIs, DeletedIs
<1> QED BY <1>2, <1>3, Popped DEF Known

-----------------------------------------------------------------------------
(* Each deletion once, each destructor once.                               *)
Deletion(frame)    == frame.what = "descendants" \/ frame.what = "nested"
Destruction(frame) == frame.what = "destroy"

OneDeletion(W) ==
  \A i, j \in 1 .. Len(W) :
    Deletion(W[i]) /\ Deletion(W[j]) /\ W[i].obj = W[j].obj => i = j
OneDestruction(W) ==
  \A i, j \in 1 .. Len(W) :
    Destruction(W[i]) /\ Destruction(W[j]) /\ W[i].obj = W[j].obj => i = j
Underway(W, del) ==
  /\ \A d \in del : \E i \in 1 .. Len(W) : Deletion(W[i]) /\ W[i].obj = d
  /\ \A i \in 1 .. Len(W) : Deletion(W[i]) => W[i].obj \in del
Called(W, T) ==
  \A i \in 1 .. Len(W) :
    Destruction(W[i]) /\ W[i].obj \in Living(T) => T[W[i].obj + 1].destructing

OnceIn(W, T, del) ==
  OneDeletion(W) /\ OneDestruction(W) /\ Underway(W, del) /\ Called(W, T)

(* A frame of another kind comes or goes.                                  *)
LEMMA OncePushOther ==
  ASSUME NEW W \in Seq(Work), NEW T, NEW del, OnceIn(W, T, del),
         NEW frame \in Work, ~Deletion(frame), ~Destruction(frame),
         NEW V, V = Append(W, frame)
  PROVE  OnceIn(V, T, del)
<1>1. /\ Len(V) = Len(W) + 1 /\ Len(W) \in Nat /\ V[Len(V)] = frame
      /\ \A i \in 1 .. Len(W) : V[i] = W[i] /\ i \in 1 .. Len(V)
      /\ \A i \in 1 .. Len(V) : i \in 1 .. Len(W) \/ i = Len(V)
  BY PushedIs
<1>2. \A i \in 1 .. Len(V) : Deletion(V[i]) \/ Destruction(V[i]) => i \in 1 .. Len(W) /\ V[i] = W[i]
  BY <1>1
<1>3. OneDeletion(V) /\ OneDestruction(V)
  BY <1>2 DEF OnceIn, OneDeletion, OneDestruction
<1>4. Underway(V, del)
  BY <1>1, <1>2 DEF OnceIn, Underway
<1>5. Called(V, T)
  BY <1>2 DEF OnceIn, Called
<1> QED BY <1>3, <1>4, <1>5 DEF OnceIn

LEMMA OncePopOther ==
  ASSUME NEW W \in Seq(Work), W # <<>>, NEW T, NEW del, OnceIn(W, T, del),
         ~Deletion(W[Len(W)]), NEW V, V = Front(W)
  PROVE  OnceIn(V, T, del) /\ V \in Seq(Work)
<1>1. /\ V \in Seq(Work)
      /\ \A i \in 1 .. Len(V) : V[i] = W[i] /\ i \in 1 .. Len(W)
      /\ \A i \in 1 .. Len(W) : i \in 1 .. Len(V) \/ i = Len(W)
  BY PoppedIs
<1>2. OneDeletion(V) /\ OneDestruction(V) /\ Called(V, T)
  <2>1. OneDeletion(V)
    BY <1>1 DEF OnceIn, OneDeletion
  <2>2. OneDestruction(V)
    BY <1>1 DEF OnceIn, OneDestruction
  <2>3. Called(V, T)
    BY <1>1 DEF OnceIn, Called
  <2> QED BY <2>1, <2>2, <2>3
<1>3. Underway(V, del)
  BY <1>1 DEF OnceIn, Underway
<1> QED BY <1>1, <1>2, <1>3 DEF OnceIn

(* A deletion goes: the object is not being deleted any more.              *)
LEMMA OncePopDeletion ==
  ASSUME NEW W \in Seq(Work), W # <<>>, NEW T, NEW del, OnceIn(W, T, del),
         Deletion(W[Len(W)]), NEW V, V = Front(W)
  PROVE  OnceIn(V, T, del \ {W[Len(W)].obj}) /\ V \in Seq(Work)
<1>1. /\ V \in Seq(Work) /\ Len(W) \in 1 .. Len(W) /\ Len(W) \notin 1 .. Len(V)
      /\ \A i \in 1 .. Len(V) : V[i] = W[i] /\ i \in 1 .. Len(W)
      /\ \A i \in 1 .. Len(W) : i \in 1 .. Len(V) \/ i = Len(W)
  BY PoppedIs
<1>2. OneDeletion(V) /\ OneDestruction(V) /\ Called(V, T)
  <2>1. OneDeletion(V)
    BY <1>1 DEF OnceIn, OneDeletion
  <2>2. OneDestruction(V)
    BY <1>1 DEF OnceIn, OneDestruction
  <2>3. Called(V, T)
    BY <1>1 DEF OnceIn, Called
  <2> QED BY <2>1, <2>2, <2>3
<1>3. PICK id : id = W[Len(W)].obj
  OBVIOUS
<1>4. \A i \in 1 .. Len(V) : Deletion(V[i]) => V[i].obj # id
  BY <1>1, <1>3 DEF OnceIn, OneDeletion
<1>5. Underway(V, del \ {id})
  <2>1. ASSUME NEW d \in del, d # id PROVE \E i \in 1 .. Len(V) : Deletion(V[i]) /\ V[i].obj = d
    <3>1. PICK i \in 1 .. Len(W) : Deletion(W[i]) /\ W[i].obj = d
      BY DEF OnceIn, Underway
    <3>2. i \in 1 .. Len(V)
      BY <1>1, <1>3, <2>1, <3>1
    <3> QED BY <1>1, <3>1, <3>2
  <2>2. ASSUME NEW i \in 1 .. Len(V), Deletion(V[i]) PROVE V[i].obj \in del \ {id}
    BY <1>1, <1>4, <2>2 DEF OnceIn, Underway
  <2> QED BY <2>1, <2>2 DEF Underway
<1> QED BY <1>1, <1>2, <1>3, <1>5 DEF OnceIn

(* A destructor's frame comes: nobody's whose destructor was called.       *)
LEMMA OncePushDestruction ==
  ASSUME NEW W \in Seq(Work), NEW T, NEW del, OnceIn(W, T, del),
         NEW id \in Living(T), ~T[id + 1].destructing,
         NEW U, \A d \in Living(U) : d \in Living(T) /\ (T[d + 1].destructing => U[d + 1].destructing),
         U[id + 1].destructing,
         NEW frame \in Work, Destruction(frame), ~Deletion(frame), frame.obj = id,
         NEW V, V = Append(W, frame)
  PROVE  OnceIn(V, U, del)
<1>1. /\ Len(V) = Len(W) + 1 /\ Len(W) \in Nat /\ V[Len(V)] = frame
      /\ \A i \in 1 .. Len(W) : V[i] = W[i] /\ i \in 1 .. Len(V)
      /\ \A i \in 1 .. Len(V) : i \in 1 .. Len(W) \/ i = Len(V)
  BY PushedIs
<1>2. \A i \in 1 .. Len(V) : Deletion(V[i]) => i \in 1 .. Len(W) /\ V[i] = W[i]
  BY <1>1
<1>3. \A i \in 1 .. Len(W) : Destruction(W[i]) => W[i].obj # id
  BY DEF OnceIn, Called
<1>4. OneDeletion(V)
  BY <1>2 DEF OnceIn, OneDeletion
<1>5. OneDestruction(V)
  BY <1>1, <1>3 DEF OnceIn, OneDestruction
<1>6. Underway(V, del)
  BY <1>1, <1>2 DEF OnceIn, Underway
<1>7. Called(V, U)
  BY <1>1 DEF OnceIn, Called
<1> QED BY <1>4, <1>5, <1>6, <1>7 DEF OnceIn

(* A deletion's frame comes: nobody's who is being deleted.                *)
LEMMA OncePushDeletion ==
  ASSUME NEW W \in Seq(Work), NEW T, NEW del, OnceIn(W, T, del), NEW id, id \notin del,
         NEW frame \in Work, Deletion(frame), ~Destruction(frame), frame.obj = id,
         NEW V, V = Append(W, frame)
  PROVE  OnceIn(V, T, del \cup {id})
<1>1. /\ Len(V) = Len(W) + 1 /\ Len(W) \in Nat /\ V[Len(V)] = frame /\ Len(V) \in 1 .. Len(V)
      /\ \A i \in 1 .. Len(W) : V[i] = W[i] /\ i \in 1 .. Len(V)
      /\ \A i \in 1 .. Len(V) : i \in 1 .. Len(W) \/ i = Len(V)
  BY PushedIs
<1>2. \A i \in 1 .. Len(V) : Destruction(V[i]) => i \in 1 .. Len(W) /\ V[i] = W[i]
  BY <1>1
<1>3. \A i \in 1 .. Len(W) : Deletion(W[i]) => W[i].obj # id
  BY DEF OnceIn, Underway
<1>4. OneDeletion(V)
  BY <1>1, <1>3 DEF OnceIn, OneDeletion
<1>5. OneDestruction(V) /\ Called(V, T)
  BY <1>2 DEF OnceIn, OneDestruction, Called
<1>6. Underway(V, del \cup {id})
  <2>1. ASSUME NEW d \in del \cup {id} PROVE \E i \in 1 .. Len(V) : Deletion(V[i]) /\ V[i].obj = d
    <3>1. CASE d = id
      BY <1>1, <3>1
    <3>2. CASE d \in del
      <4>1. PICK i \in 1 .. Len(W) : Deletion(W[i]) /\ W[i].obj = d
        BY <3>2 DEF OnceIn, Underway
      <4> QED BY <1>1, <4>1
    <3> QED BY <3>1, <3>2
  <2>2. ASSUME NEW i \in 1 .. Len(V), Deletion(V[i]) PROVE V[i].obj \in del \cup {id}
    BY <1>1, <2>2 DEF OnceIn, Underway
  <2> QED BY <2>1, <2>2 DEF Underway
<1> QED BY <1>4, <1>5, <1>6 DEF OnceIn

(* The objects change: no destructor's call is forgotten.                  *)
Remembers(U, T) ==
  \A d \in Living(U) :
    d \in 0 .. Len(T) - 1 => d \in Living(T) /\ (T[d + 1].destructing => U[d + 1].destructing)

LEMMA OnceRemembered ==
  ASSUME NEW W, NEW T, NEW del, OnceIn(W, T, del), WorkOK(W, Len(T)), NEW U, Remembers(U, T)
  PROVE  OnceIn(W, U, del)
<1>1. Called(W, U)
  BY DEF OnceIn, Called, WorkOK, Remembers
<1> QED BY <1>1 DEF OnceIn

(* A frame is replaced by one of the same kind.                            *)
LEMMA OnceReplaced ==
  ASSUME NEW W \in Seq(Work), W # <<>>, NEW T, NEW del, OnceIn(W, T, del),
         NEW frame \in Work, ~Destruction(frame), frame.obj = W[Len(W)].obj,
         Deletion(frame) <=> Deletion(W[Len(W)]),
         NEW V, V = Append(Front(W), frame)
  PROVE  OnceIn(V, T, del)
<1>1. PICK less : less = Front(W)
  OBVIOUS
<1>2. PICK id : id = W[Len(W)].obj
  OBVIOUS
<1>3. CASE Deletion(frame)
  <2>1. OnceIn(less, T, del \ {id}) /\ less \in Seq(Work)
    BY <1>1, <1>2, <1>3, OncePopDeletion
  <2>2. id \in del /\ (del \ {id}) \cup {id} = del
    <3>1. Len(W) \in 1 .. Len(W)
      OBVIOUS
    <3> QED BY <1>2, <1>3, <3>1 DEF OnceIn, Underway
  <2>3. PICK but : but = del \ {id}
    OBVIOUS
  <2>4. OnceIn(less, T, but) /\ id \notin but /\ but \cup {id} = del /\ V = Append(less, frame)
    BY <1>1, <2>1, <2>2, <2>3
  <2>5. OnceIn(V, T, but \cup {id})
    BY <1>2, <1>3, <2>1, <2>4, OncePushDeletion
  <2> QED BY <2>4, <2>5
<1>4. CASE ~Deletion(frame)
  <2>1. OnceIn(less, T, del) /\ less \in Seq(Work)
    BY <1>1, <1>4, OncePopOther
  <2>2. V = Append(less, frame)
    BY <1>1
  <2> QED BY <1>4, <2>1, <2>2, OncePushOther
<1> QED BY <1>3, <1>4

(* What both say, together: neither goes through a deletion alone.         *)
Kept == Known /\ OnceIn(work, objects, deleting)

LEMMA KeptIs ==
  ASSUME Kept
  PROVE  /\ Known /\ OnceIn(work, objects, deleting) /\ work \in Seq(Work) /\ work # <<>>
         /\ now = work[Len(work)] /\ WorkOK(work, Len(objects))
         /\ (Deletion(now) => now.obj \in deleting /\ now.obj \in Living(objects))
<1>1. Len(work) \in 1 .. Len(work) /\ now = work[Len(work)]
  BY KnownIs DEF Kept
<1>2. Deletion(now) => now.obj \in deleting
  BY <1>1 DEF Kept, OnceIn, Underway
<1> QED BY <1>1, <1>2, KnownIs DEF Kept, Known

LEMMA KeptGrows ==
  ASSUME Kept, Known', Extends(objects', objects), deleting' = deleting,
         work' = Append(work, Doing("construct", Len(objects), <<>>))
  PROVE  Kept'
<1>1. PICK frame, none : none = <<>> /\ frame = Doing("construct", Len(objects), none)
  OBVIOUS
<1>2. frame \in Work /\ ~Deletion(frame) /\ ~Destruction(frame)
  <2>1. none \in Seq(Id) /\ "construct" \in Kinds /\ Len(objects) \in Id
    BY <1>1 DEF Kinds, Scripts, Extends
  <2>2. frame = Doing("construct", Len(objects), none)
    BY <1>1
  <2>3. frame \in Work /\ frame.what = "construct"
    BY <2>1, <2>2, DoingIs
  <2> QED BY <2>3 DEF Deletion, Destruction
<1>3. Remembers(objects', objects)
  <2>1. Len(objects) \notin 0 .. Len(objects) - 1
    BY KeptIs, KnownIs
  <2> QED BY <2>1 DEF Remembers, Extends, SameRest
<1>4. OnceIn(work, objects', deleting)
  BY <1>3, KeptIs, OnceRemembered
<1>5. work' = Append(work, frame)
  BY <1>1
<1>6. OnceIn(work', objects', deleting)
  BY <1>2, <1>4, <1>5, KeptIs, OncePushOther
<1> QED BY <1>6 DEF Kept

LEMMA KeptRelinks ==
  ASSUME Kept, Known', Shape(objects', objects), UNCHANGED <<deleting, work>>,
         \A c \in Living(objects) : objects'[c + 1].destructing = objects[c + 1].destructing
  PROVE  Kept'
<1>1. Remembers(objects', objects)
  BY DEF Remembers, Shape
<1>2. OnceIn(work, objects', deleting)
  BY <1>1, KeptIs, OnceRemembered
<1> QED BY <1>2 DEF Kept

LEMMA KeptMarks ==
  ASSUME Kept, Known', NEW id \in Living(objects), ~objects[id + 1].destructing,
         objects' = Marked(id), deleting' = deleting,
         NEW W \in Seq(Work), OnceIn(W, objects, deleting), work' = Append(W, Destroyer(id))
  PROVE  Kept'
<1>1. PICK U : U = objects'
  OBVIOUS
<1>2. /\ Shape(U, objects) /\ U[id + 1].destructing
      /\ \A c \in Living(objects) : c # id => U[c + 1].destructing = objects[c + 1].destructing
  BY <1>1, KeptIs, MarkedIs DEF Known
<1>3. \A d \in Living(U) :
         d \in Living(objects) /\ (objects[d + 1].destructing => U[d + 1].destructing)
  BY <1>2 DEF Shape
<1>4. PICK frame : frame = Destroyer(id)
  OBVIOUS
<1>5. frame \in Work /\ frame.obj = id /\ Destruction(frame) /\ ~Deletion(frame)
  <2>1. id \in Id
    BY KeptIs, KnownIs
  <2> QED BY <1>4, <2>1, DestroyerIs DEF Destruction, Deletion
<1>6. work' = Append(W, frame)
  BY <1>4
<1>7. OnceIn(work', U, deleting)
  BY <1>2, <1>3, <1>5, <1>6, OncePushDestruction
<1> QED BY <1>1, <1>7 DEF Kept

LEMMA KeptScripts ==
  ASSUME Kept, Known', "twice" \notin Departures,
         NEW id \in Live, NEW home \in (Homes \cap Live) \cup {Nowhere},
         Create(id, home) \/ Copy(id, home) \/ Rename(id, home)
  PROVE  Kept'
<1>1. /\ Known /\ Sane(objects) /\ id \in Living(objects) /\ id \in 0 .. Len(objects) - 1
      /\ home \in Places
  BY KeptIs, KnownIs DEF Places
<1>2. CASE Create(id, home)
  <2>1. Extends(objects', objects)
    BY <1>1, <1>2, AllocatedIs DEF Create
  <2> QED BY <1>2, <2>1, KeptGrows DEF Create, Into
<1>3. CASE Copy(id, home)
  <2>1. Extends(objects', objects)
    BY <1>1, <1>3, CopiedIs DEF Copy
  <2> QED BY <1>3, <2>1, KeptGrows DEF Copy, Into
<1>4. CASE Rename(id, home)
  <2>1. objects' = EachMoves(objects, {id}, home) /\ UNCHANGED <<deleting, work>>
    BY <1>4 DEF Rename, EachMoves
  <2>2. PICK U : U = EachMoves(objects, {id}, home)
    OBVIOUS
  <2>3. Shape(U, objects)
    BY <1>1, <2>2, MovedIs
  <2>4. \A c \in Living(objects) : U[c + 1].destructing = objects[c + 1].destructing
    BY <1>1, <2>2, MovedIs DEF OnlyMoved
  <2> QED BY <2>1, <2>2, <2>3, <2>4, KeptRelinks
<1> QED BY <1>2, <1>3, <1>4

LEMMA KeptLinks ==
  ASSUME Kept, Known', "twice" \notin Departures, NEW id \in Live,
         \/ \E list \in Lists(Live) \ {<<>>} : set_superclasses(id, list)
         \/ \E list \in Lists(Mixable \cap Live) : set_mixins(id, list) \/ set_class_mixins(id, list)
         \/ \E cls \in Live : set_class(id, cls)
  PROVE  Kept'
<1>1. /\ Known /\ Sane(objects) /\ id \in Living(objects) /\ Live = Living(objects)
      /\ Live \in SUBSET Living(objects) /\ Mixable \cap Live \in SUBSET Living(objects)
      /\ (Class(id) => objects[id + 1].is_class)
  BY KeptIs, KnownIs DEF Class, obj
<1>2. ASSUME NEW list \in Lists(Live) \ {<<>>}, set_superclasses(id, list)
      PROVE  Kept'
  <2>1. /\ objects' = Superclassed(objects, id, list) /\ UNCHANGED <<deleting, work>>
        /\ objects[id + 1].is_class /\ list \in Lists(Live)
    BY <1>1, <1>2 DEF set_superclasses
  <2>2. list \in Seq(Id) /\ ToSet(list) \subseteq 0 .. Len(objects) - 1
    BY <1>1, <2>1, ListsAre
  <2>3. /\ Shape(objects', objects)
        /\ \A c \in Living(objects) : SameRest(objects'[c + 1], objects[c + 1])
    BY <1>1, <2>1, <2>2, SuperclassedIs
  <2> QED BY <2>1, <2>3, KeptRelinks DEF SameRest
<1>3. ASSUME NEW list \in Lists(Mixable \cap Live), set_mixins(id, list)
      PROVE  Kept'
  <2>1. objects' = Mixed(objects, id, list) /\ UNCHANGED <<deleting, work>>
    BY <1>3 DEF set_mixins
  <2>2. list \in Seq(Id) /\ ToSet(list) \subseteq 0 .. Len(objects) - 1
    BY <1>1, <1>3, ListsAre
  <2>3. /\ Shape(objects', objects)
        /\ \A c \in Living(objects) : SameRest(objects'[c + 1], objects[c + 1])
    BY <1>1, <2>1, <2>2, MixedIs
  <2> QED BY <2>1, <2>3, KeptRelinks DEF SameRest
<1>4. ASSUME NEW list \in Lists(Mixable \cap Live), set_class_mixins(id, list)
      PROVE  Kept'
  <2>1. /\ objects' = ClassMixed(objects, id, list) /\ UNCHANGED <<deleting, work>>
        /\ objects[id + 1].is_class
    BY <1>1, <1>4 DEF set_class_mixins
  <2>2. list \in Seq(Id) /\ ToSet(list) \subseteq 0 .. Len(objects) - 1
    BY <1>1, <1>4, ListsAre
  <2>3. /\ Shape(objects', objects)
        /\ \A c \in Living(objects) : SameRest(objects'[c + 1], objects[c + 1])
    BY <1>1, <2>1, <2>2, ClassMixedIs
  <2> QED BY <2>1, <2>3, KeptRelinks DEF SameRest
<1>5. ASSUME NEW cls \in Live, set_class(id, cls)
      PROVE  Kept'
  <2>1. /\ objects' = Reclassed(id, cls) /\ UNCHANGED <<deleting, work>>
        /\ cls \in Living(objects) /\ cls # objects[id + 1].class
        /\ {cls, objects[id + 1].class} \cap ToSet(objects[id + 1].mixins) = {}
    BY <1>1, <1>5 DEF set_class, obj
  <2>2. /\ Shape(objects', objects)
        /\ \A c \in Living(objects) : objects'[c + 1].destructing = objects[c + 1].destructing
    BY <1>1, <2>1, ReclassedIs DEF OnlyReclassed
  <2> QED BY <2>1, <2>2, KeptRelinks
<1> QED BY <1>2, <1>3, <1>4, <1>5

LEMMA DestroysIs ==
  ASSUME Known, NEW id, Destroys(id)
  PROVE  id \in Living(objects) /\ ~objects[id + 1].destructing
BY KnownIs DEF Destroys, obj

LEMMA KeptDestroy ==
  ASSUME Kept, Known', NEW id \in Live, Destroy(id)
  PROVE  Kept'
<1>1. /\ id \in Living(objects) /\ ~objects[id + 1].destructing
      /\ objects' = Marked(id) /\ work' = Append(work, Destroyer(id)) /\ deleting' = deleting
  BY KeptIs, DestroysIs DEF Destroy, Into
<1> QED BY <1>1, KeptIs, KeptMarks

LEMMA KeptNamespace ==
  ASSUME Kept, Known', NEW id \in Live, NamespaceDelete(id)
  PROVE  Kept'
<1>1. PICK frame : frame = Doing("namespace", id, Append(Inside(id), id))
  OBVIOUS
<1>2. PICK todo : todo = Append(Inside(id), id)
  OBVIOUS
<1>3. id \in Id /\ Inside(id) \in Seq(Id) /\ todo \in Seq(Id) /\ "namespace" \in Kinds
  BY <1>2, KeptIs, KnownIs, InsideIs, AppendProperties DEF Kinds
<1>4. frame \in Work /\ frame.what = "namespace"
  <2>1. frame = Doing("namespace", id, todo)
    BY <1>1, <1>2
  <2> QED BY <1>3, <2>1, DoingIs
<1>5. work' = Append(work, frame) /\ UNCHANGED <<objects, deleting>>
  BY <1>1 DEF NamespaceDelete, Into
<1>6. ~Deletion(frame) /\ ~Destruction(frame)
  BY <1>4 DEF Deletion, Destruction
<1>7. OnceIn(work', objects, deleting)
  BY <1>4, <1>5, <1>6, KeptIs, OncePushOther
<1> QED BY <1>5, <1>7 DEF Kept

LEMMA OnceShortened ==
  ASSUME Kept, now.todo # <<>>, ~Destruction(now), NEW rest, rest = Append(Front(work), Shorter(now))
  PROVE  rest \in Seq(Work) /\ OnceIn(rest, objects, deleting)
<1>1. PICK frame : frame = Shorter(now)
  OBVIOUS
<1>2. frame \in Work /\ frame.what = now.what /\ frame.obj = now.obj
  BY <1>1, KeptIs, KnownIs, ShorterIs
<1>3. ~Destruction(frame) /\ (Deletion(frame) <=> Deletion(now))
  BY <1>2 DEF Destruction, Deletion
<1>4. rest \in Seq(Work)
  <2>1. Front(work) \in Seq(Work)
    BY KeptIs, PoppedIs
  <2> QED BY <1>1, <1>2, <2>1, AppendProperties
<1> QED BY <1>1, <1>2, <1>3, <1>4, KeptIs, OnceReplaced

LEMMA KeptSweep ==
  ASSUME Kept, Known', SweepNamespace
  PROVE  Kept'
<1>1. ~Deletion(now) /\ ~Destruction(now) /\ deleting' = deleting
  BY DEF SweepNamespace, Deletion, Destruction
<1>2. CASE now.todo = <<>>
  <2>1. work' = Front(work) /\ objects' = objects
    BY <1>2 DEF SweepNamespace
  <2>2. OnceIn(work', objects, deleting)
    BY <1>1, <2>1, KeptIs, OncePopOther
  <2> QED BY <1>1, <2>1, <2>2 DEF Kept
<1>3. CASE now.todo # <<>>
  <2>1. PICK d, rest : d = Head(now.todo) /\ rest = Append(Front(work), Shorter(now))
    OBVIOUS
  <2>2. rest \in Seq(Work) /\ OnceIn(rest, objects, deleting)
    BY <1>1, <1>3, <2>1, OnceShortened
  <2>3. IF Destroys(d) THEN objects' = Marked(d) /\ work' = Append(rest, Destroyer(d))
        ELSE work' = rest /\ objects' = objects
    BY <1>3, <2>1 DEF SweepNamespace, Instead, Shorter
  <2>4. CASE Destroys(d)
    <3>1. d \in Living(objects) /\ ~objects[d + 1].destructing
      BY <2>4, KeptIs, DestroysIs
    <3> QED BY <1>1, <2>2, <2>3, <2>4, <3>1, KeptMarks
  <2>5. CASE ~Destroys(d)
    BY <1>1, <2>2, <2>3, <2>5 DEF Kept
  <2> QED BY <2>4, <2>5
<1> QED BY <1>2, <1>3

LEMMA KeptConstructed ==
  ASSUME Kept, Known', Constructed
  PROVE  Kept'
<1>1. ~Deletion(now) /\ work' = Front(work) /\ UNCHANGED <<objects, deleting>>
  BY DEF Constructed, Deletion
<1>2. OnceIn(work', objects, deleting)
  BY <1>1, KeptIs, OncePopOther
<1> QED BY <1>1, <1>2 DEF Kept

LEMMA KeptConstructorFails ==
  ASSUME Kept, Known', ConstructorFails
  PROVE  Kept'
<1>1. PICK id, W : id = now.obj /\ W = Front(work)
  OBVIOUS
<1>2. /\ ~Deletion(now) /\ id \in Living(objects) /\ ~objects[id + 1].destructing
      /\ objects' = Marked(id) /\ deleting' = deleting
      /\ work' = Append(W, Destroyer(id))
  BY <1>1, KeptIs, DestroysIs DEF ConstructorFails, Instead, Deletion
<1>3. W \in Seq(Work) /\ OnceIn(W, objects, deleting)
  BY <1>1, <1>2, KeptIs, OncePopOther
<1> QED BY <1>2, <1>3, KeptMarks

LEMMA KeptDeletes ==
  ASSUME Kept, Known', NEW id, Deletes(id), objects' = objects, deleting' = deleting \cup {id},
         NEW W \in Seq(Work), OnceIn(W, objects, deleting), work' = Append(W, Deleter(id))
  PROVE  Kept'
<1>1. id \in Living(objects) /\ id \notin deleting
  BY KeptIs, KnownIs DEF Deletes
<1>2. PICK frame : frame = Deleter(id)
  OBVIOUS
<1>3. frame \in Work /\ frame.what = "descendants" /\ frame.obj = id
  BY <1>1, <1>2, KeptIs, DeleterIs
<1>4. Deletion(frame) /\ ~Destruction(frame) /\ work' = Append(W, frame)
  BY <1>2, <1>3 DEF Deletion, Destruction
<1>5. OnceIn(work', objects, deleting \cup {id})
  BY <1>1, <1>3, <1>4, OncePushDeletion
<1> QED BY <1>5 DEF Kept

LEMMA KeptDestructorEnds ==
  ASSUME Kept, Known', DestructorEnds
  PROVE  Kept'
<1>1. PICK id, W : id = now.obj /\ W = Front(work)
  OBVIOUS
<1>2. ~Deletion(now) /\ objects' = objects
  BY DEF DestructorEnds, Deletion
<1>3. W \in Seq(Work) /\ OnceIn(W, objects, deleting)
  BY <1>1, <1>2, KeptIs, OncePopOther
<1>4. CASE Deletes(id)
  <2>1. work' = Append(W, Deleter(id)) /\ deleting' = deleting \cup {id}
    BY <1>1, <1>4 DEF DestructorEnds, Instead
  <2> QED BY <1>2, <1>3, <1>4, <2>1, KeptDeletes
<1>5. CASE ~Deletes(id)
  <2>1. work' = W /\ deleting' = deleting
    BY <1>1, <1>5 DEF DestructorEnds
  <2> QED BY <1>2, <1>3, <2>1 DEF Kept
<1> QED BY <1>4, <1>5

LEMMA KeptNext ==
  ASSUME Kept, Known', NextOfList
  PROVE  Kept'
<1>1. PICK d, rest : d = Head(now.todo) /\ rest = Append(Front(work), Shorter(now))
  OBVIOUS
<1>2. now.todo # <<>> /\ ~Destruction(now)
  BY DEF NextOfList, Destruction
<1>3. rest \in Seq(Work) /\ OnceIn(rest, objects, deleting)
  BY <1>1, <1>2, OnceShortened
<1>4. \/ work' = rest /\ objects' = objects /\ deleting' = deleting
      \/ Destroys(d) /\ objects' = Marked(d) /\ work' = Append(rest, Destroyer(d)) /\ deleting' = deleting
      \/ Deletes(d) /\ objects' = objects /\ work' = Append(rest, Deleter(d))
           /\ deleting' = deleting \cup {d}
  BY <1>1 DEF NextOfList, Instead, Shorter
<1>5. CASE work' = rest /\ objects' = objects /\ deleting' = deleting
  BY <1>3, <1>5 DEF Kept
<1>6. CASE Destroys(d) /\ objects' = Marked(d) /\ work' = Append(rest, Destroyer(d)) /\ deleting' = deleting
  <2>1. d \in Living(objects) /\ ~objects[d + 1].destructing
    BY <1>6, KeptIs, DestroysIs
  <2> QED BY <1>3, <1>6, <2>1, KeptMarks
<1>7. CASE Deletes(d) /\ objects' = objects /\ work' = Append(rest, Deleter(d))
           /\ deleting' = deleting \cup {d}
  BY <1>3, <1>7, KeptDeletes
<1> QED BY <1>4, <1>5, <1>6, <1>7

LEMMA KeptDescendantsDone ==
  ASSUME Kept, Known', DescendantsDone
  PROVE  Kept'
<1>1. PICK frame : frame = Doing("nested", now.obj, Inside(now.obj))
  OBVIOUS
<1>2. /\ now.what = "descendants" /\ work' = Append(Front(work), frame)
      /\ objects' = objects /\ deleting' = deleting
  BY <1>1 DEF DescendantsDone, Instead
<1>3. frame \in Work /\ frame.obj = now.obj /\ frame.what = "nested"
  <2>1. "nested" \in Kinds /\ now.obj \in Id /\ Inside(now.obj) \in Seq(Id)
    BY KeptIs, KnownIs, InsideIs DEF Kinds
  <2> QED BY <1>1, <2>1, DoingIs
<1>4. ~Destruction(frame) /\ Deletion(frame) /\ Deletion(now)
  BY <1>2, <1>3 DEF Destruction, Deletion
<1>5. OnceIn(work', objects, deleting)
  BY <1>2, <1>3, <1>4, KeptIs, OnceReplaced
<1> QED BY <1>2, <1>5 DEF Kept

LEMMA KeptDelete ==
  ASSUME Kept, Delete
  PROVE  Kept'
<1>1. PICK id, W : id = now.obj /\ W = Front(work)
  OBVIOUS
<1>2. Deletion(now) /\ id \in Living(objects)
  BY <1>1, KeptIs DEF Delete, Deletion
<1>3. /\ work' = W /\ deleting' = deleting \ {id} /\ objects' = Emptying(Unlinked(id), id)
  BY <1>1 DEF Delete, Emptying
<1>4. Known'
  BY <1>1, <1>2, KeptIs, KnownDelete
<1>5. W \in Seq(Work) /\ OnceIn(W, objects, deleting \ {id})
  BY <1>1, <1>2, KeptIs, OncePopDeletion
<1>6. WorkOK(W, Len(objects))
  BY <1>1, KeptIs, Popped DEF Delete
<1>7. Remembers(objects', objects)
  <2>1. /\ Living(objects') \subseteq Living(objects)
        /\ \A c \in Living(objects') : SameRest(objects'[c + 1], objects[c + 1])
    BY <1>2, <1>3, KeptIs, DeletedIs DEF Known
  <2> QED BY <2>1 DEF Remembers, SameRest
<1>8. OnceIn(W, objects', deleting \ {id})
  BY <1>5, <1>6, <1>7, OnceRemembered
<1> QED BY <1>3, <1>4, <1>8 DEF Kept

LEMMA KeptStep ==
  ASSUME Kept, "twice" \notin Departures, [Next]_vars
  PROVE  Kept'
<1>1. Known
  BY KeptIs
<1>2. ASSUME NEW id \in Live, NEW home \in (Homes \cap Live) \cup {Nowhere},
             Create(id, home) \/ Copy(id, home) \/ Rename(id, home)
      PROVE  Kept'
  <2>1. Known'
    BY <1>1, <1>2, KnownCreate, KnownCopy, KnownRename
  <2> QED BY <1>2, <2>1, KeptScripts
<1>3. ASSUME NEW id \in Live,
             \/ \E list \in Lists(Live) \ {<<>>} : set_superclasses(id, list)
             \/ \E list \in Lists(Mixable \cap Live) : set_mixins(id, list) \/ set_class_mixins(id, list)
             \/ \E cls \in Live : set_class(id, cls)
      PROVE  Kept'
  <2>1. Known'
    BY <1>1, <1>3, KnownSuperclasses, KnownMixins, KnownClassMixins, KnownClass
  <2> QED BY <1>3, <2>1, KeptLinks
<1>4. ASSUME NEW id \in Live, Destroy(id) \/ NamespaceDelete(id) PROVE Kept'
  BY <1>1, <1>4, KnownDestroy, KnownNamespace, KeptDestroy, KeptNamespace
<1>5. CASE CodeStep
  BY <1>1, <1>5, KnownSweep, KnownNext, KnownDescendantsDone, KeptSweep, KeptNext,
     KeptDescendantsDone, KeptDelete DEF CodeStep
<1>6. CASE ScriptEnds
  BY <1>1, <1>6, KnownConstructed, KnownConstructorFails, KnownDestructorEnds,
     KeptConstructed, KeptConstructorFails, KeptDestructorEnds DEF ScriptEnds
<1>7. CASE UNCHANGED vars
  BY <1>7 DEF vars, Kept, Known
<1> QED BY <1>2, <1>3, <1>4, <1>5, <1>6, <1>7 DEF Next

LEMMA KeptInit ==
  ASSUME Init
  PROVE  Kept
<1>1. Known
  BY KnownInit
<1>2. PICK main, none : none = <<>> /\ main = Doing("main", class_cls, none)
  OBVIOUS
<1>3. main.what = "main"
  BY <1>2 DEF Doing
<1>4. work = <<main>> /\ deleting = {} /\ ~Deletion(main) /\ ~Destruction(main)
  BY <1>2, <1>3 DEF Init, Deletion, Destruction
<1>5. \A i \in 1 .. Len(work) : work[i] = main
  BY <1>4
<1> QED BY <1>1, <1>4, <1>5
        DEF Kept, OnceIn, OneDeletion, OneDestruction, Underway, Called

LEMMA KeptAlways ==
  ASSUME "twice" \notin Departures
  PROVE  Spec => []Kept
<1>1. Init => Kept
  BY KeptInit
<1>2. Kept /\ [Next]_vars => Kept'
  BY KeptStep
<1> QED BY <1>1, <1>2, PTL DEF Spec

(* The two ends of every link agree (TablesAgree), whatever objects are    *)
(* made, relinked, copied and destroyed, and whatever the destructors do   *)
(* while tables are half changed.  A class changed to a mixin is left out: *)
(* that one makes them disagree.                                           *)
THEOREM TablesStayInStep ==
  ASSUME "twice" \notin Departures
  PROVE  Spec => []TablesAgree
<1>1. ASSUME Kept PROVE TypeOK
  <2>1. \A id \in Live : obj(id) \in Object
    BY <1>1, KeptIs, KnownIs, LivingIs DEF Sane, obj
  <2>2. \A i \in DOMAIN work : work[i] \in Work
    BY <1>1, KeptIs
  <2> QED BY <1>1, <2>1, <2>2, KeptIs, KnownIs DEF TypeOK, Known
<1>2. ASSUME Kept PROVE TablesAgree
  <2>1. Sane(objects) /\ Live = Living(objects)
    BY <1>2, KeptIs, KnownIs
  <2>2. ASSUME NEW c \in Live
        PROVE  /\ Lists1(obj(c).instances,
                         {i \in Live : obj(i).class = c \/ c \in ToSet(obj(i).mixins)})
               /\ Lists1(obj(c).subclasses, {i \in Live : c \in ToSet(obj(i).superclasses)})
               /\ Lists1(obj(c).users, {i \in Live : c \in ToSet(obj(i).classMixins)})
    <3>1. /\ {i \in Live : obj(i).class = c \/ c \in ToSet(obj(i).mixins)} = Instances(objects, c)
          /\ {i \in Live : c \in ToSet(obj(i).superclasses)} = Subclasses(objects, c)
          /\ {i \in Live : c \in ToSet(obj(i).classMixins)} = Users(objects, c)
      BY <2>1 DEF Instances, Subclasses, Users, obj
    <3> QED BY <2>1, <3>1 DEF Sane, InstancesAgree, SubclassesAgree, UsersAgree, obj
  <2> QED BY <1>1, <1>2, <2>2 DEF TablesAgree
<1> QED BY <1>2, KeptAlways, PTL

(* Each object is deleted once, for as long as a deletion of it is on the  *)
(* way, and its destructor is called once (DeletedOnce), however many      *)
(* commands, lists, failing constructors and scripts come upon it.         *)
THEOREM DeletionIsOnce ==
  ASSUME "twice" \notin Departures
  PROVE  Spec => []DeletedOnce
<1>1. ASSUME Kept PROVE DeletedOnce
  <2>1. OnceIn(work, objects, deleting) /\ DOMAIN work = 1 .. Len(work)
    BY <1>1, KeptIs
  <2> DEFINE ids(kinds) == [i \in {j \in DOMAIN work : work[j].what \in kinds} |-> work[i].obj]
             once(f)    == \A i, j \in DOMAIN f : f[i] = f[j] => i = j
             dying      == ids({"descendants", "nested"})
             called     == ids({"destroy"})
  <2>2. \A i : i \in DOMAIN dying <=> i \in 1 .. Len(work) /\ Deletion(work[i])
    BY <2>1 DEF Deletion
  <2>3. \A i : i \in DOMAIN called <=> i \in 1 .. Len(work) /\ Destruction(work[i])
    BY <2>1 DEF Destruction
  <2>4. /\ \A i \in DOMAIN dying : dying[i] = work[i].obj
        /\ \A i \in DOMAIN called : called[i] = work[i].obj
    OBVIOUS
  <2>5. DeletedOnce <=> /\ once(dying) /\ once(called) /\ Range(dying) = deleting
                        /\ \A d \in Range(called) : alive(d) => obj(d).destructing
    BY DEF DeletedOnce
  <2> HIDE DEF dying, called
  <2>6. once(dying) /\ once(called)
    BY <2>1, <2>2, <2>3, <2>4 DEF OnceIn, OneDeletion, OneDestruction
  <2>7. \A d : d \in Range(dying) <=> d \in deleting
    BY <2>1, <2>2, <2>4 DEF OnceIn, Underway, Range
  <2>8. \A d \in Range(called) : alive(d) => obj(d).destructing
    <3> SUFFICES ASSUME NEW d \in Range(called), alive(d) PROVE obj(d).destructing
      OBVIOUS
    <3>1. d \in Living(objects)
      BY LiveIs
    <3>2. PICK i \in DOMAIN called : called[i] = d
      BY DEF Range
    <3> QED BY <2>1, <2>3, <2>4, <3>1, <3>2 DEF OnceIn, Called, obj
  <2>9. Range(dying) = deleting
    BY <2>7
  <2> QED BY <2>5, <2>6, <2>8, <2>9
<1> QED BY <1>1, KeptAlways, PTL

-----------------------------------------------------------------------------
(* What is above a class, and that the links upwards close no circle.      *)
AboveIn(T, c) ==
  IF c \in Living(T) THEN ToSet(T[c + 1].superclasses) \cup ToSet(T[c + 1].classMixins) ELSE {}
Acyclic(T) == \A S \in SUBSET Living(T) : S # {} => \E c \in S : AboveIn(T, c) \cap S = {}

LEMMA AboveIs == \A c : Above(c) = AboveIn(objects, c)
<1>1. \A c : alive(c) <=> c \in Living(objects)
  BY LiveIs
<1> QED BY <1>1 DEF Above, AboveIn, obj

LEMMA AboveKnown ==
  ASSUME Sane(objects), NEW c
  PROVE  Above(c) \subseteq Ids /\ (c \notin Living(objects) => Above(c) = {})
<1>1. CASE c \in Living(objects)
  BY <1>1, AboveIs DEF Sane, LinksKnown, AboveIn, Ids
<1>2. CASE c \notin Living(objects)
  BY <1>2, AboveIs DEF AboveIn
<1> QED BY <1>1, <1>2

Closed(S, c) == c \in S /\ \A d \in S : Above(d) \subseteq S

LEMMA AncestorsAre ==
  ASSUME NEW c
  PROVE  Ancestors(c) = {a \in Ids : \A S \in SUBSET Ids : Closed(S, c) => a \in S}
<1>1. PICK up : up = [d \in Ids |-> Above(d)]
  OBVIOUS
<1>2. PICK closed : closed = {S \in SUBSET Ids : c \in S /\ \A d \in S : up[d] \subseteq S}
  OBVIOUS
<1>3. Ancestors(c) = {a \in Ids : \A S \in closed : a \in S}
  BY <1>1, <1>2 DEF Ancestors
<1>4. \A S : S \in closed <=> S \in SUBSET Ids /\ Closed(S, c)
  BY <1>1, <1>2 DEF Closed
<1> QED BY <1>3, <1>4

LEMMA AncestorsKnown ==
  ASSUME NEW c \in Ids
  PROVE  Ancestors(c) \subseteq Ids /\ c \in Ancestors(c)
BY AncestorsAre DEF Closed

LEMMA AncestorsClosed ==
  ASSUME Sane(objects), NEW c
  PROVE  \A y \in Ancestors(c) : Above(y) \subseteq Ancestors(c)
<1> SUFFICES ASSUME NEW y \in Ancestors(c), NEW x \in Above(y) PROVE x \in Ancestors(c)
  OBVIOUS
<1>1. x \in Ids
  BY AboveKnown
<1>2. ASSUME NEW S \in SUBSET Ids, Closed(S, c) PROVE x \in S
  <2>1. y \in S
    BY <1>2, AncestorsAre
  <2> QED BY <1>2, <2>1 DEF Closed
<1> QED BY <1>1, <1>2, AncestorsAre

LEMMA AncestorsLeast ==
  ASSUME NEW c, NEW S \in SUBSET Ids, Closed(S, c)
  PROVE  Ancestors(c) \subseteq S
BY AncestorsAre

LEMMA AncestorsNest ==
  ASSUME Sane(objects), NEW c \in Ids, NEW y \in Ancestors(c)
  PROVE  Ancestors(y) \subseteq Ancestors(c)
<1>1. Ancestors(c) \in SUBSET Ids
  BY AncestorsKnown
<1>2. Closed(Ancestors(c), y)
  BY AncestorsClosed DEF Closed
<1> QED BY <1>1, <1>2, AncestorsLeast

LEMMA AncestorsStep ==
  ASSUME Sane(objects), NEW z \in Ids, NEW a \in Ancestors(z), a # z
  PROVE  \E w \in Above(z) : a \in Ancestors(w)
<1> DEFINE S == {z} \cup {b \in Ids : \E w \in Above(z) : b \in Ancestors(w)}
<1>1. S \in SUBSET Ids
  OBVIOUS
<1>2. ASSUME NEW d \in S, NEW x \in Above(d) PROVE x \in S
  <2>1. x \in Ids
    BY <1>2, AboveKnown
  <2>2. CASE d = z
    <3>1. x \in Above(z) /\ x \in Ancestors(x)
      BY <1>2, <2>1, <2>2, AncestorsKnown
    <3> QED BY <2>1, <3>1
  <2>3. CASE d # z
    <3>1. PICK w \in Above(z) : d \in Ancestors(w)
      BY <2>3
    <3>2. x \in Ancestors(w)
      BY <1>2, <3>1, AncestorsClosed
    <3> QED BY <2>1, <3>1, <3>2
  <2> QED BY <2>2, <2>3
<1>3. Closed(S, z)
  BY <1>2 DEF Closed
<1>4. a \in S
  <2> HIDE DEF S
  <2> QED BY <1>1, <1>3, AncestorsLeast
<1> QED BY <1>4

(* Nothing is above what is gone; so what has a living class above it is   *)
(* alive.                                                                  *)
LEMMA AncestorsOfDead ==
  ASSUME Sane(objects), NEW w \in Ids, NEW a \in Ancestors(w), a \in Living(objects)
  PROVE  w \in Living(objects)
<1> SUFFICES ASSUME w \notin Living(objects) PROVE FALSE
  OBVIOUS
<1>1. Above(w) = {}
  BY AboveKnown
<1>2. a # w
  OBVIOUS
<1> QED BY <1>1, <1>2, AncestorsStep

LEMMA NotAboveItself ==
  ASSUME Sane(objects), Acyclic(objects), NEW c, NEW y \in Above(c)
  PROVE  c \notin Ancestors(y)
<1> SUFFICES ASSUME c \in Ancestors(y) PROVE FALSE
  OBVIOUS
<1>1. c \in Living(objects) /\ y \in Ids
  BY AboveKnown
<1>2. y \in Living(objects) /\ c \in Ids
  BY <1>1, AncestorsOfDead DEF Living, Ids
<1> DEFINE P == {z \in Living(objects) : c \in Ancestors(z)}
<1>3. P \in SUBSET Living(objects) /\ c \in P /\ y \in P
  BY <1>1, <1>2, AncestorsKnown
<1>4. PICK z \in P : Above(z) \cap P = {}
  <2> HIDE DEF P
  <2> QED BY <1>3, AboveIs DEF Acyclic
<1>5. z # c
  BY <1>3, <1>4
<1>6. z \in Ids /\ c \in Ancestors(z)
  BY <1>4 DEF Living, Ids
<1>7. PICK w \in Above(z) : c \in Ancestors(w)
  BY <1>5, <1>6, AncestorsStep
<1>8. w \in Ids
  BY AboveKnown
<1>9. w \in Living(objects)
  BY <1>1, <1>7, <1>8, AncestorsOfDead
<1> QED BY <1>4, <1>7, <1>9

(* Raising one class over others that have it not above them closes none.  *)
LEMMA Raised ==
  ASSUME Sane(objects), Acyclic(objects), NEW cls \in Living(objects),
         NEW U, Living(U) = Living(objects),
         \A c \in Living(objects) : c # cls => AboveIn(U, c) \subseteq Above(c),
         \A y \in AboveIn(U, cls) : y \in Above(cls) \/ cls \notin Ancestors(y)
  PROVE  Acyclic(U)
<1> SUFFICES ASSUME NEW S \in SUBSET Living(objects), S # {},
                    \A c \in S : AboveIn(U, c) \cap S # {}
             PROVE  FALSE
  BY DEF Acyclic
<1>1. cls \in S
  <2> SUFFICES ASSUME cls \notin S PROVE FALSE
    OBVIOUS
  <2>1. PICK c \in S : Above(c) \cap S = {}
    BY AboveIs DEF Acyclic
  <2> QED BY <2>1
<1>2. \A y \in AboveIn(U, cls) : cls \notin Ancestors(y)
  BY NotAboveItself
<1> DEFINE R == {x \in S : cls \notin Ancestors(x)}
<1>3. R \in SUBSET Living(objects) /\ R # {}
  BY <1>1, <1>2
<1>4. PICK x \in R : Above(x) \cap R = {}
  <2> HIDE DEF R
  <2> QED BY <1>3, AboveIs DEF Acyclic
<1>5. x \in Ids /\ cls \in Ids
  BY <1>4 DEF Living, Ids
<1>6. x # cls
  BY <1>4, <1>5, AncestorsKnown
<1>7. PICK w \in Above(x) : w \in S
  BY <1>4, <1>6
<1>8. w \in Ancestors(x)
  BY <1>5, <1>7, AncestorsKnown, AncestorsClosed
<1>9. cls \notin Ancestors(w)
  BY <1>4, <1>5, <1>8, AncestorsNest
<1> QED BY <1>4, <1>7, <1>9

LEMMA AcyclicLess ==
  ASSUME NEW T, Acyclic(T), NEW U, Living(U) \subseteq Living(T),
         \A c \in Living(U) : AboveIn(U, c) \subseteq AboveIn(T, c)
  PROVE  Acyclic(U)
<1> SUFFICES ASSUME NEW S \in SUBSET Living(U), S # {}
             PROVE  \E c \in S : AboveIn(U, c) \cap S = {}
  BY DEF Acyclic
<1>1. PICK c \in S : AboveIn(T, c) \cap S = {}
  BY DEF Acyclic
<1> QED BY <1>1

(* Nothing leads up to a new object.                                       *)
LEMMA AcyclicGrows ==
  ASSUME NEW T, Acyclic(T), LinksKnown(T), Len(T) \in Nat, NEW U, Extends(U, T),
         AboveIn(U, Len(T)) \subseteq 0 .. Len(T) - 1
  PROVE  Acyclic(U)
<1> SUFFICES ASSUME NEW S \in SUBSET Living(U), S # {}
             PROVE  \E c \in S : AboveIn(U, c) \cap S = {}
  BY DEF Acyclic
<1>1. PICK id : id = Len(T)
  OBVIOUS
<1>2. id \notin 0 .. Len(T) - 1 /\ Living(T) \subseteq 0 .. Len(T) - 1
  BY <1>1 DEF Living
<1>3. Living(U) = Living(T) \cup {id} /\ id \notin Living(T)
  BY <1>1 DEF Extends
<1>4. ASSUME NEW c \in Living(T)
      PROVE  AboveIn(U, c) = AboveIn(T, c) /\ AboveIn(T, c) \subseteq 0 .. Len(T) - 1
  BY <1>3 DEF AboveIn, Extends, LinksKnown
<1>5. CASE S \ {id} # {}
  <2>1. PICK R : R = S \ {id}
    OBVIOUS
  <2>2. R \in SUBSET Living(T) /\ R # {}
    BY <1>3, <1>5, <2>1
  <2>3. PICK c \in R : AboveIn(T, c) \cap R = {}
    BY <2>2 DEF Acyclic
  <2> QED BY <1>2, <1>4, <2>1, <2>2, <2>3
<1>6. CASE S \ {id} = {}
  BY <1>1, <1>2, <1>6
<1> QED BY <1>5, <1>6

-----------------------------------------------------------------------------
(* Where an object's links lead, and what keeps them from dangling.        *)
Links(T, d) ==
  {T[d + 1].class} \cup ToSet(T[d + 1].mixins)
    \cup ToSet(T[d + 1].superclasses) \cup ToSet(T[d + 1].classMixins)

(* The roots stay as they are,                                             *)
RootAs(r) == /\ r.is_class /\ r.home = Nowhere /\ r.class = class_cls /\ ToSet(r.mixins) = {}
             /\ ToSet(r.superclasses) \subseteq {object_cls} /\ ToSet(r.classMixins) = {}
Rooted(T) == /\ \A r \in Roots : r \in Living(T) /\ RootAs(T[r + 1])
             /\ AboveIn(T, object_cls) = {}

(* links lead to classes,                                                  *)
Classy(T) ==
  \A d \in Living(T) : \A c \in Links(T, d) : c \in Living(T) => T[c + 1].is_class

(* and to what is alive, unless from what is being deleted itself;         *)
Held(T, del) == \A d \in Living(T) : d \notin del => Links(T, d) \subseteq Living(T)

(* while the descendants of an object go, what leads to it is being        *)
(* deleted, or on the list still, or in its destructor; and after them,    *)
(* all of it is being deleted.                                             *)
Tells(frame, T, del, going) ==
  \A d \in Living(T) :
    d # frame.obj /\ frame.obj \in Links(T, d) =>
      /\ frame.what = "descendants" => d \in del \/ d \in ToSet(frame.todo) \/ d \in going
      /\ frame.what = "nested" => d \in del
Going(W, i) == IF i < Len(W) /\ W[i + 1].what = "destroy" THEN {W[i + 1].obj} ELSE {}
Told(W, T, del) == \A i \in 1 .. Len(W) : Tells(W[i], T, del, Going(W, i))

(* No frame destroys a root.                                               *)
Spares(frame) ==
  frame.what # "main" =>
    /\ frame.obj \notin Roots
    /\ frame.what = "namespace" => ToSet(frame.todo) \cap Roots = {}
Spared(W) == \A i \in 1 .. Len(W) : Spares(W[i])

(* Links as they were, or new ones to classes that are not being deleted.  *)
Relinked(U, T, del) ==
  /\ Living(T) \subseteq Living(U)
  /\ \A c \in Living(U) : c \in 0 .. Len(T) - 1 => c \in Living(T)
  /\ \A c \in Living(T) : T[c + 1].is_class => U[c + 1].is_class
  /\ \A d \in Living(U) : \A c \in Links(U, d) :
       \/ d \in Living(T) /\ c \in Links(T, d)
       \/ c \in Living(T) /\ T[c + 1].is_class /\ c \notin del

LEMMA ClassyRelinked ==
  ASSUME NEW T, NEW U, NEW del, Relinked(U, T, del), LinksKnown(T), Classy(T)
  PROVE  Classy(U)
<1> SUFFICES ASSUME NEW d \in Living(U), NEW c \in Links(U, d), c \in Living(U)
             PROVE  U[c + 1].is_class
  BY DEF Classy
<1>1. CASE d \in Living(T) /\ c \in Links(T, d)
  <2>1. c \in 0 .. Len(T) - 1
    BY <1>1 DEF LinksKnown, Links
  <2> QED BY <1>1, <2>1 DEF Relinked, Classy
<1>2. CASE c \in Living(T) /\ T[c + 1].is_class
  BY <1>2 DEF Relinked
<1> QED BY <1>1, <1>2 DEF Relinked

LEMMA HeldRelinked ==
  ASSUME NEW T, NEW U, NEW del, Relinked(U, T, del), Held(T, del)
  PROVE  Held(U, del)
<1> SUFFICES ASSUME NEW d \in Living(U), d \notin del, NEW c \in Links(U, d)
             PROVE  c \in Living(U)
  BY DEF Held
<1> QED BY DEF Relinked, Held

LEMMA ToldRelinked ==
  ASSUME NEW W, NEW T, NEW U, NEW del, Relinked(U, T, del), Told(W, T, del), Underway(W, del)
  PROVE  Told(W, U, del)
<1> SUFFICES ASSUME NEW i \in 1 .. Len(W) PROVE Tells(W[i], U, del, Going(W, i))
  BY DEF Told
<1>1. PICK frame, going : frame = W[i] /\ going = Going(W, i)
  OBVIOUS
<1>2. Tells(frame, T, del, going)
  BY <1>1 DEF Told
<1>3. Deletion(frame) => frame.obj \in del
  BY <1>1 DEF Underway
<1>4. ASSUME NEW d \in Living(U), d # frame.obj, frame.obj \in Links(U, d), Deletion(frame)
      PROVE  d \in Living(T) /\ frame.obj \in Links(T, d)
  BY <1>3, <1>4 DEF Relinked
<1>5. Tells(frame, U, del, going)
  BY <1>2, <1>4 DEF Tells, Deletion
<1> QED BY <1>1, <1>5

(* The work changes.                                                       *)
LEMMA ToldPush ==
  ASSUME NEW W \in Seq(Work), NEW T, NEW del, Told(W, T, del),
         NEW frame \in Work, NEW none, none = {}, Tells(frame, T, del, none),
         NEW V, V = Append(W, frame)
  PROVE  Told(V, T, del)
<1>1. /\ Len(V) = Len(W) + 1 /\ Len(W) \in Nat /\ V[Len(V)] = frame
      /\ \A i \in 1 .. Len(W) : V[i] = W[i] /\ i \in 1 .. Len(V)
      /\ \A i \in 1 .. Len(V) : i \in 1 .. Len(W) \/ i = Len(V)
  BY PushedIs
<1> SUFFICES ASSUME NEW i \in 1 .. Len(V) PROVE Tells(V[i], T, del, Going(V, i))
  BY DEF Told
<1>2. CASE i = Len(V)
  BY <1>1, <1>2 DEF Tells
<1>3. CASE i \in 1 .. Len(W)
  <2>1. Going(W, i) \subseteq Going(V, i)
    <3>1. i < Len(W) => i + 1 \in 1 .. Len(W) /\ i < Len(V)
      BY <1>1, <1>3
    <3> QED BY <1>1, <3>1 DEF Going
  <2>2. Tells(W[i], T, del, Going(W, i)) /\ V[i] = W[i]
    BY <1>1, <1>3 DEF Told
  <2> QED BY <2>1, <2>2 DEF Tells
<1> QED BY <1>1, <1>2, <1>3

LEMMA ToldPop ==
  ASSUME NEW W \in Seq(Work), W # <<>>, NEW T, NEW del, Told(W, T, del),
         W[Len(W)].what = "destroy" => W[Len(W)].obj \in del \/ W[Len(W)].obj \notin Living(T),
         NEW V, V = Front(W)
  PROVE  Told(V, T, del)
<1>1. /\ V \in Seq(Work) /\ Len(V) = Len(W) - 1 /\ Len(W) \in Nat
      /\ \A i \in 1 .. Len(V) : V[i] = W[i] /\ i \in 1 .. Len(W)
      /\ \A i \in 1 .. Len(W) : i \in 1 .. Len(V) \/ i = Len(W)
  BY PoppedIs
<1> SUFFICES ASSUME NEW i \in 1 .. Len(V) PROVE Tells(V[i], T, del, Going(V, i))
  BY DEF Told
<1>2. i + 1 \in 1 .. Len(W) /\ (i < Len(V) <=> i + 1 # Len(W)) /\ i < Len(W)
      /\ (i + 1 # Len(W) => i + 1 \in 1 .. Len(V))
  BY <1>1
<1>3. ASSUME NEW d \in Living(T), d \in Going(W, i) PROVE d \in del \/ d \in Going(V, i)
  <2>1. W[i + 1].what = "destroy" /\ d = W[i + 1].obj
    BY <1>3 DEF Going
  <2>2. CASE i + 1 = Len(W)
    BY <2>1, <2>2
  <2>3. CASE i + 1 # Len(W)
    BY <1>1, <1>2, <2>1, <2>3 DEF Going
  <2> QED BY <2>2, <2>3
<1>4. Tells(W[i], T, del, Going(W, i)) /\ V[i] = W[i]
  BY <1>1 DEF Told
<1> QED BY <1>3, <1>4 DEF Tells

LEMMA ToldMore ==
  ASSUME NEW W, NEW T, NEW del, Told(W, T, del), NEW more, del \subseteq more
  PROVE  Told(W, T, more)
BY DEF Told, Tells

(* The next of a list, and its destructor above it.                        *)
LEMMA ToldPushTwo ==
  ASSUME NEW W \in Seq(Work), NEW T, NEW del, Told(W, T, del),
         NEW frame \in Work, NEW second \in Work, second.what = "destroy",
         NEW going, going = {second.obj}, Tells(frame, T, del, going), frame.what # "destroy",
         NEW V, V = Append(W, frame), NEW X, X = Append(V, second)
  PROVE  Told(X, T, del)
<1>1. /\ V \in Seq(Work) /\ Len(V) = Len(W) + 1 /\ Len(W) \in Nat /\ V[Len(V)] = frame
      /\ \A i \in 1 .. Len(W) : V[i] = W[i]
      /\ \A i \in 1 .. Len(V) : i \in 1 .. Len(W) \/ i = Len(V)
  BY PushedIs
<1>2. /\ Len(X) = Len(V) + 1 /\ X[Len(X)] = second
      /\ \A i \in 1 .. Len(V) : X[i] = V[i]
      /\ \A i \in 1 .. Len(X) : i \in 1 .. Len(V) \/ i = Len(X)
  BY <1>1, PushedIs
<1> SUFFICES ASSUME NEW i \in 1 .. Len(X) PROVE Tells(X[i], T, del, Going(X, i))
  BY DEF Told
<1>3. CASE i = Len(X)
  BY <1>2, <1>3 DEF Tells
<1>4. CASE i = Len(V)
  <2>1. X[i] = frame
    <3>1. Len(V) \in 1 .. Len(V)
      BY <1>1
    <3> QED BY <1>1, <1>2, <1>4, <3>1
  <2>2. Going(X, i) = going
    BY <1>1, <1>2, <1>4 DEF Going
  <2> QED BY <2>1, <2>2
<1>5. CASE i \in 1 .. Len(W)
  <2>1. i \in 1 .. Len(V) /\ (i < Len(W) => i + 1 \in 1 .. Len(W) /\ i + 1 \in 1 .. Len(V) /\ i < Len(X))
    BY <1>1, <1>2, <1>5
  <2>2. Going(W, i) \subseteq Going(X, i)
    BY <1>1, <1>2, <2>1 DEF Going
  <2>3. Tells(W[i], T, del, Going(W, i)) /\ X[i] = W[i]
    BY <1>1, <1>2, <1>5, <2>1 DEF Told
  <2> QED BY <2>2, <2>3 DEF Tells
<1> QED BY <1>1, <1>2, <1>3, <1>4, <1>5

LEMMA SparedPush ==
  ASSUME NEW W \in Seq(Work), Spared(W), NEW frame \in Work, Spares(frame), NEW V, V = Append(W, frame)
  PROVE  Spared(V) /\ V \in Seq(Work)
<1>1. /\ V \in Seq(Work) /\ V[Len(V)] = frame
      /\ \A i \in 1 .. Len(W) : V[i] = W[i]
      /\ \A i \in 1 .. Len(V) : i \in 1 .. Len(W) \/ i = Len(V)
  BY PushedIs
<1> QED BY <1>1 DEF Spared

LEMMA SparedPop ==
  ASSUME NEW W \in Seq(Work), W # <<>>, Spared(W), NEW V, V = Front(W)
  PROVE  Spared(V) /\ V \in Seq(Work)
<1>1. V \in Seq(Work) /\ \A i \in 1 .. Len(V) : V[i] = W[i] /\ i \in 1 .. Len(W)
  BY PoppedIs
<1> QED BY <1>1 DEF Spared

(* What a class's deletion lists is all that leads to it.                  *)
LEMMA DeleterTells ==
  ASSUME Known, Classy(objects), NEW id \in Living(objects), NEW del, NEW none
  PROVE  Tells(Deleter(id), objects, deleting \cup del, none)
<1>1. /\ Deleter(id).what = "descendants" /\ Deleter(id).obj = id
      /\ Deleter(id).todo = Descendants(id)
  BY DeleterIs
<1> SUFFICES ASSUME NEW d \in Living(objects), d # id, id \in Links(objects, d)
             PROVE  d \in deleting \/ d \in ToSet(Descendants(id))
  BY <1>1 DEF Tells
<1>2. objects[id + 1].is_class
  BY DEF Classy
<1>3. d \in Users(objects, id) \cup Subclasses(objects, id) \cup Instances(objects, id)
  BY DEF Links, Users, Subclasses, Instances
<1> QED BY <1>2, <1>3, KnownIs, DescendantsIs

-----------------------------------------------------------------------------
(* All of it together, and each action.                                    *)
Anchored ==
  /\ Kept /\ Rooted(objects) /\ Classy(objects) /\ Held(objects, deleting)
  /\ Told(work, objects, deleting) /\ Spared(work) /\ Acyclic(objects)

LEMMA AnchoredIs ==
  ASSUME Anchored
  PROVE  /\ Kept /\ Known /\ Sane(objects) /\ Live = Living(objects) /\ Len(objects) \in Nat
         /\ Living(objects) \subseteq 0 .. Len(objects) - 1 /\ 0 .. Len(objects) - 1 = Ids
         /\ LinksKnown(objects) /\ OnlyClassesInherit(objects) /\ Underway(work, deleting)
         /\ work \in Seq(Work) /\ work # <<>> /\ now = work[Len(work)] /\ now \in Work /\ Spares(now)
         /\ Len(work) \in 1 .. Len(work)
         /\ deleting \cap Roots = {} /\ Roots \subseteq Living(objects)
         /\ object_cls \in Roots /\ object_cls \in Living(objects) /\ objects[object_cls + 1].is_class
         /\ object_cls \notin deleting
<1>1. Kept /\ Known /\ Sane(objects) /\ work \in Seq(Work) /\ work # <<>> /\ now = work[Len(work)]
      /\ Live = Living(objects) /\ Len(objects) \in Nat
      /\ Living(objects) \subseteq 0 .. Len(objects) - 1 /\ 0 .. Len(objects) - 1 = Ids
      /\ Len(work) \in 1 .. Len(work) /\ now \in Work
  BY KeptIs, KnownIs DEF Anchored, Ids
<1>2. LinksKnown(objects) /\ OnlyClassesInherit(objects) /\ Underway(work, deleting)
  BY <1>1 DEF Sane, Kept, OnceIn
<1>3. Spares(now)
  BY <1>1 DEF Anchored, Spared
<1>4. deleting \cap Roots = {}
  <2> SUFFICES ASSUME NEW d \in deleting PROVE d \notin Roots
    OBVIOUS
  <2>1. PICK i \in 1 .. Len(work) : Deletion(work[i]) /\ work[i].obj = d
    BY <1>2 DEF Underway
  <2> QED BY <2>1 DEF Anchored, Spared, Spares, Deletion
<1>5. Roots \subseteq Living(objects) /\ object_cls \in Roots /\ objects[object_cls + 1].is_class
  BY DEF Anchored, Rooted, Roots, RootAs
<1> QED BY <1>1, <1>2, <1>3, <1>4, <1>5

LEMMA RootedCarry ==
  ASSUME NEW T, Rooted(T), NEW U, Roots \subseteq Living(U),
         \A r \in Roots : /\ T[r + 1].is_class => U[r + 1].is_class
                          /\ U[r + 1].home = T[r + 1].home /\ U[r + 1].class = T[r + 1].class
                          /\ ToSet(U[r + 1].mixins) \subseteq ToSet(T[r + 1].mixins)
                          /\ U[r + 1].superclasses = T[r + 1].superclasses
                          /\ ToSet(U[r + 1].classMixins) \subseteq ToSet(T[r + 1].classMixins)
  PROVE  Rooted(U)
<1>1. \A r \in Roots : RootAs(U[r + 1])
  BY DEF Rooted, RootAs
<1>2. AboveIn(U, object_cls) \subseteq AboveIn(T, object_cls)
  BY DEF Rooted, AboveIn, Roots
<1> QED BY <1>1, <1>2 DEF Rooted

LEMMA SoundIs ==
  ASSUME Sane(objects), NEW id \in Living(objects), Sound(id)
  PROVE  Links(objects, id) \subseteq Living(objects)
<1>1. \A c \in ClassesOf(id) : c \in Living(objects)
  BY LiveIs DEF Sound
<1>2. /\ objects[id + 1].class \in Ids /\ ToSet(objects[id + 1].mixins) \subseteq Ids /\ id \in Ids
  BY DEF Sane, LinksKnown, Ids, Living
<1>3. \A c \in {objects[id + 1].class} \cup ToSet(objects[id + 1].mixins) : c \in ClassesOf(id)
  BY <1>2, AncestorsKnown DEF ClassesOf, obj
<1>4. Above(id) = ToSet(objects[id + 1].superclasses) \cup ToSet(objects[id + 1].classMixins)
  BY AboveIs DEF AboveIn
<1>5. ASSUME NEW x \in Above(id) PROVE x \in Living(objects)
  <2>1. objects[id + 1].is_class
    BY <1>4 DEF Sane, OnlyClassesInherit
  <2>2. x \in Ancestors(id)
    BY <1>2, AncestorsKnown, AncestorsClosed
  <2>3. x = id \/ x \in ClassesOf(id)
    <3>1. obj(id).is_class
      BY <2>1 DEF obj
    <3> QED BY <2>2, <3>1 DEF ClassesOf
  <2> QED BY <1>1, <2>3
<1> QED BY <1>1, <1>3, <1>4, <1>5 DEF Links

(* What a change of objects leaves to be said of the work.                 *)
LEMMA AnchoredChange ==
  ASSUME Anchored, Kept', Relinked(objects', objects, deleting), deleting' = deleting,
         Rooted(objects'), Acyclic(objects'), Told(work', objects, deleting), Spared(work'),
         NEW W, Told(W, objects, deleting), Underway(W, deleting), W = work'
  PROVE  Anchored'
<1>1. Classy(objects') /\ Held(objects', deleting)
  BY AnchoredIs, ClassyRelinked, HeldRelinked DEF Anchored
<1>2. Told(W, objects', deleting)
  BY ToldRelinked
<1> QED BY <1>1, <1>2 DEF Anchored

LEMMA AnchoredRelinks ==
  ASSUME Anchored, Kept', Relinked(objects', objects, deleting), UNCHANGED <<deleting, work>>,
         Rooted(objects'), Acyclic(objects')
  PROVE  Anchored'
<1>1. Told(work, objects, deleting) /\ Spared(work) /\ Underway(work, deleting)
  BY AnchoredIs DEF Anchored
<1>2. Classy(objects') /\ Held(objects', deleting)
  BY AnchoredIs, ClassyRelinked, HeldRelinked DEF Anchored
<1>3. Told(work, objects', deleting)
  BY <1>1, ToldRelinked
<1> QED BY <1>1, <1>2, <1>3 DEF Anchored

LEMMA AnchoredGrows ==
  ASSUME Anchored, Kept', Extends(objects', objects), deleting' = deleting,
         work' = Append(work, Doing("construct", Len(objects), <<>>)),
         \A c \in Links(objects', Len(objects)) :
            c \in Living(objects) /\ objects[c + 1].is_class /\ c \notin deleting
  PROVE  Anchored'
<1>1. PICK U, id : U = objects' /\ id = Len(objects)
  OBVIOUS
<1>2. PICK frame, empty, none : empty = <<>> /\ frame = Doing("construct", id, empty) /\ none = {}
  OBVIOUS
<1>3. work' = Append(work, frame)
  BY <1>1, <1>2
<1>4. id \notin 0 .. Len(objects) - 1 /\ id \notin Roots /\ id \in Id
  BY <1>1, AnchoredIs DEF Extends
<1>5. frame \in Work /\ Spares(frame) /\ Tells(frame, objects, deleting, none)
  <2>1. empty \in Seq(Id) /\ "construct" \in Kinds /\ frame = Doing("construct", id, empty)
    BY <1>2 DEF Kinds, Scripts
  <2>2. frame \in Work /\ frame.what = "construct" /\ frame.obj = id
    BY <1>4, <2>1, DoingIs
  <2> QED BY <1>4, <2>2 DEF Spares, Tells
<1>6. \A c \in Living(objects) : Links(U, c) = Links(objects, c) /\ SameRest(U[c + 1], objects[c + 1])
  BY <1>1 DEF Extends, Links
<1>7. Living(U) = Living(objects) \cup {id}
  BY <1>1 DEF Extends
<1>8. Relinked(U, objects, deleting)
  BY <1>1, <1>4, <1>6, <1>7 DEF Relinked, SameRest
<1>9. Rooted(U)
  <2>1. \A r \in Roots : r \in Living(objects)
    BY AnchoredIs
  <2> QED BY <1>1, <1>7, <2>1, RootedCarry DEF Anchored, Extends, SameRest
<1>10. Acyclic(U)
  <2>1. AboveIn(U, id) \subseteq Links(U, id)
    BY DEF AboveIn, Links
  <2>2. AboveIn(U, Len(objects)) \subseteq 0 .. Len(objects) - 1
    BY <1>1, <2>1, AnchoredIs
  <2> QED BY <1>1, <2>2, AnchoredIs, AcyclicGrows DEF Anchored
<1>11. Told(work', objects, deleting)
  BY <1>2, <1>3, <1>5, AnchoredIs, ToldPush DEF Anchored
<1>12. Spared(work')
  BY <1>3, <1>5, AnchoredIs, SparedPush DEF Anchored
<1>13. Underway(work', deleting)
  BY DEF Kept, OnceIn
<1> QED BY <1>1, <1>8, <1>9, <1>10, <1>11, <1>12, <1>13, AnchoredChange

LEMMA AnchoredMarks ==
  ASSUME Anchored, Kept', NEW id \in Living(objects), id \notin Roots,
         objects' = Marked(id), deleting' = deleting,
         Told(work', objects, deleting), Spared(work')
  PROVE  Anchored'
<1>1. PICK U : U = objects'
  OBVIOUS
<1>2. /\ Shape(U, objects)
      /\ \A c \in Living(objects) :
              /\ U[c + 1].class = objects[c + 1].class
              /\ U[c + 1].mixins = objects[c + 1].mixins
              /\ U[c + 1].superclasses = objects[c + 1].superclasses
              /\ U[c + 1].classMixins = objects[c + 1].classMixins
              /\ U[c + 1].is_class = objects[c + 1].is_class
              /\ U[c + 1].home = objects[c + 1].home
  BY <1>1, AnchoredIs, MarkedIs
<1>3. Living(U) = Living(objects)
  BY <1>2 DEF Shape
<1>4. Relinked(U, objects, deleting)
  BY <1>2, <1>3 DEF Relinked, Links
<1>5. Rooted(U)
  BY <1>2, <1>3, AnchoredIs, RootedCarry DEF Anchored
<1>6. Acyclic(U)
  <2>1. \A c \in Living(U) : AboveIn(U, c) \subseteq AboveIn(objects, c)
    BY <1>2, <1>3 DEF AboveIn
  <2> QED BY <1>3, <2>1, AcyclicLess DEF Anchored
<1>7. Underway(work', deleting)
  BY DEF Kept, OnceIn
<1> QED BY <1>1, <1>4, <1>5, <1>6, <1>7, AnchoredChange

LEMMA AnchoredCreate ==
  ASSUME Anchored, Kept', "join" \notin Departures,
         NEW class \in Live, NEW home \in (Homes \cap Live) \cup {Nowhere}, Create(class, home)
  PROVE  Anchored'
<1>1. /\ class \in Living(objects) /\ class \in 0 .. Len(objects) - 1 /\ home \in Places
      /\ objects[class + 1].is_class /\ class \notin deleting /\ Len(objects) < MaxObjects
      /\ objects' = Allocated(class, home)
      /\ work' = Append(work, Doing("construct", Len(objects), <<>>)) /\ deleting' = deleting
  BY AnchoredIs, KnownIs DEF Create, Into, Places, Uses, Class, obj
<1>2. Extends(objects', objects) /\ BornAs(objects'[Len(objects) + 1], class, home)
  BY <1>1, AnchoredIs, AllocatedIs
<1>3. ToSet(<<>>) = {}
  BY DEF ToSet
<1>4. Links(objects', Len(objects)) \subseteq {class, object_cls}
  BY <1>2, <1>3 DEF Links, BornAs
<1> QED BY <1>1, <1>2, <1>4, AnchoredIs, AnchoredGrows

LEMMA AnchoredCopy ==
  ASSUME Anchored, Kept', "join" \notin Departures, "dying" \notin Departures,
         NEW src \in Live, NEW home \in (Homes \cap Live) \cup {Nowhere}, Copy(src, home)
  PROVE  Anchored'
<1>1. /\ src \in Living(objects) /\ home \in Places /\ Len(objects) < MaxObjects
      /\ objects' = Copied(src, home) /\ Sound(src)
      /\ work' = Append(work, Doing("construct", Len(objects), <<>>)) /\ deleting' = deleting
  BY AnchoredIs, KnownIs DEF Copy, Into, Places, Usable
<1>2. Extends(objects', objects) /\ CopyOf(objects'[Len(objects) + 1], objects[src + 1], home)
  BY <1>1, AnchoredIs, CopiedIs
<1>3. Links(objects, src) \cap deleting = {}
  BY DEF Copy, Uses, Links, obj
<1>4. ASSUME NEW c \in Links(objects, src)
      PROVE  c \in Living(objects) /\ objects[c + 1].is_class /\ c \notin deleting
  <2>1. c \in Living(objects)
    BY <1>1, AnchoredIs, SoundIs
  <2> QED BY <1>1, <1>3, <2>1 DEF Anchored, Classy
<1>5. Links(objects', Len(objects)) \subseteq Links(objects, src) \cup {object_cls}
  BY <1>2 DEF Links, CopyOf
<1> QED BY <1>1, <1>2, <1>4, <1>5, AnchoredIs, AnchoredGrows

LEMMA AnchoredRename ==
  ASSUME Anchored, Kept', NEW id \in Live, NEW home \in (Homes \cap Live) \cup {Nowhere}, Rename(id, home)
  PROVE  Anchored'
<1>1. /\ id \in Living(objects) /\ home \in Places /\ id \notin Roots
      /\ objects' = EachMoves(objects, {id}, home) /\ UNCHANGED <<deleting, work>>
  BY AnchoredIs, KnownIs DEF Rename, EachMoves, Places
<1>2. PICK U : U = EachMoves(objects, {id}, home)
  OBVIOUS
<1>3. Shape(U, objects)
  BY <1>1, <1>2, AnchoredIs, MovedIs
<1>4. \A c \in Living(objects) :
        /\ U[c + 1].class = objects[c + 1].class
        /\ U[c + 1].mixins = objects[c + 1].mixins
        /\ U[c + 1].superclasses = objects[c + 1].superclasses
        /\ U[c + 1].classMixins = objects[c + 1].classMixins
        /\ U[c + 1].is_class = objects[c + 1].is_class
        /\ (c # id => U[c + 1].home = objects[c + 1].home)
  <2>1. OnlyMoved(U, objects, id)
    BY <1>1, <1>2, AnchoredIs, MovedIs
  <2> QED BY <2>1 DEF OnlyMoved
<1>5. Living(U) = Living(objects)
  BY <1>3 DEF Shape
<1>6. Relinked(U, objects, deleting)
  BY <1>4, <1>5 DEF Relinked, Links
<1>7. Rooted(U)
  <2>1. \A r \in Roots : r \in Living(objects) /\ r # id
    BY <1>1, AnchoredIs
  <2>2. \A r \in Roots :
          /\ objects[r + 1].is_class => U[r + 1].is_class
          /\ U[r + 1].home = objects[r + 1].home /\ U[r + 1].class = objects[r + 1].class
          /\ U[r + 1].mixins = objects[r + 1].mixins
          /\ U[r + 1].superclasses = objects[r + 1].superclasses
          /\ U[r + 1].classMixins = objects[r + 1].classMixins
    BY <1>4, <2>1
  <2> QED BY <1>5, <2>1, <2>2, RootedCarry DEF Anchored
<1>8. Acyclic(U)
  <2>1. \A c \in Living(U) : AboveIn(U, c) \subseteq AboveIn(objects, c)
    BY <1>4, <1>5 DEF AboveIn
  <2> QED BY <1>5, <2>1, AcyclicLess DEF Anchored
<1> QED BY <1>1, <1>2, <1>6, <1>7, <1>8, AnchoredRelinks

LEMMA AnchoredSuperclasses ==
  ASSUME Anchored, Kept', "join" \notin Departures,
         NEW id \in Live, NEW list \in Lists(Live) \ {<<>>}, set_superclasses(id, list)
  PROVE  Anchored'
<1>1. /\ id \in Living(objects) /\ id \notin Roots /\ objects[id + 1].is_class
      /\ list \in Seq(Id) /\ ToSet(list) \subseteq 0 .. Len(objects) - 1
      /\ objects' = Superclassed(objects, id, list) /\ UNCHANGED <<deleting, work>>
  <2>1. Live \in SUBSET Living(objects) /\ Sane(objects) /\ list \in Lists(Live)
    BY AnchoredIs
  <2> QED BY <2>1, AnchoredIs, ListsAre DEF set_superclasses, Class, obj
<1>2. ASSUME NEW c \in ToSet(list)
      PROVE  /\ c \in Living(objects) /\ objects[c + 1].is_class /\ c \notin deleting
             /\ id \notin Ancestors(c)
  BY AnchoredIs, LiveIs DEF set_superclasses, Class, Uses, obj, Circular, reachable
<1>3. PICK U : U = objects'
  OBVIOUS
<1>4. /\ Shape(U, objects)
      /\ \A c \in Living(objects) :
           /\ U[c + 1].superclasses = IF c = id THEN list ELSE objects[c + 1].superclasses
           /\ SameInstances(U[c + 1], objects[c + 1])
           /\ SameUsers(U[c + 1], objects[c + 1])
           /\ SameRest(U[c + 1], objects[c + 1])
  <2>1. Sane(objects) /\ U = Superclassed(objects, id, list)
    BY <1>1, <1>3, AnchoredIs
  <2> QED BY <1>1, <2>1, SuperclassedIs
<1>5. Living(U) = Living(objects)
  BY <1>4 DEF Shape
<1>6. Relinked(U, objects, deleting)
  BY <1>2, <1>4, <1>5 DEF Relinked, Links, SameInstances, SameUsers, SameRest
<1>7. Rooted(U)
  <2>1. \A r \in Roots : r \in Living(objects) /\ r # id
    BY <1>1, AnchoredIs
  <2>2. \A r \in Roots :
          /\ objects[r + 1].is_class => U[r + 1].is_class
          /\ U[r + 1].home = objects[r + 1].home /\ U[r + 1].class = objects[r + 1].class
          /\ U[r + 1].mixins = objects[r + 1].mixins
          /\ U[r + 1].superclasses = objects[r + 1].superclasses
          /\ U[r + 1].classMixins = objects[r + 1].classMixins
    BY <1>4, <2>1 DEF SameInstances, SameUsers, SameRest
  <2> QED BY <1>5, <2>1, <2>2, RootedCarry DEF Anchored
<1>8. Acyclic(U)
  <2>1. \A c \in Living(objects) : c # id => AboveIn(U, c) \subseteq Above(c)
    BY <1>4, <1>5, AboveIs DEF AboveIn, SameUsers
  <2>2. \A y \in AboveIn(U, id) : y \in Above(id) \/ id \notin Ancestors(y)
    BY <1>1, <1>2, <1>4, <1>5, AboveIs DEF AboveIn, SameUsers
  <2> QED BY <1>1, <1>5, <2>1, <2>2, AnchoredIs, Raised DEF Anchored
<1> QED BY <1>1, <1>3, <1>6, <1>7, <1>8, AnchoredRelinks

LEMMA AnchoredMixins ==
  ASSUME Anchored, Kept', "join" \notin Departures,
         NEW id \in Live, NEW list \in Lists(Mixable \cap Live), set_mixins(id, list)
  PROVE  Anchored'
<1>1. /\ id \in Living(objects) /\ id \notin Roots
      /\ list \in Seq(Id) /\ ToSet(list) \subseteq 0 .. Len(objects) - 1
      /\ objects' = Mixed(objects, id, list) /\ UNCHANGED <<deleting, work>>
  <2>1. Mixable \cap Live \in SUBSET Living(objects) /\ Sane(objects)
    BY AnchoredIs
  <2> QED BY <2>1, AnchoredIs, ListsAre DEF set_mixins
<1>2. ASSUME NEW c \in ToSet(list)
      PROVE  c \in Living(objects) /\ objects[c + 1].is_class /\ c \notin deleting
  BY AnchoredIs, LiveIs DEF set_mixins, Class, Uses, obj
<1>3. PICK U : U = objects'
  OBVIOUS
<1>4. /\ Shape(U, objects)
      /\ \A c \in Living(objects) :
           /\ U[c + 1].class = objects[c + 1].class
           /\ U[c + 1].mixins = IF c = id THEN list ELSE objects[c + 1].mixins
           /\ SameSubclasses(U[c + 1], objects[c + 1])
           /\ SameUsers(U[c + 1], objects[c + 1])
           /\ SameRest(U[c + 1], objects[c + 1])
  BY <1>1, <1>3, AnchoredIs, MixedIs
<1>5. Living(U) = Living(objects)
  BY <1>4 DEF Shape
<1>6. Relinked(U, objects, deleting)
  BY <1>2, <1>4, <1>5 DEF Relinked, Links, SameSubclasses, SameUsers, SameRest
<1>7. Rooted(U)
  <2>1. \A r \in Roots : r \in Living(objects) /\ r # id
    BY <1>1, AnchoredIs
  <2>2. \A r \in Roots :
          /\ objects[r + 1].is_class => U[r + 1].is_class
          /\ U[r + 1].home = objects[r + 1].home /\ U[r + 1].class = objects[r + 1].class
          /\ U[r + 1].mixins = objects[r + 1].mixins
          /\ U[r + 1].superclasses = objects[r + 1].superclasses
          /\ U[r + 1].classMixins = objects[r + 1].classMixins
    BY <1>4, <2>1 DEF SameSubclasses, SameUsers, SameRest
  <2> QED BY <1>5, <2>1, <2>2, RootedCarry DEF Anchored
<1>8. Acyclic(U)
  <2>1. \A c \in Living(U) : AboveIn(U, c) \subseteq AboveIn(objects, c)
    BY <1>4, <1>5 DEF AboveIn, SameSubclasses, SameUsers
  <2> QED BY <1>5, <2>1, AcyclicLess DEF Anchored
<1> QED BY <1>1, <1>3, <1>6, <1>7, <1>8, AnchoredRelinks

LEMMA AnchoredClassMixins ==
  ASSUME Anchored, Kept', "join" \notin Departures,
         NEW id \in Live, NEW list \in Lists(Mixable \cap Live), set_class_mixins(id, list)
  PROVE  Anchored'
<1>1. /\ id \in Living(objects) /\ id \notin Roots /\ objects[id + 1].is_class
      /\ list \in Seq(Id) /\ ToSet(list) \subseteq 0 .. Len(objects) - 1
      /\ objects' = ClassMixed(objects, id, list) /\ UNCHANGED <<deleting, work>>
  <2>1. Mixable \cap Live \in SUBSET Living(objects) /\ Sane(objects)
    BY AnchoredIs
  <2> QED BY <2>1, AnchoredIs, ListsAre DEF set_class_mixins, Class, obj
<1>2. ASSUME NEW c \in ToSet(list)
      PROVE  /\ c \in Living(objects) /\ objects[c + 1].is_class /\ c \notin deleting
             /\ id \notin Ancestors(c)
  BY AnchoredIs, LiveIs DEF set_class_mixins, Class, Uses, obj, Circular, reachable
<1>3. PICK U : U = objects'
  OBVIOUS
<1>4. /\ Shape(U, objects)
      /\ \A c \in Living(objects) :
           /\ U[c + 1].classMixins = IF c = id THEN list ELSE objects[c + 1].classMixins
           /\ SameInstances(U[c + 1], objects[c + 1])
           /\ SameSubclasses(U[c + 1], objects[c + 1])
           /\ SameRest(U[c + 1], objects[c + 1])
  BY <1>1, <1>3, AnchoredIs, ClassMixedIs
<1>5. Living(U) = Living(objects)
  BY <1>4 DEF Shape
<1>6. Relinked(U, objects, deleting)
  BY <1>2, <1>4, <1>5 DEF Relinked, Links, SameInstances, SameSubclasses, SameRest
<1>7. Rooted(U)
  <2>1. \A r \in Roots : r \in Living(objects) /\ r # id
    BY <1>1, AnchoredIs
  <2>2. \A r \in Roots :
          /\ objects[r + 1].is_class => U[r + 1].is_class
          /\ U[r + 1].home = objects[r + 1].home /\ U[r + 1].class = objects[r + 1].class
          /\ U[r + 1].mixins = objects[r + 1].mixins
          /\ U[r + 1].superclasses = objects[r + 1].superclasses
          /\ U[r + 1].classMixins = objects[r + 1].classMixins
    BY <1>4, <2>1 DEF SameInstances, SameSubclasses, SameRest
  <2> QED BY <1>5, <2>1, <2>2, RootedCarry DEF Anchored
<1>8. Acyclic(U)
  <2>1. \A c \in Living(objects) : c # id => AboveIn(U, c) \subseteq Above(c)
    BY <1>4, <1>5, AboveIs DEF AboveIn, SameSubclasses
  <2>2. \A y \in AboveIn(U, id) : y \in Above(id) \/ id \notin Ancestors(y)
    BY <1>1, <1>2, <1>4, <1>5, AboveIs DEF AboveIn, SameSubclasses
  <2> QED BY <1>1, <1>5, <2>1, <2>2, AnchoredIs, Raised DEF Anchored
<1> QED BY <1>1, <1>3, <1>6, <1>7, <1>8, AnchoredRelinks

LEMMA AnchoredClass ==
  ASSUME Anchored, Kept', "join" \notin Departures, "twice" \notin Departures,
         NEW id \in Live, NEW cls \in Live, set_class(id, cls)
  PROVE  Anchored'
<1>1. /\ id \in Living(objects) /\ id \notin Roots /\ cls \in Living(objects)
      /\ cls # objects[id + 1].class /\ objects[cls + 1].is_class /\ cls \notin deleting
      /\ {cls, objects[id + 1].class} \cap ToSet(objects[id + 1].mixins) = {}
      /\ objects' = Reclassed(id, cls) /\ UNCHANGED <<deleting, work>>
  BY AnchoredIs DEF set_class, obj, Class, Uses
<1>2. PICK U : U = objects'
  OBVIOUS
<1>3. Shape(U, objects) /\ OnlyReclassed(U, objects, id, cls)
  BY <1>1, <1>2, AnchoredIs, ReclassedIs
<1>4. Living(U) = Living(objects)
  BY <1>3 DEF Shape
<1>5. Relinked(U, objects, deleting)
  <2>1. ASSUME NEW d \in Living(objects), NEW c \in Links(U, d)
        PROVE  c \in Links(objects, d) \/ c = cls \/ c = object_cls
    BY <1>3 DEF OnlyReclassed, Links
  <2>2. \A c \in Living(objects) : objects[c + 1].is_class => U[c + 1].is_class
    BY <1>3 DEF OnlyReclassed
  <2> QED BY <1>1, <1>4, <2>1, <2>2, AnchoredIs DEF Relinked
<1>6. Rooted(U)
  <2>1. \A r \in Roots : r \in Living(objects) /\ r # id
    BY <1>1, AnchoredIs
  <2>2. \A r \in Roots :
          /\ objects[r + 1].is_class => U[r + 1].is_class
          /\ U[r + 1].home = objects[r + 1].home /\ U[r + 1].class = objects[r + 1].class
          /\ U[r + 1].mixins = objects[r + 1].mixins
          /\ U[r + 1].superclasses = objects[r + 1].superclasses
          /\ U[r + 1].classMixins = objects[r + 1].classMixins
    BY <1>3, <2>1 DEF OnlyReclassed
  <2> QED BY <1>4, <2>1, <2>2, RootedCarry DEF Anchored
<1>7. Acyclic(U)
  <2>1. \A c \in Living(objects) : c # id => AboveIn(U, c) \subseteq Above(c)
    BY <1>3, <1>4, AboveIs DEF AboveIn, OnlyReclassed
  <2>2. id \notin Ancestors(object_cls)
    <3>1. {object_cls} \in SUBSET Ids /\ Closed({object_cls}, object_cls)
      BY AnchoredIs, AboveIs DEF Anchored, Rooted, Closed
    <3> QED BY <1>1, <3>1, AnchoredIs, AncestorsLeast
  <2>3. \A y \in AboveIn(U, id) : y \in Above(id) \/ id \notin Ancestors(y)
    BY <1>1, <1>3, <1>4, <2>2, AboveIs DEF AboveIn, OnlyReclassed
  <2> QED BY <1>1, <1>4, <2>1, <2>3, AnchoredIs, Raised DEF Anchored
<1> QED BY <1>1, <1>2, <1>5, <1>6, <1>7, AnchoredRelinks

LEMMA AnchoredNamespace ==
  ASSUME Anchored, Kept', NEW id \in Live, NamespaceDelete(id)
  PROVE  Anchored'
<1>1. PICK todo : todo = Append(Inside(id), id)
  OBVIOUS
<1>2. PICK frame, none : frame = Doing("namespace", id, todo) /\ none = {}
  OBVIOUS
<1>3. id \in Id /\ Inside(id) \in Seq(Id) /\ todo \in Seq(Id) /\ "namespace" \in Kinds
  BY <1>1, AnchoredIs, KnownIs, InsideIs, AppendProperties DEF Kinds
<1>4. frame \in Work /\ frame.what = "namespace" /\ frame.obj = id /\ frame.todo = todo
  BY <1>2, <1>3, DoingIs
<1>5. work' = Append(work, frame) /\ UNCHANGED <<objects, deleting>> /\ id \notin Roots
  BY <1>1, <1>2 DEF NamespaceDelete, Into
<1>6. ToSet(todo) \cap Roots = {}
  <2>1. ToSet(todo) = ToSet(Inside(id)) \cup {id}
    BY <1>1, <1>3, AppendIs
  <2>2. \A d \in ToSet(Inside(id)) : objects[d + 1].home = id
    BY AnchoredIs, InsideIs
  <2>3. Nowhere # id
    BY <1>3, AnchoredIs, KnownIs, Absences, ObjectsAssumption DEF Id
  <2> QED BY <1>5, <2>1, <2>2, <2>3 DEF Anchored, Rooted, RootAs
<1>7. Spares(frame) /\ Tells(frame, objects, deleting, none)
  BY <1>4, <1>5, <1>6 DEF Spares, Tells
<1>8. Spared(work')
  BY <1>4, <1>5, <1>7, AnchoredIs, SparedPush DEF Anchored
<1>9. Told(work', objects, deleting)
  BY <1>2, <1>4, <1>5, <1>7, AnchoredIs, ToldPush DEF Anchored
<1> QED BY <1>5, <1>8, <1>9 DEF Anchored

(* The frame of a destructor that begins.                                  *)
LEMMA DestroyerSpares ==
  ASSUME NEW id \in Id, id \notin Roots, NEW T, NEW del, NEW none
  PROVE  Spares(Destroyer(id)) /\ Tells(Destroyer(id), T, del, none)
BY DestroyerIs DEF Spares, Tells

LEMMA AnchoredDestroys ==
  ASSUME Anchored, Kept', NEW id \in Living(objects), id \notin Roots,
         objects' = Marked(id), deleting' = deleting,
         NEW W \in Seq(Work), Told(W, objects, deleting), Spared(W),
         work' = Append(W, Destroyer(id))
  PROVE  Anchored'
<1>1. id \in Id
  BY AnchoredIs, KnownIs
<1>2. PICK frame, none : frame = Destroyer(id) /\ none = {}
  OBVIOUS
<1>3. /\ frame \in Work /\ Spares(frame) /\ Tells(frame, objects, deleting, none)
      /\ work' = Append(W, frame)
  BY <1>1, <1>2, DestroyerIs, DestroyerSpares
<1>4. Told(work', objects, deleting)
  BY <1>2, <1>3, ToldPush
<1>5. Spared(work')
  BY <1>3, SparedPush
<1> QED BY <1>4, <1>5, AnchoredMarks

LEMMA AnchoredDestroy ==
  ASSUME Anchored, Kept', NEW id \in Live, Destroy(id)
  PROVE  Anchored'
<1>1. /\ id \in Living(objects) /\ id \notin Roots /\ objects' = Marked(id) /\ deleting' = deleting
      /\ work' = Append(work, Destroyer(id))
      /\ work \in Seq(Work) /\ Told(work, objects, deleting) /\ Spared(work)
  BY AnchoredIs DEF Destroy, Into, Anchored
<1> QED BY <1>1, AnchoredDestroys

(* The top of the work goes, when it is not a destructor.                  *)
LEMMA AnchoredPop ==
  ASSUME Anchored, now.what # "destroy", NEW W, W = Front(work)
  PROVE  W \in Seq(Work) /\ Told(W, objects, deleting) /\ Spared(W)
<1>1. work \in Seq(Work) /\ work # <<>> /\ work[Len(work)].what # "destroy"
      /\ Told(work, objects, deleting) /\ Spared(work)
  BY AnchoredIs DEF Anchored
<1>2. Told(W, objects, deleting)
  BY <1>1, ToldPop
<1> QED BY <1>1, <1>2, SparedPop

LEMMA ShorterSpares ==
  ASSUME Anchored, now.todo # <<>>
  PROVE  Spares(Shorter(now)) /\ (now.what = "namespace" => Head(now.todo) \notin Roots)
<1>1. /\ Shorter(now).what = now.what /\ Shorter(now).obj = now.obj
      /\ ToSet(now.todo) = {Head(now.todo)} \cup ToSet(Shorter(now).todo)
  BY AnchoredIs, ShorterIs
<1>2. Spares(now)
  BY AnchoredIs
<1>3. now.what = "namespace" => ToSet(now.todo) \cap Roots = {}
  BY <1>2 DEF Spares
<1> QED BY <1>1, <1>2, <1>3 DEF Spares

LEMMA AnchoredSweep ==
  ASSUME Anchored, Kept', SweepNamespace
  PROVE  Anchored'
<1>1. PICK W : W = Front(work)
  OBVIOUS
<1>2. now.what = "namespace" /\ now.what # "destroy" /\ deleting' = deleting
  BY DEF SweepNamespace
<1>3. W \in Seq(Work) /\ Told(W, objects, deleting) /\ Spared(W)
  BY <1>1, <1>2, AnchoredPop
<1>4. CASE now.todo = <<>>
  <2>1. work' = W /\ objects' = objects
    BY <1>1, <1>4 DEF SweepNamespace
  <2> QED BY <1>2, <1>3, <2>1 DEF Anchored
<1>5. CASE now.todo # <<>>
  <2>1. PICK d, frame, rest, none :
          d = Head(now.todo) /\ frame = Shorter(now) /\ rest = Append(W, frame) /\ none = {}
    OBVIOUS
  <2>2. frame \in Work /\ frame.what = "namespace" /\ Spares(frame) /\ d \notin Roots
    BY <1>2, <1>5, <2>1, AnchoredIs, ShorterIs, ShorterSpares
  <2>3. Tells(frame, objects, deleting, none)
    BY <2>2 DEF Tells
  <2>4. Told(rest, objects, deleting)
    BY <1>3, <2>1, <2>2, <2>3, ToldPush
  <2>5. Spared(rest) /\ rest \in Seq(Work)
    BY <1>3, <2>1, <2>2, SparedPush
  <2>6. IF Destroys(d) THEN objects' = Marked(d) /\ work' = Append(rest, Destroyer(d))
        ELSE work' = rest /\ objects' = objects
    BY <1>1, <1>5, <2>1 DEF SweepNamespace, Instead, Shorter
  <2>7. CASE Destroys(d)
    <3>1. d \in Living(objects)
      BY <2>7, AnchoredIs, DestroysIs
    <3> QED BY <1>2, <2>2, <2>4, <2>5, <2>6, <2>7, <3>1, AnchoredDestroys
  <2>8. CASE ~Destroys(d)
    BY <1>2, <2>4, <2>5, <2>6, <2>8 DEF Anchored
  <2> QED BY <2>7, <2>8
<1> QED BY <1>4, <1>5

LEMMA AnchoredConstructed ==
  ASSUME Anchored, Kept', Constructed
  PROVE  Anchored'
<1>1. PICK W : W = Front(work)
  OBVIOUS
<1>2. now.what # "destroy" /\ work' = W /\ UNCHANGED <<objects, deleting>>
  BY <1>1 DEF Constructed
<1>3. W \in Seq(Work) /\ Told(W, objects, deleting) /\ Spared(W)
  BY <1>1, <1>2, AnchoredPop
<1> QED BY <1>2, <1>3 DEF Anchored

LEMMA AnchoredConstructorFails ==
  ASSUME Anchored, Kept', ConstructorFails
  PROVE  Anchored'
<1>1. PICK id, W : id = now.obj /\ W = Front(work)
  OBVIOUS
<1>2. /\ now.what = "construct" /\ now.what # "destroy" /\ id \in Living(objects)
      /\ objects' = Marked(id) /\ deleting' = deleting
      /\ work' = Append(W, Destroyer(id))
  BY <1>1, AnchoredIs, DestroysIs DEF ConstructorFails, Instead
<1>3. W \in Seq(Work) /\ Told(W, objects, deleting) /\ Spared(W)
  BY <1>1, <1>2, AnchoredPop
<1>4. id \notin Roots
  <2>1. Spares(now)
    BY AnchoredIs
  <2> QED BY <1>1, <1>2, <2>1 DEF Spares
<1> QED BY <1>2, <1>3, <1>4, AnchoredDestroys

LEMMA HeldMore ==
  ASSUME NEW T, NEW del, Held(T, del), NEW more, del \subseteq more
  PROVE  Held(T, more)
BY DEF Held

(* The deletion of an object begins, above what tells the rest already.    *)
LEMMA AnchoredDeletes ==
  ASSUME Anchored, Kept', NEW id, Deletes(id), id \notin Roots,
         objects' = objects, NEW del, del = deleting \cup {id}, deleting' = del,
         NEW W \in Seq(Work), Told(W, objects, del), Spared(W), work' = Append(W, Deleter(id))
  PROVE  Anchored'
<1>1. id \in Living(objects)
  BY AnchoredIs, KnownIs DEF Deletes
<1>2. PICK frame, none : frame = Deleter(id) /\ none = {}
  OBVIOUS
<1>3. frame \in Work /\ frame.what = "descendants" /\ frame.obj = id
  BY <1>1, <1>2, AnchoredIs, DeleterIs
<1>4. Spares(frame) /\ work' = Append(W, frame)
  BY <1>2, <1>3 DEF Spares
<1>5. Tells(frame, objects, del, none)
  BY <1>1, <1>2, AnchoredIs, DeleterTells DEF Anchored
<1>6. Told(work', objects, del)
  BY <1>2, <1>3, <1>4, <1>5, ToldPush
<1>7. Spared(work')
  BY <1>3, <1>4, SparedPush
<1>8. Held(objects, del)
  BY HeldMore DEF Anchored
<1> QED BY <1>6, <1>7, <1>8 DEF Anchored

LEMMA AnchoredDestructorEnds ==
  ASSUME Anchored, Kept', DestructorEnds
  PROVE  Anchored'
<1>1. PICK id, W : id = now.obj /\ W = Front(work)
  OBVIOUS
<1>2. PICK del : del = IF Deletes(id) THEN deleting \cup {id} ELSE deleting
  OBVIOUS
<1>3. now.what = "destroy" /\ objects' = objects
  BY DEF DestructorEnds
<1>4. id \notin Roots
  <2>1. Spares(now)
    BY AnchoredIs
  <2> QED BY <1>1, <1>3, <2>1 DEF Spares
<1>5. deleting \subseteq del /\ (id \in del \/ id \notin Living(objects))
  BY <1>2, AnchoredIs, KnownIs DEF Deletes
<1>6. Told(work, objects, del)
  BY <1>5, ToldMore DEF Anchored
<1>7. Told(W, objects, del)
  BY <1>1, <1>5, <1>6, AnchoredIs, ToldPop
<1>8. Spared(W) /\ W \in Seq(Work)
  BY <1>1, AnchoredIs, SparedPop DEF Anchored
<1>9. CASE Deletes(id)
  <2>1. work' = Append(W, Deleter(id)) /\ deleting' = del /\ del = deleting \cup {id}
    BY <1>1, <1>2, <1>9 DEF DestructorEnds, Instead
  <2> QED BY <1>3, <1>4, <1>7, <1>8, <1>9, <2>1, AnchoredDeletes
<1>10. CASE ~Deletes(id)
  <2>1. work' = W /\ deleting' = deleting /\ del = deleting
    BY <1>1, <1>2, <1>10 DEF DestructorEnds
  <2> QED BY <1>3, <1>7, <1>8, <2>1 DEF Anchored
<1> QED BY <1>9, <1>10

LEMMA AnchoredNext ==
  ASSUME Anchored, Kept', NextOfList
  PROVE  Anchored'
<1>1. PICK d, frame, W, rest :
        /\ d = Head(now.todo) /\ frame = Shorter(now) /\ W = Front(work)
        /\ rest = Append(W, frame)
  OBVIOUS
<1>2. now.what \in {"descendants", "nested"} /\ now.what # "destroy" /\ now.todo # <<>>
  BY DEF NextOfList
<1>3. W \in Seq(Work) /\ Told(W, objects, deleting) /\ Spared(W)
  BY <1>1, <1>2, AnchoredPop
<1>4. /\ frame \in Work /\ frame.what = now.what /\ frame.obj = now.obj /\ Spares(frame)
      /\ ToSet(now.todo) = {d} \cup ToSet(frame.todo)
  BY <1>1, <1>2, AnchoredIs, ShorterIs, ShorterSpares
<1>5. Spared(rest) /\ rest \in Seq(Work)
  BY <1>1, <1>3, <1>4, SparedPush
<1>6. PICK next, none : next = {d} /\ none = {}
  OBVIOUS
<1>7. Tells(frame, objects, deleting, next)
  <2>1. Going(work, Len(work)) = {}
    BY AnchoredIs DEF Going
  <2>2. Tells(now, objects, deleting, Going(work, Len(work)))
    BY AnchoredIs DEF Anchored, Told
  <2> QED BY <1>4, <1>6, <2>1, <2>2 DEF Tells
<1>8. /\ Tells(frame, objects, deleting \cup {d}, none)
      /\ (d \in deleting \/ d \notin Living(objects) => Tells(frame, objects, deleting, none))
  BY <1>6, <1>7 DEF Tells
<1>9. d \in Roots => Tells(frame, objects, deleting, none)
  <2> SUFFICES ASSUME d \in Roots, d # now.obj, now.obj \in Links(objects, d) PROVE FALSE
    BY <1>4, <1>6, <1>7 DEF Tells
  <2>1. Links(objects, d) \subseteq Roots
    BY DEF Anchored, Rooted, RootAs, Links, Roots
  <2>2. Spares(now)
    BY AnchoredIs
  <2> QED BY <1>2, <2>1, <2>2 DEF Spares
<1>10. \/ /\ d \in Roots \/ ~alive(d) \/ (~Destroys(d) /\ ~Deletes(d))
          /\ work' = rest /\ objects' = objects /\ deleting' = deleting
       \/ /\ d \notin Roots /\ Destroys(d)
          /\ objects' = Marked(d) /\ work' = Append(rest, Destroyer(d)) /\ deleting' = deleting
       \/ /\ d \notin Roots /\ Deletes(d)
          /\ objects' = objects /\ work' = Append(rest, Deleter(d)) /\ deleting' = deleting \cup {d}
  BY <1>1 DEF NextOfList, Instead, Shorter
<1>11. CASE /\ d \in Roots \/ ~alive(d) \/ (~Destroys(d) /\ ~Deletes(d))
            /\ work' = rest /\ objects' = objects /\ deleting' = deleting
  <2>1. d \in Roots \/ d \notin Living(objects) \/ d \in deleting
    BY <1>11, AnchoredIs, KnownIs DEF Deletes
  <2>2. Tells(frame, objects, deleting, none)
    BY <1>8, <1>9, <2>1
  <2>3. Told(rest, objects, deleting)
    BY <1>1, <1>3, <1>4, <1>6, <2>2, ToldPush
  <2> QED BY <1>5, <1>11, <2>3 DEF Anchored
<1>12. CASE /\ d \notin Roots /\ Destroys(d)
            /\ objects' = Marked(d) /\ work' = Append(rest, Destroyer(d)) /\ deleting' = deleting
  <2>1. d \in Living(objects) /\ d \in Id
    BY <1>12, AnchoredIs, KnownIs, DestroysIs
  <2>2. PICK second : second = Destroyer(d)
    OBVIOUS
  <2>3. second \in Work /\ second.what = "destroy" /\ second.obj = d
    BY <2>1, <2>2, DestroyerIs
  <2>4. next = {second.obj} /\ work' = Append(rest, second) /\ frame.what # "destroy"
    BY <1>2, <1>4, <1>6, <1>12, <2>2, <2>3
  <2>5. Told(work', objects, deleting)
    BY <1>1, <1>3, <1>4, <1>7, <2>3, <2>4, ToldPushTwo
  <2>6. Spares(second)
    BY <1>12, <2>1, <2>2, DestroyerSpares
  <2>7. Spared(work')
    BY <1>5, <2>3, <2>4, <2>6, SparedPush
  <2> QED BY <1>12, <2>1, <2>5, <2>7, AnchoredMarks
<1>13. CASE /\ d \notin Roots /\ Deletes(d)
            /\ objects' = objects /\ work' = Append(rest, Deleter(d)) /\ deleting' = deleting \cup {d}
  <2>1. PICK del : del = deleting \cup {d}
    OBVIOUS
  <2>2. Told(W, objects, del) /\ Tells(frame, objects, del, none)
    BY <1>3, <1>8, <2>1, ToldMore
  <2>3. Told(rest, objects, del)
    BY <1>1, <1>3, <1>4, <1>6, <2>2, ToldPush
  <2> QED BY <1>5, <1>13, <2>1, <2>3, AnchoredDeletes
<1> QED BY <1>10, <1>11, <1>12, <1>13

LEMMA AnchoredDescendantsDone ==
  ASSUME Anchored, Kept', DescendantsDone
  PROVE  Anchored'
<1>1. PICK frame, W, none :
        frame = Doing("nested", now.obj, Inside(now.obj)) /\ W = Front(work) /\ none = {}
  OBVIOUS
<1>2. /\ now.what = "descendants" /\ now.what # "destroy" /\ now.todo = <<>>
      /\ work' = Append(W, frame) /\ objects' = objects /\ deleting' = deleting
  BY <1>1 DEF DescendantsDone, Instead
<1>3. W \in Seq(Work) /\ Told(W, objects, deleting) /\ Spared(W)
  BY <1>1, <1>2, AnchoredPop
<1>4. frame \in Work /\ frame.obj = now.obj /\ frame.what = "nested"
  <2>1. "nested" \in Kinds /\ now.obj \in Id /\ Inside(now.obj) \in Seq(Id)
    BY AnchoredIs, KnownIs, InsideIs DEF Kinds
  <2> QED BY <1>1, <2>1, DoingIs
<1>5. Spares(frame)
  <2>1. Spares(now)
    BY AnchoredIs
  <2> QED BY <1>2, <1>4, <2>1 DEF Spares
<1>6. Tells(frame, objects, deleting, none)
  <2>1. Going(work, Len(work)) = {}
    BY AnchoredIs DEF Going
  <2>2. Tells(now, objects, deleting, Going(work, Len(work)))
    BY AnchoredIs DEF Anchored, Told
  <2>3. ToSet(now.todo) = {}
    BY <1>2 DEF ToSet
  <2> QED BY <1>2, <1>4, <2>1, <2>2, <2>3 DEF Tells
<1>7. Told(work', objects, deleting)
  BY <1>1, <1>2, <1>3, <1>4, <1>6, ToldPush
<1>8. Spared(work')
  BY <1>2, <1>3, <1>4, <1>5, SparedPush
<1> QED BY <1>2, <1>7, <1>8 DEF Anchored

(* The object goes: nothing that stays leads to it but what goes, too.     *)
LEMMA AnchoredDelete ==
  ASSUME Anchored, Kept', Delete
  PROVE  Anchored'
<1>1. PICK id, W, U : id = now.obj /\ W = Front(work) /\ U = objects'
  OBVIOUS
<1>2. /\ now.what = "nested" /\ now.what # "destroy"
      /\ work' = W /\ deleting' = deleting \ {id} /\ U = Emptying(Unlinked(id), id)
  BY <1>1 DEF Delete, Emptying
<1>3. W \in Seq(Work) /\ Told(W, objects, deleting) /\ Spared(W)
  BY <1>1, <1>2, AnchoredPop
<1>4. id \in Living(objects) /\ id \notin Roots
  <2>1. Spares(now) /\ Deletion(now)
    BY <1>2, AnchoredIs DEF Deletion
  <2> QED BY <1>1, <1>2, <2>1, AnchoredIs, KeptIs DEF Spares
<1>5. /\ Sane(U) /\ Living(U) = Living(objects) \ {id}
      /\ \A c \in Living(U) :
           /\ U[c + 1].class = objects[c + 1].class
           /\ ToSet(U[c + 1].mixins) \subseteq ToSet(objects[c + 1].mixins)
           /\ U[c + 1].superclasses = objects[c + 1].superclasses
           /\ ToSet(U[c + 1].classMixins) \subseteq ToSet(objects[c + 1].classMixins)
           /\ SameRest(U[c + 1], objects[c + 1])
  BY <1>2, <1>4, AnchoredIs, DeletedIs
<1>6. ASSUME NEW d \in Living(U) PROVE d \in Living(objects) /\ Links(U, d) \subseteq Links(objects, d)
  BY <1>5 DEF Links
<1>7. \A d \in Living(objects) : d # id /\ id \in Links(objects, d) => d \in deleting
  <2>1. Tells(now, objects, deleting, Going(work, Len(work)))
    BY AnchoredIs DEF Anchored, Told
  <2> QED BY <1>1, <1>2, <2>1 DEF Tells
<1>8. Rooted(U)
  <2>1. \A r \in Roots : r \in Living(U)
    BY <1>4, <1>5, AnchoredIs
  <2>2. \A r \in Roots : /\ objects[r + 1].is_class => U[r + 1].is_class
                         /\ U[r + 1].home = objects[r + 1].home
    BY <1>5, <2>1 DEF SameRest
  <2> QED BY <1>5, <2>1, <2>2, RootedCarry DEF Anchored
<1>9. Classy(U)
  BY <1>5, <1>6 DEF Anchored, Classy, SameRest
<1>10. Held(U, deleting \ {id})
  BY <1>5, <1>6, <1>7 DEF Anchored, Held
<1>11. Told(W, U, deleting \ {id})
  <2> SUFFICES ASSUME NEW i \in 1 .. Len(W)
               PROVE  Tells(W[i], U, deleting \ {id}, Going(W, i))
    BY DEF Told
  <2>1. Tells(W[i], objects, deleting, Going(W, i))
    BY <1>3 DEF Told
  <2> QED BY <1>5, <1>6, <2>1 DEF Tells
<1>12. Acyclic(U)
  <2>1. \A c \in Living(U) : AboveIn(U, c) \subseteq AboveIn(objects, c)
    BY <1>5, <1>6 DEF AboveIn
  <2> QED BY <1>5, <2>1, AcyclicLess DEF Anchored
<1> QED BY <1>1, <1>2, <1>3, <1>8, <1>9, <1>10, <1>11, <1>12 DEF Anchored

LEMMA AnchoredInit ==
  ASSUME Init PROVE Anchored
<1>1. Kept
  BY KeptInit
<1>2. PICK T : T = objects
  OBVIOUS
<1>3. /\ Living(T) = {0, 1} /\ \A c \in Living(T) : T[c + 1].is_class = TRUE
      /\ T[0 + 1].class = 1 /\ T[1 + 1].class = 1
      /\ T[0 + 1].mixins = <<>> /\ T[1 + 1].mixins = <<>>
      /\ T[0 + 1].superclasses = <<>> /\ T[1 + 1].superclasses = <<0>>
      /\ T[0 + 1].classMixins = <<>> /\ T[1 + 1].classMixins = <<>>
      /\ T[0 + 1].home = Nowhere /\ T[1 + 1].home = Nowhere
  <2>1. 0 + 1 = 1 /\ 1 + 1 = 2 /\ \A c \in {0, 1} : c = 0 \/ c = 1
    OBVIOUS
  <2>2. Living(T) = {0, 1} /\ T[1].is_class = TRUE /\ T[2].is_class = TRUE
    BY <1>2, InitIs
  <2>3. \A c \in Living(T) : T[c + 1].is_class = TRUE
    BY <2>1, <2>2
  <2> QED BY <1>2, <2>1, <2>2, <2>3, InitIs DEF object_cls, class_cls
<1>4. /\ ToSet(T[0 + 1].mixins) = {} /\ ToSet(T[1 + 1].mixins) = {}
      /\ ToSet(T[0 + 1].superclasses) = {} /\ ToSet(T[1 + 1].superclasses) = {0}
      /\ ToSet(T[0 + 1].classMixins) = {} /\ ToSet(T[1 + 1].classMixins) = {}
  BY <1>3 DEF ToSet
<1>5. Links(T, 0) = {1} /\ Links(T, 1) = {0, 1}
  BY <1>3, <1>4 DEF Links
<1>6. AboveIn(T, 0) = {} /\ AboveIn(T, 1) = {0}
  BY <1>3, <1>4 DEF AboveIn
<1>7. Rooted(T)
  BY <1>3, <1>4, <1>6 DEF Rooted, RootAs, Roots, object_cls, class_cls
<1>8. Classy(T) /\ Held(T, deleting)
  BY <1>3, <1>5 DEF Classy, Held
<1>9. Acyclic(T)
  <2> SUFFICES ASSUME NEW S \in SUBSET Living(T), S # {}
               PROVE  \E c \in S : AboveIn(T, c) \cap S = {}
    BY DEF Acyclic
  <2>1. CASE 0 \in S
    BY <1>6, <2>1
  <2>2. CASE 0 \notin S
    <3>1. 1 \in S
      BY <1>3, <2>2
    <3> QED BY <1>6, <2>2, <3>1
  <2> QED BY <2>1, <2>2
<1>10. PICK main, none : none = <<>> /\ main = Doing("main", class_cls, none)
  OBVIOUS
<1>11. main.what = "main"
  BY <1>10 DEF Doing
<1>12. work = <<main>>
  BY <1>10 DEF Init
<1>13. \A i \in 1 .. Len(work) : work[i].what = "main"
  BY <1>11, <1>12
<1>14. Told(work, T, deleting) /\ Spared(work)
  BY <1>13 DEF Told, Tells, Spared, Spares
<1> QED BY <1>1, <1>2, <1>7, <1>8, <1>9, <1>14 DEF Anchored

LEMMA AnchoredStep ==
  ASSUME Anchored, Departures = {}, [Next]_vars
  PROVE  Anchored'
<1>1. "join" \notin Departures /\ "twice" \notin Departures /\ "dying" \notin Departures
  OBVIOUS
<1>2. Kept'
  BY <1>1, AnchoredIs, KeptStep
<1>3. ASSUME NEW id \in Live, NEW home \in (Homes \cap Live) \cup {Nowhere},
             Create(id, home) \/ Copy(id, home) \/ Rename(id, home)
      PROVE  Anchored'
  BY <1>1, <1>2, <1>3, AnchoredCreate, AnchoredCopy, AnchoredRename
<1>4. ASSUME NEW id \in Live,
             \/ \E list \in Lists(Live) \ {<<>>} : set_superclasses(id, list)
             \/ \E list \in Lists(Mixable \cap Live) : set_mixins(id, list) \/ set_class_mixins(id, list)
             \/ \E cls \in Live : set_class(id, cls)
      PROVE  Anchored'
  BY <1>1, <1>2, <1>4, AnchoredSuperclasses, AnchoredMixins, AnchoredClassMixins, AnchoredClass
<1>5. ASSUME NEW id \in Live, Destroy(id) \/ NamespaceDelete(id) PROVE Anchored'
  BY <1>2, <1>5, AnchoredDestroy, AnchoredNamespace
<1>6. CASE CodeStep
  BY <1>2, <1>6, AnchoredSweep, AnchoredNext, AnchoredDescendantsDone, AnchoredDelete DEF CodeStep
<1>7. CASE ScriptEnds
  BY <1>2, <1>7, AnchoredConstructed, AnchoredConstructorFails, AnchoredDestructorEnds
     DEF ScriptEnds
<1>8. CASE UNCHANGED vars
  BY <1>2, <1>8 DEF vars, Anchored
<1> QED BY <1>3, <1>4, <1>5, <1>6, <1>7, <1>8 DEF Next

(* No object outlives its class, a mixin, or a superclass, unless its own  *)
(* deletion has begun, and the links upwards close no circle               *)
(* (NothingDangles): what `class` and `obj` of oo.rs count on when they    *)
(* unwrap, whatever commands destructors give while their objects and      *)
(* classes go.  It is about scripts that do not use a class that is being  *)
(* deleted, nor have it twice of one object: with a departure it is false. *)
THEOREM NothingIsLeftBehind ==
  ASSUME Departures = {}
  PROVE  Spec => []NothingDangles
<1>1. Init => Anchored
  BY AnchoredInit
<1>2. Anchored /\ [Next]_vars => Anchored'
  BY AnchoredStep
<1>3. ASSUME Anchored PROVE NothingDangles
  <2>1. Live = Living(objects) /\ \A c : Above(c) = AboveIn(objects, c)
    BY <1>3, AnchoredIs, AboveIs
  <2>2. ASSUME NEW id \in Live \ deleting
        PROVE  {obj(id).class} \cup ToSet(obj(id).mixins) \cup Above(id) \subseteq Live
    <3>1. Links(objects, id) \subseteq Living(objects)
      BY <1>3, <2>1, <2>2 DEF Anchored, Held
    <3>2. Above(id) = ToSet(obj(id).superclasses) \cup ToSet(obj(id).classMixins)
      BY <2>1, <2>2 DEF AboveIn, obj
    <3> QED BY <2>1, <3>1, <3>2 DEF Links, obj
  <2>3. ASSUME NEW S \in SUBSET Live, S # {} PROVE \E c \in S : Above(c) \cap S = {}
    BY <1>3, <2>1, <2>3 DEF Anchored, Acyclic
  <2> QED BY <2>2, <2>3 DEF NothingDangles
<1> QED BY <1>1, <1>2, <1>3, PTL DEF Spec
=============================================================================
