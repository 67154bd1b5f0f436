----------------------------- MODULE PackagesProofs -----------------------------
(***************************************************************************)
(* Proofs about Versions and Packages, for any packages, versions and      *)
(* requirements and however requests nest.                                 *)
(***************************************************************************)
EXTENDS Packages, NaturalsInduction, WellFoundedInduction, SequenceTheorems, FiniteSetTheorems, TLAPS

-----------------------------------------------------------------------------
(* Versions: the order is that of lists of integers which end in zeros.       *)
Version == Seq(Int)
Places  == Nat \ {0}
Lower(v, w) == \E i \in Places : /\ Piece(v, i) < Piece(w, i)
                                 /\ \A j \in 1 .. i - 1 : Piece(v, j) = Piece(w, j)
Alike(v, w) == \A i \in Places : Piece(v, i) = Piece(w, i)

LEMMA Pieces ==
  ASSUME NEW v \in Version, NEW w \in Version
  PROVE  /\ \A i : Piece(v, i) \in Int
         /\ Differ(v, w) = {i \in Places : Piece(v, i) # Piece(w, i)}
         /\ Differ(v, w) \subseteq Nat
<1>1. DOMAIN v \subseteq Places /\ DOMAIN w \subseteq Places
  BY DEF Version, Places
<1>2. \A i : Piece(v, i) \in Int
  BY DEF Version, Piece
<1> QED BY <1>1, <1>2 DEF Differ, Piece, Places

(* The place that decides.                                                    *)
LEMMA FirstOf ==
  ASSUME NEW S \in SUBSET Nat, S # {}
  PROVE  Min(S) \in S /\ \A j \in S : Min(S) <= j
<1>1. \E i \in S : \A j \in S : i <= j
  <2> DEFINE R == {ss \in Nat \X Nat : ss[1] < ss[2]}
  <2>1. IsWellFoundedOn(R, Nat)
    BY NatLessThanWellFounded DEF OpToRel
  <2>2. PICK i \in S : \A j \in S : ~(<<j, i>> \in R)
    <3> HIDE DEF R
    <3> QED BY <2>1, WFMin
  <2>3. ASSUME NEW j \in S, j < i PROVE FALSE
    <3>1. <<j, i>> \in Nat \X Nat /\ <<j, i>>[1] < <<j, i>>[2]
      BY <2>3
    <3>2. <<j, i>> \in R
      BY <3>1
    <3> QED BY <2>2, <3>2
  <2> HIDE DEF R
  <2> QED BY <2>3
<1> QED BY <1>1 DEF Min

LEMMA Decides ==
  ASSUME NEW v \in Version, NEW w \in Version, NEW i \in Places, Piece(v, i) # Piece(w, i),
         \A j \in 1 .. i - 1 : Piece(v, j) = Piece(w, j)
  PROVE  /\ Differ(v, w) # {} /\ Min(Differ(v, w)) = i
<1>1. i \in Differ(v, w)
  BY Pieces
<1>2. Min(Differ(v, w)) \in Differ(v, w) /\ Min(Differ(v, w)) <= i /\ Min(Differ(v, w)) \in Places
  BY <1>1, Pieces, FirstOf
<1>3. ~(Min(Differ(v, w)) \in 1 .. i - 1)
  BY <1>2, Pieces
<1> QED BY <1>1, <1>2, <1>3 DEF Places

LEMMA Compared ==
  ASSUME NEW v \in Version, NEW w \in Version
  PROVE  /\ compare_versions(v, w) \in {-1, 0, 1}
         /\ compare_versions(v, w) = 0 <=> Alike(v, w)
         /\ compare_versions(v, w) = -1 <=> Lower(v, w)
         /\ compare_versions(v, w) = 1 <=> Lower(w, v)
<1> DEFINE i == Min(Differ(v, w))
<1>1. CASE Differ(v, w) = {}
  BY <1>1, Pieces DEF compare_versions, Alike, Lower
<1>2. CASE Differ(v, w) # {}
  <2>1. i \in Places /\ Piece(v, i) # Piece(w, i) /\ \A j \in Differ(v, w) : i <= j
    BY <1>2, Pieces, FirstOf
  <2>2. Piece(v, i) \in Int /\ Piece(w, i) \in Int
    BY Pieces
  <2>3. \A j \in 1 .. i - 1 : Piece(v, j) = Piece(w, j)
    <3> TAKE j \in 1 .. i - 1
    <3>1. j \in Places /\ ~(i <= j)
      BY <2>1 DEF Places
    <3> QED BY <2>1, <3>1, Pieces
  <2>4. compare_versions(v, w) = IF Piece(v, i) < Piece(w, i) THEN -1 ELSE 1
    BY <1>2 DEF compare_versions
  <2>5. ~Alike(v, w)
    BY <2>1 DEF Alike
  <2>6. ASSUME NEW x \in {v, w}, NEW y \in {v, w}, x # y, Lower(x, y)
        PROVE  Piece(x, i) < Piece(y, i)
    <3>1. PICK k \in Places : Piece(x, k) < Piece(y, k) /\ \A j \in 1 .. k - 1 : Piece(x, j) = Piece(y, j)
      BY <2>6 DEF Lower
    <3>2. x \in Version /\ y \in Version /\ Piece(x, k) \in Int /\ Piece(y, k) \in Int
      BY Pieces
    <3>3. Piece(v, k) # Piece(w, k) /\ \A j \in 1 .. k - 1 : Piece(v, j) = Piece(w, j)
      BY <2>6, <3>1, <3>2
    <3>4. i = k
      BY <3>3, Decides
    <3> QED BY <3>1, <3>4
  <2>7. Piece(v, i) < Piece(w, i) => Lower(v, w)
    BY <2>1, <2>3 DEF Lower
  <2>8. Piece(w, i) < Piece(v, i) => Lower(w, v)
    BY <2>1, <2>3 DEF Lower
  <2>9. v # w
    BY <2>1
  <2>10. Lower(v, w) => Piece(v, i) < Piece(w, i)
    BY <2>6, <2>9
  <2>11. Lower(w, v) => Piece(w, i) < Piece(v, i)
    BY <2>6, <2>9
  <2> HIDE DEF i
  <2> QED BY <2>1, <2>2, <2>4, <2>5, <2>7, <2>8, <2>10, <2>11
<1> QED BY <1>1, <1>2

LEMMA LowerIsTransitive ==
  ASSUME NEW u \in Version, NEW v \in Version, NEW w \in Version,
         Lower(u, v) \/ Alike(u, v), Lower(v, w) \/ Alike(v, w)
  PROVE  Lower(u, w) \/ Alike(u, w)
<1>1. CASE Alike(u, v) /\ Alike(v, w)
  BY <1>1 DEF Alike
<1>2. CASE Alike(u, v) /\ Lower(v, w)
  <2>1. PICK i \in Places : Piece(v, i) < Piece(w, i) /\ \A j \in 1 .. i - 1 : Piece(v, j) = Piece(w, j)
    BY <1>2 DEF Lower
  <2>2. Piece(u, i) < Piece(w, i) /\ \A j \in 1 .. i - 1 : Piece(u, j) = Piece(w, j)
    BY <1>2, <2>1 DEF Alike, Places
  <2> QED BY <2>2 DEF Lower
<1>3. CASE Lower(u, v) /\ Alike(v, w)
  <2>1. PICK i \in Places : Piece(u, i) < Piece(v, i) /\ \A j \in 1 .. i - 1 : Piece(u, j) = Piece(v, j)
    BY <1>3 DEF Lower
  <2>2. Piece(u, i) < Piece(w, i) /\ \A j \in 1 .. i - 1 : Piece(u, j) = Piece(w, j)
    BY <1>3, <2>1 DEF Alike, Places
  <2> QED BY <2>2 DEF Lower
<1>4. CASE Lower(u, v) /\ Lower(v, w)
  <2>1. PICK i \in Places : Piece(u, i) < Piece(v, i) /\ \A j \in 1 .. i - 1 : Piece(u, j) = Piece(v, j)
    BY <1>4 DEF Lower
  <2>2. PICK k \in Places : Piece(v, k) < Piece(w, k) /\ \A j \in 1 .. k - 1 : Piece(v, j) = Piece(w, j)
    BY <1>4 DEF Lower
  <2>3. \A j : Piece(u, j) \in Int /\ Piece(v, j) \in Int /\ Piece(w, j) \in Int
    BY Pieces
  <2>4. CASE i <= k
    <3>1. Piece(u, i) < Piece(w, i)
      <4>1. i = k \/ i \in 1 .. k - 1
        BY <2>4 DEF Places
      <4> QED BY <2>1, <2>2, <2>3, <4>1
    <3>2. \A j \in 1 .. i - 1 : j \in 1 .. k - 1
      BY <2>4 DEF Places
    <3>3. \A j \in 1 .. i - 1 : Piece(u, j) = Piece(w, j)
      BY <2>1, <2>2, <3>2
    <3> QED BY <3>1, <3>3 DEF Lower
  <2>5. CASE k < i
    <3>1. k \in 1 .. i - 1 /\ \A j \in 1 .. k - 1 : j \in 1 .. i - 1
      BY <2>5 DEF Places
    <3>2. Piece(u, k) < Piece(w, k) /\ \A j \in 1 .. k - 1 : Piece(u, j) = Piece(w, j)
      BY <2>1, <2>2, <3>1
    <3> QED BY <3>2 DEF Lower
  <2> QED BY <2>4, <2>5 DEF Places
<1> QED BY <1>1, <1>2, <1>3, <1>4
(* Versions that compare equal meet the same requirements.                    *)
LEMMA AlikeComparesAlike ==
  ASSUME NEW u \in Version, NEW v \in Version, NEW w \in Version, Alike(u, v)
  PROVE  /\ compare_versions(u, w) = compare_versions(v, w)
         /\ compare_versions(w, u) = compare_versions(w, v)
         /\ this_is_major(u, w) <=> this_is_major(v, w)
<1>1. Alike(u, w) <=> Alike(v, w)
  BY DEF Alike
<1>2. Alike(w, u) <=> Alike(w, v)
  BY DEF Alike
<1>3. (Lower(u, w) <=> Lower(v, w)) /\ (Lower(w, u) <=> Lower(w, v))
  <2>1. \A i \in Places : Piece(u, i) = Piece(v, i) /\ \A j \in 1 .. i - 1 : j \in Places
    BY DEF Alike, Places
  <2> QED BY <2>1 DEF Lower
<1>4. Differ(u, w) = Differ(v, w)
  <2>1. /\ Differ(u, w) = {i \in Places : Piece(u, i) # Piece(w, i)}
        /\ Differ(v, w) = {i \in Places : Piece(v, i) # Piece(w, i)}
    BY Pieces
  <2>2. \A i \in Places : Piece(u, i) = Piece(v, i)
    BY DEF Alike
  <2> QED BY <2>1, <2>2
<1> QED BY <1>1, <1>2, <1>3, <1>4, Compared DEF this_is_major

LEMMA AlikeSatisfyAlike ==
  ASSUME NEW u \in Version, NEW v \in Version, compare_versions(u, v) = 0,
         NEW reqs \in SUBSET Requirement
  PROVE  Satisfies(u, reqs) <=> Satisfies(v, reqs)
<1>1. Alike(u, v)
  BY Compared
<1>2. ASSUME NEW r \in Requirement
      PROVE  requirement_satisfied(u, r) <=> requirement_satisfied(v, r)
  <2>1. r.min \in Version /\ r.max \in Version /\ Padded(r.min) \in Version /\ Padded(r.max) \in Version
    BY DEF Requirement, Version, Padded
  <2>2. \A w \in {r.min, r.max, Padded(r.min), Padded(r.max)} :
           /\ compare_versions(u, w) = compare_versions(v, w)
           /\ compare_versions(w, u) = compare_versions(w, v)
           /\ this_is_major(u, w) <=> this_is_major(v, w)
    BY <1>1, <2>1, AlikeComparesAlike
  <2>3. r.form \in {"plain", "from", "range"}
    BY DEF Requirement
  <2> QED BY <2>2, <2>3 DEF requirement_satisfied
<1> QED BY <1>2 DEF Satisfies

(* Of finitely many versions that are there at all, one is the best: a        *)
(* smallest set that has none would have one when it has a version more.      *)
LEMMA BestExists ==
  ASSUME NEW S \in SUBSET Version, IsFiniteSet(S), S # {}
  PROVE  Best(S) # {}
<1> DEFINE worst == {s \in SUBSET S : s # {} /\ Best(s) = {}}
<1> SUFFICES ASSUME worst # {} PROVE FALSE
  OBVIOUS
<1>1. IsWellFoundedOn(StrictSubsetOrdering(S), SUBSET S)
  BY FS_StrictSubsetOrderingWellFounded, FS_FiniteSubsetsOfFinite
<1>2. PICK s \in worst : \A r \in worst : ~(<<r, s>> \in StrictSubsetOrdering(S))
  <2>1. worst \subseteq SUBSET S
    OBVIOUS
  <2> HIDE DEF worst
  <2> QED BY <1>1, <2>1, WFMin
<1>3. PICK x \in s : TRUE
  OBVIOUS
<1> DEFINE r == s \ {x}
<1>4. r \notin worst
  <2>1. <<r, s>> \in (SUBSET S) \X (SUBSET S) /\ <<r, s>>[1] \subseteq <<r, s>>[2] /\ <<r, s>>[1] # <<r, s>>[2]
    BY <1>3
  <2>2. <<r, s>> \in StrictSubsetOrdering(S)
    BY <2>1 DEF StrictSubsetOrdering
  <2> QED BY <1>2, <2>2
<1>5. \A v, w \in s : compare_versions(w, v) <= 0 <=> Lower(w, v) \/ Alike(w, v)
  <2> TAKE v, w \in s
  <2>1. v \in Version /\ w \in Version
    BY <1>2
  <2> QED BY <2>1, Compared
<1>6. \A w \in s : Alike(w, w)
  BY DEF Alike
<1>7. CASE r = {}
  <2>1. s = {x}
    BY <1>3, <1>7
  <2>2. x \in Best(s)
    BY <1>5, <1>6, <2>1 DEF Best
  <2> QED BY <1>2, <2>2
<1>8. CASE r # {}
  <2>1. r \in SUBSET S /\ Best(r) # {}
    BY <1>2, <1>4, <1>8
  <2>2. PICK m \in r : \A w \in r : compare_versions(w, m) <= 0
    BY <2>1 DEF Best
  <2>3. x \in Version /\ m \in Version /\ m \in s
    BY <1>2, <1>3, <2>2
  <2>4. CASE compare_versions(x, m) <= 0
    <3>1. m \in Best(s)
      BY <2>2, <2>3, <2>4 DEF Best
    <3> QED BY <1>2, <3>1
  <2>5. CASE ~(compare_versions(x, m) <= 0)
    <3>1. Lower(m, x)
      BY <2>3, <2>5, Compared
    <3>2. \A w \in r : Lower(w, x) \/ Alike(w, x)
      <4> TAKE w \in r
      <4>1. w \in Version /\ (Lower(w, m) \/ Alike(w, m))
        BY <1>2, <1>5, <2>2, <2>3
      <4> QED BY <2>3, <3>1, <4>1, LowerIsTransitive
    <3>3. x \in Best(s)
      BY <1>3, <1>5, <1>6, <3>2 DEF Best
    <3> QED BY <1>2, <3>3
  <2> QED BY <2>4, <2>5
<1> QED BY <1>7, <1>8
-----------------------------------------------------------------------------
(* The registry.  A request that loads a package is alone with it and marks   *)
(* it; it is for a version that meets what was asked.                         *)
LoadsIn(w, p) == {i \in DOMAIN w : w[i].what = "load" /\ w[i].of = p}

Marked ==
  \A p \in Names :
    /\ \A i, j \in LoadsIn(work, p) : i = j
    /\ packages[p].providing # None <=> LoadsIn(work, p) # {}
    /\ \A i \in LoadsIn(work, p) : packages[p].providing = work[i].version

Finite == \A p \in Names : IsFiniteSet(packages[p].avail)
Chosen == \A i \in DOMAIN work : work[i].what = "load" => Satisfies(work[i].version, work[i].reqs)

IInv == TypeOK /\ Marked /\ Finite /\ Chosen

(* What the steps do to the requests under way.                               *)
LEMMA WorkPushed ==
  ASSUME NEW w \in Seq(Request), NEW e \in Request
  PROVE  /\ Append(w, e) \in Seq(Request) /\ Len(Append(w, e)) = Len(w) + 1 /\ Len(w) \in Nat
         /\ DOMAIN w = 1 .. Len(w) /\ DOMAIN Append(w, e) = 1 .. Len(w) + 1
         /\ \A i \in 1 .. Len(w) : Append(w, e)[i] = w[i]
         /\ Append(w, e)[Len(w) + 1] = e
OBVIOUS

LEMMA WorkPopped ==
  ASSUME NEW w \in Seq(Request), w # <<>>
  PROVE  /\ Front(w) \in Seq(Request) /\ Len(Front(w)) = Len(w) - 1 /\ Len(w) \in Nat \ {0}
         /\ DOMAIN w = 1 .. Len(w) /\ DOMAIN Front(w) = 1 .. Len(w) - 1
         /\ \A i \in 1 .. Len(w) - 1 : Front(w)[i] = w[i]
         /\ Last(w) = w[Len(w)] /\ Last(w) \in Request
<1>1. Len(w) \in Nat \ {0} /\ DOMAIN w = 1 .. Len(w)
  OBVIOUS
<1>2. Last(w) = w[Len(w)] /\ Last(w) \in Request
  BY <1>1 DEF Last
<1>3. /\ Front(w) \in Seq(Request) /\ Len(Front(w)) = Len(w) - 1 /\ DOMAIN Front(w) = 1 .. Len(w) - 1
      /\ \A i \in 1 .. Len(w) - 1 : Front(w)[i] = w[i]
  BY <1>1 DEF Front
<1> QED BY <1>1, <1>2, <1>3

LEMMA Requests ==
  ASSUME NEW e \in Request
  PROVE  /\ e.what \in {"load", "unknown"} /\ e.of \in Names /\ e.reqs \in Requirements
         /\ e.what = "load" => e.version \in Numbers
BY DEF Request

(* Without the requests, the rest of the state: a package's entry changes but *)
(* for its marker.                                                            *)
LEMMA EntryStep ==
  ASSUME IInv, UNCHANGED work, packages' \in [Names -> Package],
         unknown' \in BOOLEAN, prefer' \in {"stable", "latest"},
         \A p \in Names : packages'[p].providing = packages[p].providing /\ IsFiniteSet(packages'[p].avail)
  PROVE  IInv'
BY DEF IInv, TypeOK, Marked, LoadsIn, Finite, Chosen

LEMMA InitIInv == Init => IInv
<1> SUFFICES ASSUME Init PROVE IInv
  OBVIOUS
<1>1. Absent \in Package
  BY DEF Absent, Package
<1>2. TypeOK
  <2>1. work = <<>> /\ work \in Seq(Request) /\ Len(work) <= Limit
    BY PackagesAssumption DEF Init
  <2>2. packages \in [Names -> Package]
    BY <1>1 DEF Init
  <2> QED BY <2>1, <2>2 DEF Init, TypeOK
<1>3. Finite /\ Marked /\ Chosen
  <2>1. \A p \in Names : packages[p].providing = None /\ IsFiniteSet(packages[p].avail)
    BY FS_EmptySet DEF Init, Absent
  <2>2. DOMAIN work = {}
    BY DEF Init
  <2> QED BY <2>1, <2>2 DEF Finite, Marked, LoadsIn, Chosen
<1> QED BY <1>2, <1>3 DEF IInv

LEMMA ProvideStep ==
  ASSUME IInv, NEW p \in Names, NEW v \in Numbers, Provide(p, v)
  PROVE  IInv'
<1>1. packages \in [Names -> Package] /\ packages[p] \in Package
  BY DEF IInv, TypeOK
<1>2. [packages[p] EXCEPT !.version = v] \in Package
  BY <1>1 DEF Package
<1>3. packages' \in [Names -> Package]
  BY <1>1, <1>2 DEF Provide, provide
<1>4. \A q \in Names : packages'[q].providing = packages[q].providing /\ packages'[q].avail = packages[q].avail
  BY <1>1 DEF Provide, provide, Package
<1> QED BY <1>3, <1>4, EntryStep DEF IInv, TypeOK, Provide, Finite

LEMMA IfNeededStep ==
  ASSUME IInv, NEW p \in Names, NEW v \in Numbers, IfNeeded(p, v)
  PROVE  IInv'
<1>1. packages \in [Names -> Package] /\ packages[p] \in Package /\ IsFiniteSet(packages[p].avail)
  BY DEF IInv, TypeOK, Finite
<1> DEFINE entry == [packages[p] EXCEPT !.avail = @ \cup {v}]
<1>2. entry \in Package /\ entry.providing = packages[p].providing /\ entry.avail = packages[p].avail \cup {v}
  BY <1>1 DEF Package
<1>3. IsFiniteSet(entry.avail)
  BY <1>1, <1>2, FS_AddElement
<1>4. packages' = [packages EXCEPT ![p] = entry]
  BY DEF IfNeeded
<1> HIDE DEF entry
<1>5. packages' \in [Names -> Package]
  BY <1>1, <1>2, <1>4
<1>6. \A q \in Names : packages'[q].providing = packages[q].providing /\ IsFiniteSet(packages'[q].avail)
  BY <1>1, <1>2, <1>3, <1>4 DEF IInv, Finite
<1> QED BY <1>5, <1>6, EntryStep DEF IInv, TypeOK, IfNeeded

(* An entry of a package that is not being loaded is dropped with nothing     *)
(* else: that of one that is would take the marker along.                     *)
LEMMA ForgetStep ==
  ASSUME "forget" \notin Departures, IInv, NEW p \in Names, Forget(p)
  PROVE  IInv'
<1>1. packages \in [Names -> Package] /\ packages[p].providing = None
  BY DEF IInv, TypeOK, Forget
<1>2. Absent \in Package /\ Absent.providing = None /\ IsFiniteSet(Absent.avail)
  BY FS_EmptySet DEF Absent, Package
<1>3. packages' \in [Names -> Package]
  BY <1>1, <1>2 DEF Forget
<1>4. \A q \in Names : packages'[q].providing = packages[q].providing /\ IsFiniteSet(packages'[q].avail)
  BY <1>1, <1>2 DEF Forget, IInv, Finite
<1> QED BY <1>3, <1>4, EntryStep DEF IInv, TypeOK, Forget

LEMMA FlagStep ==
  ASSUME IInv, Prefer \/ (\E there \in BOOLEAN : Unknown(there)) \/ UNCHANGED vars
  PROVE  IInv'
BY EntryStep DEF IInv, TypeOK, Finite, Prefer, Unknown, vars
(* A load begins above requests that load other packages.                     *)
LEMMA SelectStep ==
  ASSUME IInv, NEW under \in Seq(Request), Len(under) < Limit, NEW p \in Names, NEW reqs \in Requirements,
         \A i \in DOMAIN under : i \in DOMAIN work /\ under[i] = work[i],
         \A i \in DOMAIN work : work[i].what = "load" => i \in DOMAIN under,
         Select(under, p, reqs), UNCHANGED <<unknown, prefer>>
  PROVE  IInv'
<1> PICK v \in best_available(p, reqs) : /\ work' = Append(under, Load(p, reqs, v))
                                         /\ packages' = [packages EXCEPT ![p].providing = v]
  BY DEF Select
<1> DEFINE e == Load(p, reqs, v)
           n == Len(under) + 1
<1>1. packages \in [Names -> Package] /\ packages[p] \in Package /\ packages[p].providing = None
  BY DEF IInv, TypeOK, Select, Circular
<1>2. v \in Meeting(p, reqs)
  BY DEF best_available, Best
<1>3. v \in Numbers /\ v # None /\ Satisfies(v, reqs)
  BY <1>1, <1>2, PackagesAssumption DEF Meeting, Package
<1>4. /\ e \in Request /\ e.what = "load" /\ e.of = p /\ e.version = v /\ e.reqs = reqs
      /\ work' = Append(under, e)
  BY <1>3 DEF Load, Request
<1> HIDE DEF e
<1>5. /\ work' \in Seq(Request) /\ Len(work') = n /\ n \in Nat /\ DOMAIN work' = 1 .. n
      /\ DOMAIN under = 1 .. n - 1 /\ work'[n] = e /\ \A i \in 1 .. n - 1 : work'[i] = under[i]
  BY <1>4, WorkPushed
<1>6. n <= Limit
  BY <1>5, PackagesAssumption
<1>7. \A q \in Names : LoadsIn(under, q) = LoadsIn(work, q)
  BY DEF LoadsIn
<1>8. [packages[p] EXCEPT !.providing = v] \in Package
  BY <1>1, <1>3 DEF Package
<1>9. /\ packages' \in [Names -> Package] /\ packages'[p].providing = v
      /\ \A q \in Names : packages'[q].avail = packages[q].avail
      /\ \A q \in Names \ {p} : packages'[q] = packages[q]
  BY <1>1, <1>8 DEF Package
<1> HIDE DEF n
<1>10. TypeOK'
  BY <1>5, <1>6, <1>9 DEF IInv, TypeOK
<1>11. Marked'
  <2>1. LoadsIn(work, p) = {}
    BY <1>1 DEF IInv, Marked
  <2>2. \A q \in Names \ {p} : LoadsIn(work', q) = LoadsIn(under, q)
    BY <1>4, <1>5 DEF LoadsIn
  <2>3. LoadsIn(work', p) = LoadsIn(under, p) \cup {n}
    BY <1>4, <1>5 DEF LoadsIn
  <2>4. \A q \in Names \ {p} : \A i \in LoadsIn(work, q) : work'[i] = work[i]
    BY <1>5, <1>7 DEF LoadsIn
  <2>5. ASSUME NEW q \in Names
        PROVE  /\ \A i, j \in LoadsIn(work', q) : i = j
               /\ packages'[q].providing # None <=> LoadsIn(work', q) # {}
               /\ \A i \in LoadsIn(work', q) : packages'[q].providing = work'[i].version
    <3>1. CASE q = p
      <4>1. LoadsIn(work', p) = {n}
        BY <1>7, <2>1, <2>3
      <4>2. work'[n].version = v /\ packages'[p].providing = v /\ v # None
        BY <1>3, <1>4, <1>5, <1>9
      <4>3. /\ \A i, j \in LoadsIn(work', p) : i = j
            /\ packages'[p].providing # None /\ LoadsIn(work', p) # {}
            /\ \A i \in LoadsIn(work', p) : packages'[p].providing = work'[i].version
        BY <4>1, <4>2
      <4> QED BY <3>1, <4>3
    <3>2. CASE q # p
      <4>1. LoadsIn(work', q) = LoadsIn(work, q) /\ packages'[q] = packages[q]
        BY <1>7, <1>9, <2>2, <3>2
      <4>2. /\ \A i, j \in LoadsIn(work, q) : i = j
            /\ packages[q].providing # None <=> LoadsIn(work, q) # {}
            /\ \A i \in LoadsIn(work, q) : packages[q].providing = work[i].version
        BY DEF IInv, Marked
      <4>3. \A i \in LoadsIn(work, q) : work'[i].version = work[i].version
        BY <2>4, <3>2
      <4> QED BY <4>1, <4>2, <4>3
    <3> QED BY <3>1, <3>2
  <2> QED BY <2>5 DEF Marked
<1>12. Finite'
  BY <1>9 DEF IInv, Finite
<1>13. Chosen'
  BY <1>3, <1>4, <1>5 DEF IInv, Chosen
<1> QED BY <1>10, <1>11, <1>12, <1>13 DEF IInv

LEMMA RequireStep ==
  ASSUME IInv, NEW p \in Names, NEW reqs \in Requirements, Require(p, reqs)
  PROVE  IInv'
<1>1. work \in Seq(Request) /\ Len(work) < Limit /\ Limit \in Nat
  BY PackagesAssumption DEF IInv, TypeOK, Require, HasLevel
<1>2. CASE Select(work, p, reqs)
  BY <1>1, <1>2, SelectStep DEF Require
<1>3. CASE ~Select(work, p, reqs)
  <2> DEFINE e == Ask(p, reqs)
  <2>1. work' = Append(work, e) /\ UNCHANGED <<packages, unknown, prefer>>
    BY <1>3 DEF Require
  <2>2. e \in Request /\ e.what = "unknown"
    BY DEF Ask, Request
  <2> HIDE DEF e
  <2>3. /\ work' \in Seq(Request) /\ Len(work') = Len(work) + 1 /\ Len(work) \in Nat
        /\ DOMAIN work = 1 .. Len(work) /\ DOMAIN work' = 1 .. Len(work) + 1
        /\ (\A i \in 1 .. Len(work) : work'[i] = work[i]) /\ work'[Len(work) + 1] = e
    BY <1>1, <2>1, <2>2, WorkPushed
  <2>4. \A q : LoadsIn(work', q) = LoadsIn(work, q) /\ \A i \in LoadsIn(work, q) : work'[i] = work[i]
    BY <2>2, <2>3 DEF LoadsIn
  <2>5. TypeOK'
    BY <1>1, <2>1, <2>3 DEF IInv, TypeOK
  <2>6. Marked' /\ Finite'
    BY <2>1, <2>4 DEF IInv, Marked, Finite
  <2>7. Chosen'
    BY <2>2, <2>3 DEF IInv, Chosen
  <2> QED BY <2>5, <2>6, <2>7 DEF IInv
<1> QED BY <1>2, <1>3

(* A request is over: that of a load gives its marker back.                   *)
LEMMA PopStep ==
  ASSUME IInv, work # <<>>, work' = Front(work), UNCHANGED <<unknown, prefer>>, NEW good \in BOOLEAN,
         packages' = IF now.what = "load" THEN SelectFinal(now.of, good) ELSE packages
  PROVE  IInv'
<1> DEFINE n == Len(work)
           p == now.of
<1>1. /\ work' \in Seq(Request) /\ Len(work') = n - 1 /\ n \in Nat \ {0} /\ DOMAIN work = 1 .. n
      /\ DOMAIN work' = 1 .. n - 1 /\ \A i \in 1 .. n - 1 : work'[i] = work[i]
  BY WorkPopped DEF IInv, TypeOK
<1>2. now = work[n] /\ now \in Request
  BY WorkPopped DEF IInv, TypeOK, now
<1>3. n <= Limit /\ Limit \in Nat
  BY PackagesAssumption DEF IInv, TypeOK
<1>4. \A q : /\ LoadsIn(work', q) = LoadsIn(work, q) \ {n}
             /\ \A i \in LoadsIn(work', q) : work'[i] = work[i]
  BY <1>1 DEF LoadsIn
<1>5. Chosen'
  BY <1>1 DEF IInv, Chosen
<1>6. CASE now.what = "load"
  <2>1. p \in Names /\ n \in LoadsIn(work, p)
    BY <1>1, <1>2, <1>6, Requests DEF LoadsIn
  <2>2. packages \in [Names -> Package] /\ packages[p] \in Package
    BY <2>1 DEF IInv, TypeOK
  <2> DEFINE e == [packages[p] EXCEPT !.providing = None, !.version = IF good THEN @ ELSE None]
  <2>3. e \in Package /\ e.providing = None /\ e.avail = packages[p].avail
    BY <2>2 DEF Package
  <2>4. packages' = [packages EXCEPT ![p] = e]
    BY <1>6, <2>1, <2>2 DEF SelectFinal
  <2> HIDE DEF e
  <2>5. /\ packages' \in [Names -> Package] /\ packages'[p] = e
        /\ \A q \in Names \ {p} : packages'[q] = packages[q]
    BY <2>1, <2>2, <2>3, <2>4
  <2>6. TypeOK'
    BY <1>1, <1>3, <2>5 DEF IInv, TypeOK
  <2>7. Finite'
    BY <2>3, <2>5 DEF IInv, Finite
  <2>8. LoadsIn(work', p) = {}
    BY <1>4, <2>1 DEF IInv, Marked
  <2>9. \A q \in Names \ {p} : LoadsIn(work', q) = LoadsIn(work, q)
    BY <1>2, <1>4 DEF LoadsIn
  <2> HIDE DEF p, n
  <2>10. Marked'
    BY <1>4, <2>1, <2>3, <2>5, <2>8, <2>9 DEF IInv, Marked
  <2> QED BY <1>5, <2>6, <2>7, <2>10 DEF IInv
<1>7. CASE now.what # "load"
  <2>1. \A q : LoadsIn(work', q) = LoadsIn(work, q)
    BY <1>1, <1>2, <1>4, <1>7 DEF LoadsIn
  <2>2. TypeOK'
    BY <1>1, <1>3, <1>7 DEF IInv, TypeOK
  <2>3. Marked' /\ Finite'
    BY <1>4, <1>7, <2>1 DEF IInv, Marked, Finite
  <2> QED BY <1>5, <2>2, <2>3 DEF IInv
<1> QED BY <1>6, <1>7

LEMMA EndStep ==
  ASSUME IInv, Asked \/ Loaded \/ ScriptFails
  PROVE  IInv'
<1>1. work # <<>> /\ work \in Seq(Request) /\ now \in Request
  BY WorkPopped DEF IInv, TypeOK, Asked, Loaded, ScriptFails, now
<1>2. CASE Asked
  <2>1. CASE Select(Front(work), now.of, now.reqs)
    <3> DEFINE under == Front(work)
    <3>1. /\ under \in Seq(Request) /\ Len(under) = Len(work) - 1 /\ Len(work) \in Nat \ {0}
          /\ DOMAIN work = 1 .. Len(work) /\ DOMAIN under = 1 .. Len(work) - 1
          /\ (\A i \in 1 .. Len(work) - 1 : under[i] = work[i]) /\ now = work[Len(work)]
      BY <1>1, WorkPopped DEF now
    <3> HIDE DEF under
    <3>2. Len(under) < Limit
      BY <3>1, PackagesAssumption DEF IInv, TypeOK
    <3>3. \A i \in DOMAIN under : i \in DOMAIN work /\ under[i] = work[i]
      BY <3>1
    <3>4. \A i \in DOMAIN work : work[i].what = "load" => i \in DOMAIN under
      BY <1>2, <3>1 DEF Asked
    <3>5. Select(under, now.of, now.reqs) /\ UNCHANGED <<unknown, prefer>>
      BY <1>2, <2>1 DEF Asked, under
    <3> QED BY <1>1, <3>1, <3>2, <3>3, <3>4, <3>5, Requests, SelectStep
  <2>2. CASE work' = Front(work) /\ UNCHANGED packages
    BY <1>1, <1>2, <2>2, PopStep DEF Asked
  <2> QED BY <1>2, <2>1, <2>2 DEF Asked
<1>3. CASE Loaded
  <2>1. Promised(now.of, now.version) \in BOOLEAN
    BY DEF Promised
  <2> QED BY <1>1, <1>3, <2>1, PopStep DEF Loaded
<1>4. CASE ScriptFails
  BY <1>1, <1>4, PopStep DEF ScriptFails
<1> QED BY <1>2, <1>3, <1>4

LEMMA NextIInv ==
  ASSUME "forget" \notin Departures, IInv, [Next]_vars
  PROVE  IInv'
<1>1. ASSUME NEW p \in Names, NEW v \in Numbers, Provide(p, v) PROVE IInv'
  BY <1>1, ProvideStep
<1>2. ASSUME NEW p \in Names, NEW v \in Numbers, IfNeeded(p, v) PROVE IInv'
  BY <1>2, IfNeededStep
<1>3. ASSUME NEW p \in Names, Forget(p) PROVE IInv'
  BY <1>3, ForgetStep
<1>4. ASSUME NEW p \in Names, NEW reqs \in Requirements, Require(p, reqs) PROVE IInv'
  BY <1>4, RequireStep
<1> QED BY <1>1, <1>2, <1>3, <1>4, EndStep, FlagStep DEF Next
-----------------------------------------------------------------------------
(* As long as no package is forgotten while it is being loaded: a package is  *)
(* marked while, and only while, a script that is to load it runs, and only   *)
(* one does, with any requests nested in scripts and any of them failing.     *)
THEOREM OneLoadAtATime ==
  ASSUME "forget" \notin Departures
  PROVE  Spec => []MarkedWhileLoading
<1>1. ASSUME IInv PROVE MarkedWhileLoading
  <2>1. ASSUME NEW p \in Names PROVE Cardinality(LoadsIn(work, p)) <= 1
    <3>1. CASE LoadsIn(work, p) = {}
      BY <3>1, FS_EmptySet
    <3>2. CASE LoadsIn(work, p) # {}
      <4>1. PICK i \in LoadsIn(work, p) : LoadsIn(work, p) = {i}
        BY <1>1, <3>2 DEF IInv, Marked
      <4>2. Cardinality({i}) = 1
        BY FS_Singleton
      <4> QED BY <4>1, <4>2
    <3> QED BY <3>1, <3>2
  <2> QED BY <1>1, <2>1 DEF IInv, Marked, LoadsIn, MarkedWhileLoading
<1>2. IInv => MarkedWhileLoading
  BY <1>1
<1>3. IInv /\ [Next]_vars => IInv'
  BY NextIInv
<1> QED BY <1>2, <1>3, InitIInv, PTL DEF Spec

(* Under the same condition: what was provided stays while its package is not *)
(* being loaded, but for `package forget`, which takes the whole entry.       *)
LEMMA StandsStep ==
  ASSUME IInv, [Next]_vars, NEW p \in Names, Provided(p), packages[p].providing = None
  PROVE  packages'[p].version = packages[p].version \/ packages'[p] = Absent
<1>1. packages \in [Names -> Package]
  BY DEF IInv, TypeOK
<1>2. ASSUME NEW q \in Names, NEW v \in Numbers, Provide(q, v) \/ IfNeeded(q, v)
      PROVE  packages'[p].version = packages[p].version
  <2>1. CASE Provide(q, v)
    BY <1>1, <2>1 DEF Provide, provide, Provided
  <2>2. CASE IfNeeded(q, v)
    <3>1. [packages[p] EXCEPT !.avail = @ \cup {v}].version = packages[p].version
      BY <1>1 DEF Package
    <3>2. packages'[p] \in {packages[p], [packages[p] EXCEPT !.avail = @ \cup {v}]}
      BY <1>1, <2>2 DEF IfNeeded
    <3> QED BY <3>1, <3>2
  <2> QED BY <1>2, <2>1, <2>2
<1>3. ASSUME NEW q \in Names, Forget(q)
      PROVE  packages'[p].version = packages[p].version \/ packages'[p] = Absent
  BY <1>1, <1>3 DEF Forget
<1>4. ASSUME NEW under, NEW q, NEW reqs, Select(under, q, reqs)
      PROVE  packages'[p].version = packages[p].version
  <2>1. \A x \in Package : \A v : [x EXCEPT !.providing = v].version = x.version
    BY DEF Package
  <2> QED BY <1>1, <1>4, <2>1 DEF Select
<1>5. ASSUME NEW q \in Names, NEW reqs \in Requirements, Require(q, reqs)
      PROVE  packages'[p].version = packages[p].version
  BY <1>4, <1>5 DEF Require
<1>6. CASE Asked
  BY <1>4, <1>6 DEF Asked
<1>7. CASE Loaded \/ ScriptFails
  <2>0. work # <<>> /\ work \in Seq(Request)
    BY <1>7 DEF IInv, TypeOK, Loaded, ScriptFails
  <2>1. Last(work) = work[Len(work)] /\ Len(work) \in DOMAIN work /\ now \in Request
    BY <2>0, WorkPopped DEF now
  <2>2. now.what = "load" => now.of # p
    BY <2>1, Requests DEF IInv, Marked, LoadsIn, now
  <2>3. now.what = "load" => \A good \in BOOLEAN : SelectFinal(now.of, good)[p] = packages[p]
    BY <1>1, <2>2 DEF SelectFinal
  <2>4. Promised(now.of, now.version) \in BOOLEAN
    BY DEF Promised
  <2> QED BY <1>7, <2>3, <2>4 DEF Loaded, ScriptFails
<1>8. CASE Prefer \/ (\E there \in BOOLEAN : Unknown(there)) \/ UNCHANGED vars
  BY <1>8 DEF Prefer, Unknown, vars
<1> QED BY <1>2, <1>3, <1>5, <1>6, <1>7, <1>8 DEF Next

(* And: a version that was provided, and whose loading is over, is not        *)
(* replaced, and goes only with all that is known of the package.             *)
THEOREM ProvidedStands ==
  ASSUME "forget" \notin Departures
  PROVE  Spec => VersionsStand
<1>1. IInv /\ [Next]_vars => [Stands]_vars
  BY StandsStep DEF Stands
<1>2. IInv /\ [Next]_vars => IInv'
  BY NextIInv
<1> QED BY <1>1, <1>2, InitIInv, PTL DEF Spec, VersionsStand

(* What loads is the best there is.                                           *)
LEMMA NotBelow ==
  ASSUME NEW u \in Version, NEW v \in Version, compare_versions(v, u) <= 0
  PROVE  ~Below(u, v)
<1> SUFFICES ASSUME Below(u, v) PROVE FALSE
  OBVIOUS
<1>1. PICK i \in 1 .. 8 : Wide(u)[i] < Wide(v)[i] /\ \A j \in 1 .. (i - 1) : Wide(u)[j] = Wide(v)[j]
  BY DEF Below
<1>2. Piece(u, i) < Piece(v, i) /\ \A j \in 1 .. i - 1 : j \in 1 .. 8 /\ Piece(u, j) = Piece(v, j)
  BY <1>1 DEF Wide
<1>3. Lower(u, v)
  BY <1>2 DEF Lower, Places
<1> QED BY <1>3, Compared

LEMMA SelectsTheBest ==
  ASSUME IInv, NEW p \in Names, NEW reqs \in Requirements, NEW v \in best_available(p, reqs)
  PROVE  LET meets  == {x \in packages[p].avail : Satisfies(x, reqs)}
             stable == {x \in meets : Stable(x)}
             among  == IF prefer = "stable" /\ stable # {} THEN stable ELSE meets
         IN  v \in among /\ \A w \in among : ~Below(v, w)
<1> DEFINE meets  == {x \in packages[p].avail : Satisfies(x, reqs)}
           stable == {x \in meets : Stable(x)}
           among  == IF prefer = "stable" /\ stable # {} THEN stable ELSE meets
<1>1. packages[p].avail \subseteq Version /\ IsFiniteSet(packages[p].avail)
  BY PackagesAssumption DEF IInv, TypeOK, Finite, Package, Version
<1>2. stable \in SUBSET Version /\ IsFiniteSet(stable) /\ among \subseteq Version
  BY <1>1, FS_Subset
<1>3. Meeting(p, reqs) = meets
  BY DEF Meeting
<1> HIDE DEF meets, stable
<1>4. stable # {} => Best(stable) # {}
  BY <1>2, BestExists
<1>5. best_available(p, reqs) = Best(among)
  <2>1. best_available(p, reqs) = IF prefer = "stable" /\ Best(stable) # {} THEN Best(stable) ELSE Best(meets)
    BY <1>3 DEF best_available, stable
  <2>2. stable = {} => Best(stable) = {}
    BY DEF Best
  <2> QED BY <1>4, <2>1, <2>2
<1> HIDE DEF among
<1>6. v \in among /\ \A w \in among : compare_versions(w, v) <= 0
  BY <1>5 DEF Best
<1>7. \A w \in among : ~Below(v, w)
  BY <1>2, <1>6, NotBelow
<1> QED BY <1>6, <1>7 DEF among, stable, meets

LEMMA BestStep ==
  ASSUME IInv, [Next]_vars, Begun
  PROVE  LET meets  == {v \in packages[now'.of].avail : Satisfies(v, now'.reqs)}
             stable == {v \in meets : Stable(v)}
             among  == IF prefer = "stable" /\ stable # {} THEN stable ELSE meets
         IN  now'.version \in among /\ \A v \in among : ~Below(now'.version, v)
<1>1. ASSUME NEW under \in Seq(Request), NEW p \in Names, NEW reqs \in Requirements, Select(under, p, reqs)
      PROVE  \E v \in best_available(p, reqs) : now'.of = p /\ now'.reqs = reqs /\ now'.version = v
  <2>1. PICK v \in best_available(p, reqs) : work' = Append(under, Load(p, reqs, v))
    BY <1>1 DEF Select
  <2>2. now' = Load(p, reqs, v)
    BY <2>1 DEF now, Last
  <2> QED BY <2>2 DEF Load
<1>2. ASSUME NEW under \in Seq(Request), NEW p \in Names, NEW reqs \in Requirements, Select(under, p, reqs)
      PROVE  LET meets  == {v \in packages[now'.of].avail : Satisfies(v, now'.reqs)}
                 stable == {v \in meets : Stable(v)}
                 among  == IF prefer = "stable" /\ stable # {} THEN stable ELSE meets
             IN  now'.version \in among /\ \A v \in among : ~Below(now'.version, v)
  BY <1>1, <1>2, SelectsTheBest
<1>3. work \in Seq(Request)
  BY DEF IInv, TypeOK
<1>4. work # <<>> => now \in Request /\ Front(work) \in Seq(Request) /\ Len(Front(work)) < Len(work)
  BY <1>3, WorkPopped DEF now
<1>5. work' # work /\ now'.what = "load" /\ (work # <<>> => work' # Front(work))
  BY <1>4 DEF Begun
<1>6. ASSUME NEW p \in Names, NEW reqs \in Requirements, Require(p, reqs), ~Select(work, p, reqs) PROVE FALSE
  <2>1. work' = Append(work, Ask(p, reqs))
    BY <1>6 DEF Require
  <2>2. now' = Ask(p, reqs)
    BY <1>3, <2>1 DEF now, Last
  <2> QED BY <1>5, <2>2 DEF Ask
<1>7. ~(Loaded \/ ScriptFails \/ UNCHANGED vars \/ Prefer \/ \E there \in BOOLEAN : Unknown(there))
  BY <1>5 DEF Loaded, ScriptFails, vars, Prefer, Unknown
<1>8. \A p \in Names, v \in Numbers : ~(Provide(p, v) \/ IfNeeded(p, v) \/ Forget(p))
  BY <1>5 DEF Provide, IfNeeded, Forget
<1>9. Asked => now \in Request /\ Front(work) \in Seq(Request) /\ Select(Front(work), now.of, now.reqs)
  BY <1>4, <1>5 DEF Asked
<1>10. CASE Asked
  BY <1>2, <1>9, <1>10, Requests
<1>11. CASE \E p \in Names, reqs \in Requirements : Require(p, reqs)
  BY <1>2, <1>3, <1>6, <1>11
<1>12. ~\E p \in Names : Forget(p)
  BY <1>5 DEF Forget
<1> QED BY <1>7, <1>8, <1>10, <1>11, <1>12 DEF Next

(* And: a load is for a version that none available is above which meets the  *)
(* requirements, of those as stable as was preferred, whatever the versions   *)
(* and however many; and if it provides that version in any spelling, what it *)
(* provides meets them as well.                                               *)
THEOREM BestIsLoaded ==
  ASSUME "forget" \notin Departures
  PROVE  Spec => LoadsTheBest
<1>1. ASSUME IInv PROVE MeetsWhatWasAsked
  <2> SUFFICES ASSUME NEW i \in DOMAIN work, work[i].what = "load", Promised(work[i].of, work[i].version)
               PROVE  Satisfies(packages[work[i].of].version, work[i].reqs)
    BY DEF MeetsWhatWasAsked
  <2> DEFINE e == work[i]
             v == packages[e.of].version
  <2>1. e \in Request
    BY <1>1 DEF IInv, TypeOK
  <2>2. e.of \in Names /\ e.version \in Version /\ e.reqs \in SUBSET Requirement
    BY <2>1, Requests, PackagesAssumption DEF Version
  <2>3. v \in Version /\ compare_versions(v, e.version) = 0
    BY <1>1, <2>2, PackagesAssumption DEF IInv, TypeOK, Package, Promised, Provided, Version
  <2>4. Satisfies(e.version, e.reqs)
    BY <1>1 DEF IInv, Chosen
  <2> QED BY <2>2, <2>3, <2>4, AlikeSatisfyAlike
<1>2. IInv => MeetsWhatWasAsked
  BY <1>1
<1>3. IInv /\ [Next]_vars => [IsTheBest]_vars
  BY BestStep DEF IsTheBest
<1>4. IInv /\ [Next]_vars => IInv'
  BY NextIInv
<1> QED BY <1>2, <1>3, <1>4, InitIInv, PTL DEF Spec, LoadsTheBest
=================================================================================
