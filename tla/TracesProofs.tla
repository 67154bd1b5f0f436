---------------------------- MODULE TracesProofs ----------------------------
(***************************************************************************)
(* Proofs about Traces, for any variables, commands, operation lists,      *)
(* recursion limit and bounds, however deep callbacks nest.                *)
(***************************************************************************)
EXTENDS Traces, SequenceTheorems, FiniteSetTheorems, TLAPS

(* How many traces match is a number, as there are finitely many to add.      *)
LEMMA ThreeAreFinite ==
  ASSUME NEW x, NEW y, NEW z
  PROVE  IsFiniteSet({x, y, z})
<1>1. IsFiniteSet({x}) /\ IsFiniteSet({x} \cup {y}) /\ IsFiniteSet(({x} \cup {y}) \cup {z})
  BY FS_Singleton, FS_AddElement
<1>2. ({x} \cup {y}) \cup {z} = {x, y, z}
  OBVIOUS
<1> QED BY <1>1, <1>2

LEMMA TracesFinite == IsFiniteSet(NewTraces)
<1> DEFINE kinds == {"variable", "command", "execution"}
           names == Variables \cup Commands
           ops   == SUBSET (VARIABLE_OPS \cup COMMAND_OPS \cup EXECUTION_OPS)
           f     == [t \in NewTraces |-> <<t.kind, <<t.name, t.ops>>>>]
<1>1. IsFiniteSet(kinds)
  BY ThreeAreFinite
<1>2. IsFiniteSet(names)
  BY TracesAssumption, FS_Union
<1>3. IsFiniteSet(ops)
  <2>1. IsFiniteSet(VARIABLE_OPS) /\ IsFiniteSet(COMMAND_OPS) /\ IsFiniteSet(EXECUTION_OPS)
    <3>1. /\ {"delete", "rename"} = {"delete", "rename", "rename"}
          /\ {"enter", "leave"} = {"enter", "leave", "leave"}
      OBVIOUS
    <3> QED BY <3>1, ThreeAreFinite DEF VARIABLE_OPS, COMMAND_OPS, EXECUTION_OPS
  <2> QED BY <2>1, FS_Union, FS_SUBSET
<1>4. IsFiniteSet(kinds \X (names \X ops))
  BY <1>1, <1>2, <1>3, FS_Product
<1>5. f \in Injection(NewTraces, kinds \X (names \X ops))
  BY DEF Injection, IsInjective, NewTraces, Trace
<1> QED BY <1>4, <1>5, FS_Injection

LEMMA Counted ==
  ASSUME NEW kind, NEW name, NEW op
  PROVE  Matching(kind, name, op) \in Nat
<1> DEFINE some   == {t \in NewTraces : t.kind = kind /\ t.name = name /\ op \in t.ops}
           copies == {c \in some \X (1 .. MaxTraces) : c[2] <= traces[c[1]]}
<1>1. IsFiniteSet(NewTraces) /\ IsFiniteSet(1 .. MaxTraces)
  BY TracesFinite, FS_Interval, TracesAssumption
<1>2. IsFiniteSet(some)
  BY <1>1, FS_Subset
<1>3. IsFiniteSet(some \X (1 .. MaxTraces))
  BY <1>1, <1>2, FS_Product
<1>4. IsFiniteSet(copies)
  BY <1>3, FS_Subset
<1> HIDE DEF copies
<1>5. Cardinality(copies) \in Nat
  BY <1>4, FS_CardinalityType
<1> QED BY <1>5 DEF Matching, HowMany, copies

-----------------------------------------------------------------------------
(* The stack of what is under way: a script at the bottom, every other one    *)
(* under a list or a call, and as many as the recursion limit lets run.       *)
StackOK ==
  /\ work \in Seq(Entry) /\ work # <<>> /\ work[1] = Script
  /\ \A i \in DOMAIN work : i > 1 /\ work[i].what = "script" => work[i - 1].what # "script"
  /\ Evals <= Limit + 1

Scripts == {i \in DOMAIN work : work[i].what = "script"}

LEMMA StackTop ==
  ASSUME StackOK
  PROVE  /\ Len(work) \in Nat \ {0} /\ DOMAIN work = 1 .. Len(work)
         /\ now = work[Len(work)]
         /\ now.what # "script" => Len(work) > 1
         /\ Inner => Len(work) > 2 /\ Under = work[Len(work) - 1] /\ Under.what # "script"
<1>1. Len(work) \in Nat \ {0} /\ DOMAIN work = 1 .. Len(work)
  BY DEF StackOK
<1>2. now = work[Len(work)]
  BY DEF now, Last
<1>3. now.what # "script" => Len(work) > 1
  BY <1>1, <1>2 DEF StackOK, Script
<1>4. Inner => work[Len(work) - 1].what # "script"
  BY <1>1, <1>2 DEF StackOK, Inner, Scripting
<1>5. Inner => Len(work) > 2
  BY <1>1, <1>4 DEF StackOK, Inner, Script
<1> QED BY <1>1, <1>2, <1>3, <1>4, <1>5 DEF Under

LEMMA ScriptCount ==
  ASSUME StackOK
  PROVE  IsFiniteSet(Scripts) /\ Evals = Cardinality(Scripts) /\ Evals \in 1 .. Limit + 1
<1>1. Scripts \subseteq 1 .. Len(work) /\ Len(work) \in Nat /\ 1 \in Scripts
  BY StackTop DEF Scripts, StackOK, Script
<1>2. IsFiniteSet(Scripts)
  <2>1. IsFiniteSet(1 .. Len(work))
    BY <1>1, FS_Interval
  <2> QED BY <1>1, <2>1, FS_Subset
<1>3. Cardinality(Scripts) \in Nat /\ Cardinality(Scripts) # 0
  BY <1>1, <1>2, FS_CardinalityType, FS_EmptySet
<1>4. Evals = Cardinality(Scripts)
  BY DEF Evals, Scripts
<1> QED BY <1>2, <1>3, <1>4, TracesAssumption DEF StackOK

(* What a step leaves of the stack, up to k, and what it puts above: lists    *)
(* and calls, then perhaps a script.                                          *)
LEMMA StackKept ==
  ASSUME StackOK, NEW k \in 1 .. Len(work), work' \in Seq(Entry), NEW m \in Nat, m >= k, Len(work') = m,
         DOMAIN work' = 1 .. m, \A i \in 1 .. k : work'[i] = work[i],
         \/ \A i \in k + 1 .. m : work'[i].what # "script"
         \/ /\ HasLevel /\ m > k /\ work'[m - 1].what # "script"
            /\ \A i \in k + 1 .. m - 1 : work'[i].what # "script"
  PROVE  StackOK'
<1>1. Len(work) \in Nat \ {0} /\ DOMAIN work = 1 .. Len(work)
  BY StackTop
<1>2. work' # <<>> /\ work'[1] = Script
  BY <1>1 DEF StackOK
<1>3. \A i \in DOMAIN work' : i > 1 /\ work'[i].what = "script" => work'[i - 1].what # "script"
  <2> SUFFICES ASSUME NEW i \in 2 .. m, work'[i].what = "script"
               PROVE  work'[i - 1].what # "script"
    OBVIOUS
  <2>1. CASE i \in 2 .. k
    <3>1. i \in Int /\ i > 1 /\ i \in 1 .. k /\ i - 1 \in 1 .. k /\ i \in DOMAIN work
      BY <1>1, <2>1
    <3>2. work[i].what = "script"
      BY <3>1
    <3>3. work[i - 1].what # "script"
      BY <3>1, <3>2 DEF StackOK
    <3> QED BY <3>1, <3>3
  <2>2. CASE i \in k + 1 .. m
    <3>1. ~(\A j \in k + 1 .. m : work'[j].what # "script")
      BY <2>2
    <3>2. /\ work'[m - 1].what # "script"
          /\ \A j \in k + 1 .. m - 1 : work'[j].what # "script"
      BY <3>1
    <3>3. i \in Int /\ k \in Int /\ i > k /\ i <= m
      BY <1>1, <2>2
    <3>4. i \notin k + 1 .. m - 1
      BY <3>2
    <3>5. i = m
      BY <3>3, <3>4
    <3> QED BY <3>2, <3>5
  <2> QED BY <1>1, <2>1, <2>2
<1>4. Evals' <= Limit + 1
  <2>1. IsFiniteSet(Scripts) /\ Evals = Cardinality(Scripts) /\ Evals \in 1 .. Limit + 1
    BY ScriptCount
  <2>2. Evals' = Cardinality(Scripts')
    BY DEF Evals, Scripts
  <2>3. CASE Scripts' \subseteq Scripts
    <3>1. Cardinality(Scripts') <= Cardinality(Scripts) /\ Cardinality(Scripts') \in Nat
      BY <2>1, <2>3, FS_Subset, FS_CardinalityType
    <3> QED BY <2>1, <2>2, <3>1, TracesAssumption
  <2>4. CASE HasLevel /\ Scripts' \subseteq Scripts \cup {m}
    <3>1. /\ IsFiniteSet(Scripts \cup {m})
          /\ Cardinality(Scripts \cup {m}) <= Cardinality(Scripts) + 1
      <4>1. Cardinality(Scripts) \in Nat
        BY <2>1
      <4>2. /\ IsFiniteSet(Scripts \cup {m})
            /\ Cardinality(Scripts \cup {m}) =
                 IF m \in Scripts THEN Cardinality(Scripts) ELSE Cardinality(Scripts) + 1
        BY <2>1, FS_AddElement
      <4> QED BY <4>1, <4>2
    <3>2. Cardinality(Scripts') <= Cardinality(Scripts \cup {m}) /\ Cardinality(Scripts') \in Nat
      BY <2>4, <3>1, FS_Subset, FS_CardinalityType
    <3>3. Cardinality(Scripts \cup {m}) \in Nat
      BY <3>1, FS_CardinalityType
    <3> QED BY <2>1, <2>2, <2>4, <3>1, <3>2, <3>3, TracesAssumption DEF HasLevel
  <2> QED BY <1>1, <2>3, <2>4 DEF Scripts
<1> QED BY <1>2, <1>3, <1>4 DEF StackOK

-----------------------------------------------------------------------------
(* What the steps do to the stack: it is kept up to k and is m high then.     *)
Kept(k, m) ==
  /\ k \in 1 .. Len(work) /\ m \in Nat /\ m >= k
  /\ work' \in Seq(Entry) /\ Len(work') = m /\ DOMAIN work' = 1 .. m
  /\ \A i \in 1 .. k : work'[i] = work[i]

LEMMA Cut ==
  ASSUME NEW s \in Seq(Entry), NEW k \in 0 .. Len(s)
  PROVE  LET t == SubSeq(s, 1, k)
         IN  /\ t \in Seq(Entry) /\ Len(t) = k /\ DOMAIN t = 1 .. k
             /\ \A i \in 1 .. k : t[i] = s[i]
OBVIOUS

LEMMA CutAndOne ==
  ASSUME NEW s \in Seq(Entry), NEW k \in 0 .. Len(s), NEW e \in Entry
  PROVE  LET t == Append(SubSeq(s, 1, k), e)
         IN  /\ t \in Seq(Entry) /\ Len(t) = k + 1 /\ DOMAIN t = 1 .. k + 1
             /\ \A i \in 1 .. k : t[i] = s[i]
             /\ t[k + 1] = e
<1> DEFINE c == SubSeq(s, 1, k)
<1>1. c \in Seq(Entry) /\ Len(c) = k /\ \A i \in 1 .. k : c[i] = s[i]
  BY Cut
<1> HIDE DEF c
<1>2. LET t == Append(c, e)
      IN  t \in Seq(Entry) /\ Len(t) = k + 1 /\ DOMAIN t = 1 .. k + 1 /\ (\A i \in 1 .. k : t[i] = s[i]) /\ t[k + 1] = e
  BY <1>1
<1> QED BY <1>2 DEF c

LEMMA CutAndTwo ==
  ASSUME NEW s \in Seq(Entry), NEW k \in 0 .. Len(s), NEW e \in Entry, NEW f \in Entry
  PROVE  LET t == Append(Append(SubSeq(s, 1, k), e), f)
         IN  /\ t \in Seq(Entry) /\ Len(t) = k + 2 /\ DOMAIN t = 1 .. k + 2
             /\ \A i \in 1 .. k : t[i] = s[i]
             /\ t[k + 1] = e /\ t[k + 2] = f
<1> DEFINE c == Append(SubSeq(s, 1, k), e)
<1>1. c \in Seq(Entry) /\ Len(c) = k + 1 /\ (\A i \in 1 .. k : c[i] = s[i]) /\ c[k + 1] = e
  BY CutAndOne
<1> HIDE DEF c
<1>2. LET t == Append(c, f)
      IN  t \in Seq(Entry) /\ Len(t) = k + 2 /\ DOMAIN t = 1 .. k + 2 /\ (\A i \in 1 .. k + 1 : t[i] = c[i]) /\ t[k + 2] = f
  BY <1>1
<1>3. LET t == Append(c, f) IN t[k + 1] = e /\ \A i \in 1 .. k : t[i] = s[i]
  BY <1>1, <1>2
<1> QED BY <1>2, <1>3 DEF c

LEMMA Push ==
  ASSUME StackOK, NEW e \in Entry, work' = Append(work, e)
  PROVE  Kept(Len(work), Len(work) + 1) /\ work'[Len(work) + 1] = e
<1>1. work \in Seq(Entry) /\ Len(work) \in Nat \ {0}
  BY StackTop DEF StackOK
<1> QED BY <1>1 DEF Kept

LEMMA Pop ==
  ASSUME StackOK, Len(work) > 1, work' = Front(work)
  PROVE  Kept(Len(work) - 1, Len(work) - 1)
<1>1. work \in Seq(Entry) /\ Len(work) - 1 \in 1 .. Len(work) /\ Len(work) - 1 \in 0 .. Len(work) /\ Len(work) - 1 \in Nat
  BY StackTop DEF StackOK
<1>2. work' = SubSeq(work, 1, Len(work) - 1)
  BY DEF Front
<1> QED BY <1>1, <1>2, Cut DEF Kept

LEMMA Replace ==
  ASSUME StackOK, NEW n \in 1 .. 2, Len(work) > n, NEW e \in Entry,
         work' = Append(SubSeq(work, 1, Len(work) - n), e)
  PROVE  Kept(Len(work) - n, Len(work) - n + 1) /\ work'[Len(work) - n + 1] = e
<1> DEFINE k == Len(work) - n
<1>1. k \in Nat /\ k \in 1 .. Len(work) /\ k \in 0 .. Len(work)
  BY StackTop
<1>2. work \in Seq(Entry) /\ work' = Append(SubSeq(work, 1, k), e)
  BY DEF StackOK
<1> HIDE DEF k
<1>3. Kept(k, k + 1) /\ work'[k + 1] = e
  BY <1>1, <1>2, CutAndOne DEF Kept
<1> QED BY <1>3 DEF k

LEMMA ReplaceByTwo ==
  ASSUME StackOK, Len(work) > 1, NEW e \in Entry, NEW f \in Entry, work' = Append(Append(Front(work), e), f)
  PROVE  /\ Kept(Len(work) - 1, Len(work) + 1)
         /\ work'[Len(work)] = e /\ work'[Len(work) + 1] = f
<1> DEFINE k == Len(work) - 1
<1>1. /\ k \in Nat /\ k \in 1 .. Len(work) /\ k \in 0 .. Len(work)
      /\ k + 1 = Len(work) /\ k + 2 = Len(work) + 1
  BY StackTop
<1>2. work \in Seq(Entry) /\ work' = Append(Append(SubSeq(work, 1, k), e), f)
  BY DEF StackOK, Front
<1> HIDE DEF k
<1>3. Kept(k, k + 2) /\ work'[k + 1] = e /\ work'[k + 2] = f
  BY <1>1, <1>2, CutAndTwo DEF Kept
<1> QED BY <1>1, <1>3 DEF k

LEMMA PopTwo ==
  ASSUME StackOK, Len(work) > 2, work' = Front(Front(work))
  PROVE  Kept(Len(work) - 2, Len(work) - 2)
<1> DEFINE k == Len(work) - 2
           t == SubSeq(work, 1, k + 1)
<1>1. /\ k \in Nat /\ k \in 1 .. Len(work) /\ k \in 0 .. k + 1
      /\ k + 1 = Len(work) - 1 /\ k + 1 \in 0 .. Len(work) /\ k + 1 - 1 = k
  BY StackTop
<1>2. work \in Seq(Entry) /\ Front(work) = t
  BY <1>1 DEF StackOK, Front
<1> HIDE DEF k
<1>3. t \in Seq(Entry) /\ Len(t) = k + 1 /\ \A i \in 1 .. k + 1 : t[i] = work[i]
  BY <1>1, <1>2, Cut
<1> HIDE DEF t
<1>4. work' = SubSeq(t, 1, k)
  BY <1>1, <1>2, <1>3 DEF Front
<1>5. Kept(k, k)
  BY <1>1, <1>3, <1>4, Cut DEF Kept
<1> QED BY <1>5 DEF k

-----------------------------------------------------------------------------
(* The callbacks under way are those `active` tells of, each once.            *)
Spelt(s) == s \in Spelling /\ (s.qualified => "qualified" \in Departures)

EntriesOK == \A i \in DOMAIN work : work[i].what = "fire" => Spelt(work[i].name)

Fired ==
  /\ \A i, j \in Firing : work[i].name = work[j].name => i = j
  /\ active = {work[i].name : i \in Firing}

(* A `rename` needs a level to run; its events have the level then (unless    *)
(* "failure" lets them go without).                                           *)
Below(i) == {j \in 1 .. i : work[j].what = "script"}
EventsAllowed ==
  "failure" \notin Departures =>
    \A i \in DOMAIN work : work[i].what = "events" => Cardinality(Below(i)) <= Limit

Running == StackOK /\ EntriesOK /\ Fired /\ EventsAllowed

(* Someone is there to run the events.                                        *)
Waits == \E i \in DOMAIN work : work[i].what = "events"
Lasts == Waits => Waits'

(* A step that puts lists above k, then perhaps a script.                     *)
OneScript(k, m) ==
  \/ \A i \in k + 1 .. m : work'[i].what # "script"
  \/ /\ HasLevel /\ m > k /\ work'[m - 1].what # "script"
     /\ \A i \in k + 1 .. m - 1 : work'[i].what # "script"

LEMMA OneScriptKeepsStack ==
  ASSUME StackOK, NEW k, NEW m, Kept(k, m), OneScript(k, m)
  PROVE  StackOK'
BY StackKept DEF Kept, OneScript

LEMMA EventsKept ==
  ASSUME Running, NEW k, NEW m, Kept(k, m)
  PROVE  /\ (\A i \in k + 1 .. m : work'[i].what # "events") => EventsAllowed'
         /\ (\A i \in k + 1 .. Len(work) : work[i].what # "events") => Lasts
<1>1. Len(work) \in Nat /\ DOMAIN work = 1 .. Len(work) /\ k \in 1 .. Len(work) /\ m \in Nat /\ m >= k
      /\ DOMAIN work' = 1 .. m /\ \A i \in 1 .. k : work'[i] = work[i]
  BY StackTop DEF Running, Kept
<1>2. \A i \in 1 .. k : Below(i)' = Below(i)
  BY <1>1 DEF Below
<1>3. ASSUME \A i \in k + 1 .. m : work'[i].what # "events" PROVE EventsAllowed'
  BY <1>1, <1>2, <1>3 DEF Running, EventsAllowed
<1>4. ASSUME \A i \in k + 1 .. Len(work) : work[i].what # "events" PROVE Lasts
  BY <1>1, <1>4 DEF Waits, Lasts
<1> QED BY <1>3, <1>4

LEMMA FiredKept ==
  ASSUME Fired, active' = active, Firing' = Firing, \A i \in Firing : work'[i] = work[i]
  PROVE  Fired'
BY DEF Fired

LEMMA QuietStep ==
  ASSUME Running, NEW k, NEW m, Kept(k, m), OneScript(k, m), active' = active,
         \A i \in k + 1 .. Len(work) : work[i].what # "fire",
         \A i \in k + 1 .. m : work'[i].what \notin {"fire", "events"}
  PROVE  Running' /\ ((\A i \in k + 1 .. Len(work) : work[i].what # "events") => Lasts)
<1>1. StackOK'
  BY OneScriptKeepsStack DEF Running
<1>2. Len(work) \in Nat /\ DOMAIN work = 1 .. Len(work) /\ k \in 1 .. Len(work) /\ m \in Nat /\ m >= k
      /\ DOMAIN work' = 1 .. m /\ \A i \in 1 .. k : work'[i] = work[i]
  BY StackTop DEF Running, Kept
<1>3. EntriesOK'
  BY <1>2 DEF Running, EntriesOK, Spelt
<1>4. Firing' = Firing /\ \A i \in Firing : work'[i] = work[i]
  BY <1>2 DEF Firing
<1>5. Fired'
  BY <1>4, FiredKept DEF Running
<1> QED BY <1>1, <1>3, <1>5, EventsKept DEF Running

LEMMA FireStarts ==
  ASSUME Running, NEW s, Spelt(s), s \notin active, active' = active \cup {s},
         NEW n, n = Len(work), Kept(n, n + 1), NEW e, work'[n + 1] = e,
         e.what = "fire", e.name = s
  PROVE  Running' /\ Lasts
<1>1. n \in Nat /\ DOMAIN work = 1 .. n /\ DOMAIN work' = 1 .. n + 1
      /\ \A i \in 1 .. n : work'[i] = work[i]
  BY StackTop DEF Running, Kept
<1>2. StackOK'
  BY <1>1, OneScriptKeepsStack DEF Running, OneScript
<1>3. EntriesOK'
  BY <1>1 DEF Running, EntriesOK, Spelt
<1>4. Firing' = Firing \cup {n + 1} /\ n + 1 \notin Firing
      /\ \A i \in Firing : work'[i] = work[i]
  BY <1>1 DEF Firing
<1>5. /\ \A i, j \in Firing : work[i].name = work[j].name => i = j
      /\ active = {work[i].name : i \in Firing}
  BY DEF Running, Fired
<1>6. Fired'
  <2>1. \A i \in Firing : work[i].name \in active
    BY <1>5
  <2>2. \A i, j \in Firing' : work'[i].name = work'[j].name => i = j
    BY <1>4, <1>5, <2>1
  <2>3. active' = {work'[i].name : i \in Firing'}
    BY <1>4, <1>5
  <2> QED BY <2>2, <2>3 DEF Fired
<1>7. EventsAllowed' /\ Lasts
  <2>1. \A i \in n + 1 .. n : FALSE
    BY <1>1
  <2>2. \A i \in n + 1 .. n + 1 : work'[i].what # "events"
    BY <1>1
  <2>3. \A i \in n + 1 .. Len(work) : work[i].what # "events"
    BY <2>1
  <2> QED BY <2>2, <2>3, EventsKept
<1> QED BY <1>2, <1>3, <1>6, <1>7 DEF Running

(* (The next callback of a list.)                                             *)
LEMMA ListGoesOn ==
  ASSUME Running, HasLevel, active' = active,
         NEW n \in Nat, n = Len(work), n > 1, Kept(n - 1, n + 1), NEW list, work'[n] = list, work'[n + 1] = Script,
         now.what \notin {"script", "events"}, list.what = now.what,
         now.what = "fire" => list.name = now.name
  PROVE  Running' /\ Lasts
<1>1. DOMAIN work = 1 .. n /\ now = work[n] /\ DOMAIN work' = 1 .. n + 1
      /\ \A i \in 1 .. n - 1 : work'[i] = work[i]
  BY StackTop DEF Running, Kept
<1>2. Script.what = "script"
  BY DEF Script
<1>3. OneScript(n - 1, n + 1)
  <2>1. n + 1 - 1 = n /\ n + 1 > n - 1 /\ \A i \in n - 1 + 1 .. n + 1 - 1 : i = n
    OBVIOUS
  <2> QED BY <2>1 DEF OneScript
<1>4. StackOK'
  BY <1>3, OneScriptKeepsStack DEF Running
<1>5. EntriesOK'
  BY <1>1, <1>2 DEF Running, EntriesOK, Spelt
<1>6. Firing' = Firing /\ \A i \in Firing : work'[i].name = work[i].name
  BY <1>1, <1>2 DEF Firing
<1>7. Fired'
  BY <1>6 DEF Running, Fired
<1>8. EventsAllowed' /\ Lasts
  <2>1. \A i \in n - 1 + 1 .. n + 1 : i = n \/ i = n + 1
    OBVIOUS
  <2>2. \A i \in n - 1 + 1 .. n + 1 : work'[i].what # "events"
    BY <1>2, <2>1
  <2>3. \A i \in n - 1 + 1 .. Len(work) : work[i].what # "events"
    BY <1>1
  <2> QED BY <2>2, <2>3, EventsKept
<1> QED BY <1>4, <1>5, <1>7, <1>8 DEF Running

LEMMA FireEnds ==
  ASSUME Running, NEW k, Kept(k, k), NEW i \in DOMAIN work, i = k + 1, work[i].what = "fire",
         \A j \in i + 1 .. Len(work) : work[j].what # "fire", active' = active \ {work[i].name}
  PROVE  Running' /\ ((\A j \in i + 1 .. Len(work) : work[j].what # "events") => Lasts)
<1>1. Len(work) \in Nat /\ DOMAIN work = 1 .. Len(work) /\ k \in 1 .. Len(work)
      /\ DOMAIN work' = 1 .. k /\ \A j \in 1 .. k : work'[j] = work[j]
  BY StackTop DEF Running, Kept
<1>2. StackOK'
  BY <1>1, OneScriptKeepsStack DEF Running, OneScript
<1>3. EntriesOK'
  BY <1>1 DEF Running, EntriesOK, Spelt
<1>4. Firing' = Firing \ {i} /\ i \in Firing /\ \A j \in Firing' : work'[j] = work[j]
  BY <1>1 DEF Firing
<1>5. Fired'
  BY <1>4 DEF Running, Fired
<1>6. EventsAllowed'
  <2>1. \A j \in k + 1 .. k : FALSE
    BY <1>1
  <2> QED BY <2>1, EventsKept
<1>7. ASSUME \A j \in i + 1 .. Len(work) : work[j].what # "events" PROVE Lasts
  <2>1. \A j \in k + 1 .. Len(work) : work[j].what # "events"
    BY <1>1, <1>7
  <2> QED BY <2>1, EventsKept
<1> QED BY <1>2, <1>3, <1>5, <1>6, <1>7 DEF Running

-----------------------------------------------------------------------------
(* Every step keeps the stack and `active` in order.                          *)
LEMMA ScriptAtop ==
  ASSUME NEW n \in Nat, HasLevel, work'[n].what # "script"
  PROVE  OneScript(n, n + 1)
<1>1. n + 1 - 1 = n /\ n + 1 > n /\ n + 1 .. n + 1 - 1 = {}
  OBVIOUS
<1> QED BY <1>1 DEF OneScript

LEMMA Pushes ==
  ASSUME Running, NEW e \in Entry, e.what \notin {"fire", "events"}, work' = Append(work, e), active' = active,
         e.what # "script" \/ (HasLevel /\ ~Scripting)
  PROVE  Running' /\ Lasts
<1> DEFINE n == Len(work)
<1>1. Kept(n, n + 1) /\ work'[n + 1] = e
  BY Push DEF Running
<1>2. n \in Nat \ {0} /\ now = work[n] /\ work'[n] = work[n]
  BY <1>1, StackTop DEF Running, Kept
<1>3. OneScript(n, n + 1)
  <2>1. \A i \in n + 1 .. n + 1 : i = n + 1
    BY <1>2
  <2>2. CASE e.what # "script"
    BY <1>1, <2>1, <2>2 DEF OneScript
  <2>3. CASE HasLevel /\ ~Scripting
    <3>1. n \in Nat /\ work'[n].what # "script"
      BY <1>2, <2>3 DEF Scripting
    <3> QED BY <2>3, <3>1, ScriptAtop
  <2> QED BY <2>2, <2>3
<1>4. \A i \in n + 1 .. n + 1 : work'[i].what \notin {"fire", "events"}
  BY <1>1, <1>2
<1>5. \A i \in n + 1 .. Len(work) : work[i].what \notin {"fire", "events"}
  BY <1>2
<1> HIDE DEF n
<1> QED BY <1>1, <1>3, <1>4, <1>5, QuietStep

(* The events of a `rename`, run above the script it is a command of.         *)
LEMMA PushesEvents ==
  ASSUME Running, HasLevel \/ "failure" \in Departures, work' = Append(work, RunEvents), active' = active
  PROVE  Running' /\ Waits'
<1> DEFINE n == Len(work)
           e == RunEvents
<1>1. e \in Entry /\ e.what = "events"
  BY DEF Entry, RunEvents
<1>2. work' = Append(work, e)
  OBVIOUS
<1> HIDE DEF e
<1>3. Kept(n, n + 1) /\ work'[n + 1] = e
  BY <1>1, <1>2, Push DEF Running
<1>4. /\ n \in Nat /\ DOMAIN work = 1 .. n /\ DOMAIN work' = 1 .. n + 1
      /\ \A i \in 1 .. n : work'[i] = work[i]
  BY <1>3, StackTop DEF Running, Kept
<1> HIDE DEF n
<1>5. StackOK'
  <2>1. OneScript(n, n + 1)
    BY <1>1, <1>3, <1>4 DEF OneScript
  <2> QED BY <1>3, <2>1, OneScriptKeepsStack DEF Running
<1>6. EntriesOK'
  BY <1>1, <1>3, <1>4 DEF Running, EntriesOK, Spelt
<1>7. Fired'
  <2>1. Firing' = Firing /\ \A i \in Firing : work'[i] = work[i]
    BY <1>1, <1>3, <1>4 DEF Firing
  <2> QED BY <2>1, FiredKept DEF Running
<1>8. EventsAllowed'
  <2> SUFFICES ASSUME "failure" \notin Departures, NEW i \in 1 .. n + 1, work'[i].what = "events"
               PROVE  Cardinality(Below(i)') <= Limit
    BY <1>4 DEF EventsAllowed
  <2>1. CASE i \in 1 .. n
    <3>1. Below(i)' = Below(i) /\ work[i].what = "events"
      BY <1>4, <2>1 DEF Below
    <3> QED BY <1>4, <2>1, <3>1 DEF Running, EventsAllowed
  <2>2. CASE i = n + 1
    <3>1. Below(i)' = Scripts
      BY <1>1, <1>3, <1>4, <2>2 DEF Below, Scripts
    <3>2. Evals = Cardinality(Scripts) /\ Evals <= Limit
      BY ScriptCount DEF Running, HasLevel
    <3> QED BY <3>1, <3>2
  <2> QED BY <1>4, <2>1, <2>2
<1>9. Waits'
  BY <1>1, <1>3, <1>4 DEF Waits
<1> QED BY <1>5, <1>6, <1>7, <1>8, <1>9 DEF Running

LEMMA FiresStep ==
  ASSUME Running, NEW v, NEW s \in Spelled(v), NEW op \in VARIABLE_OPS, Fires(s, op)
  PROVE  Running' /\ Lasts
<1>1. CASE Due(s, op) = 0
  BY <1>1 DEF Fires, Running, StackOK, EntriesOK, Fired, Firing, Evals, EventsAllowed, Below, Lasts, Waits
<1>2. CASE Due(s, op) # 0
  <2> DEFINE n == Len(work)
             e == Fire(s, op, Due(s, op))
  <2>1. s \notin active /\ s \in Spelling /\ Spelt(s) /\ Due(s, op) \in Nat
    BY <1>2, Counted DEF Due, Guarded, Spelled, Spelt
  <2>2. e \in Entry /\ e.what = "fire" /\ e.name = s
    BY <2>1 DEF Entry, Fire
  <2>3. active' = active \cup {s} /\ work' = Append(work, e)
    BY <1>2 DEF Fires
  <2> HIDE DEF e
  <2>4. Kept(n, n + 1) /\ work'[n + 1] = e
    BY <2>2, <2>3, Push DEF Running
  <2> QED BY <2>1, <2>2, <2>3, <2>4, FireStarts
<1> QED BY <1>1, <1>2

LEMMA Popped ==
  ASSUME Running, Len(work) > 1, work' = Front(work),
         IF now.what = "fire" THEN active' = active \ {now.name} ELSE active' = active
  PROVE  Running' /\ (now.what # "events" => Lasts)
<1> DEFINE n == Len(work)
           k == n - 1
<1>1. n \in Nat /\ k \in Nat /\ DOMAIN work = 1 .. n /\ now = work[n] /\ k + 1 = n
  BY StackTop DEF Running
<1>2. Kept(k, k)
  BY Pop DEF Running
<1> HIDE DEF k
<1>3. CASE now.what = "fire"
  <2>1. n \in DOMAIN work /\ work[n].what = "fire" /\ \A j \in n + 1 .. n : work[j].what \notin {"fire", "events"}
    BY <1>1, <1>3
  <2> QED BY <1>1, <1>2, <1>3, <2>1, FireEnds
<1>4. CASE now.what # "fire"
  <2>1. \A i \in k + 1 .. n : work[i].what = now.what
    BY <1>1, <1>4
  <2>2. OneScript(k, k) /\ \A i \in k + 1 .. k : work'[i].what \notin {"fire", "events"}
    BY <1>1 DEF OneScript
  <2> QED BY <1>2, <1>4, <2>1, <2>2, QuietStep
<1> QED BY <1>3, <1>4

LEMMA Replaced ==
  ASSUME Running, NEW n \in 1 .. 2, Len(work) > n, NEW e \in Entry, e.what \notin {"fire", "script", "events"},
         work' = Append(SubSeq(work, 1, Len(work) - n), e), active' = active,
         \A i \in Len(work) - n + 1 .. Len(work) : work[i].what \notin {"fire", "events"}
  PROVE  Running' /\ Lasts
<1> DEFINE k == Len(work) - n
           m == k + 1
<1>1. k \in Nat
  BY StackTop DEF Running
<1>2. Kept(k, m) /\ work'[k + 1] = e
  BY Replace DEF Running
<1>3. \A i \in k + 1 .. Len(work) : work[i].what \notin {"fire", "events"}
  OBVIOUS
<1> HIDE DEF k
<1>4. \A i \in k + 1 .. m : work'[i].what \notin {"fire", "script", "events"}
  <2>1. \A i \in k + 1 .. k + 1 : i = k + 1
    BY <1>1
  <2> QED BY <1>2, <2>1
<1>5. OneScript(k, m)
  BY <1>4 DEF OneScript
<1> HIDE DEF m
<1> QED BY <1>2, <1>3, <1>4, <1>5, QuietStep
LEMMA Entries ==
  ASSUME NEW e \in Entry
  PROVE  /\ e.what \in {"script", "events", "fire", "enter", "calling", "leave"}
         /\ e.what = "fire" => e \in [what : {"fire"}, name : Spelling, op : VARIABLE_OPS, left : Nat]
         /\ e.what = "enter" => e \in [what : {"enter"}, left : Nat, after : Nat]
         /\ e.what = "calling" => e \in [what : {"calling"}, after : Nat]
         /\ e.what = "leave" => e \in [what : {"leave"}, left : Nat]
         /\ e.what = "script" => e = Script
BY DEF Entry, Script, RunEvents

LEMMA NextOfList ==
  ASSUME NEW e \in Entry, e.what \in {"fire", "enter", "leave"}, e.left # 0
  PROVE  LET next == [e EXCEPT !.left = @ - 1]
         IN  next \in Entry /\ next.what = e.what /\ (e.what = "fire" => next.name = e.name)
<1>1. CASE e.what = "fire"
  BY <1>1, Entries DEF Entry
<1>2. CASE e.what = "enter"
  BY <1>2, Entries DEF Entry
<1>3. CASE e.what = "leave"
  BY <1>3, Entries DEF Entry
<1> QED BY <1>1, <1>2, <1>3

LEMMA Called ==
  ASSUME Running, HasLevel, now.what = "enter", Len(work) > 1, NEW after \in Nat, active' = active,
         work' = Append(Append(Front(work), Calling(after)), Script)
  PROVE  Running' /\ Lasts
<1> DEFINE n == Len(work)
           k == n - 1
           m == n + 1
           e == Calling(after)
<1>1. n \in Nat /\ k \in Nat /\ k + 1 = n /\ n + 1 = m /\ now = work[n]
  BY StackTop DEF Running
<1>2. e \in Entry /\ e.what = "calling" /\ Script \in Entry /\ Script.what = "script"
  BY DEF Entry, Calling, Script
<1>a. work' = Append(Append(Front(work), e), Script)
  OBVIOUS
<1> HIDE DEF e
<1>3. Kept(k, m) /\ work'[n] = e /\ work'[n + 1] = Script
  BY <1>2, <1>a, ReplaceByTwo DEF Running
<1> HIDE DEF k, m
<1>4. \A i \in k + 1 .. n : i = n
  BY <1>1
<1>5. \A i \in k + 1 .. n : work[i].what \notin {"fire", "events"}
  BY <1>1, <1>4
<1>6. \A i \in k + 1 .. m : i = n \/ i = n + 1
  BY <1>1
<1>7. \A i \in k + 1 .. m : work'[i].what \notin {"fire", "events"}
  BY <1>2, <1>3, <1>6
<1>8. OneScript(k, m)
  <2>1. m - 1 = n /\ m > k /\ k + 1 .. m - 1 = k + 1 .. n
    BY <1>1
  <2>2. \A i \in k + 1 .. n : work'[i].what # "script"
    BY <1>2, <1>3, <1>4
  <2> QED BY <1>2, <1>3, <2>1, <2>2 DEF OneScript
<1> QED BY <1>3, <1>5, <1>7, <1>8, QuietStep
(* A list is through.                                                         *)
LEMMA FinishedStep ==
  ASSUME Running, NEW failed \in BOOLEAN, now.what \in {"fire", "enter", "leave"}, Finished(failed)
  PROVE  Running' /\ Lasts
<1>1. Len(work) \in Nat /\ Len(work) > 1 /\ now = work[Len(work)] /\ now \in Entry
  BY StackTop DEF Running, StackOK
<1>2. CASE now.what # "enter"
  BY <1>1, <1>2, Popped DEF Finished
<1>3. CASE now.what = "enter"
  <2>1. now.after \in Nat /\ active' = active
    BY <1>1, <1>3, Entries DEF Finished
  <2>2. CASE work' = Front(work)
    BY <1>1, <1>3, <2>1, <2>2, Popped
  <2>3. CASE HasLevel /\ work' = Append(Append(Front(work), Calling(now.after)), Script)
    BY <1>1, <1>3, <2>1, <2>3, Called
  <2>4. CASE work' = Append(Front(work), Leave(now.after))
    <3> DEFINE e == Leave(now.after)
    <3>1. work' = Append(SubSeq(work, 1, Len(work) - 1), e)
      BY <2>4 DEF Front
    <3>2. e \in Entry /\ e.what = "leave"
      BY <2>1 DEF Entry, Leave
    <3> HIDE DEF e
    <3>3. \A i \in Len(work) - 1 + 1 .. Len(work) : work[i].what \notin {"fire", "events"}
      <4>1. \A i \in Len(work) - 1 + 1 .. Len(work) : i = Len(work)
        BY <1>1
      <4> QED BY <1>1, <1>3, <4>1
    <3> QED BY <1>1, <2>1, <3>1, <3>2, <3>3, Replaced
  <2> QED BY <1>3, <2>2, <2>3, <2>4 DEF Finished
<1> QED BY <1>2, <1>3

LEMMA NextCallbackStep ==
  ASSUME Running, NextCallback
  PROVE  Running' /\ Lasts
<1>1. Len(work) \in Nat /\ Len(work) > 1 /\ now = work[Len(work)] /\ now \in Entry
  BY StackTop DEF Running, StackOK, NextCallback
<1>2. CASE now.left # 0 /\ HasLevel
  <2> DEFINE next == [now EXCEPT !.left = @ - 1]
  <2>1. next \in Entry /\ next.what = now.what /\ (now.what = "fire" => next.name = now.name)
    BY <1>1, <1>2, NextOfList DEF NextCallback
  <2>2. work' = Append(Append(Front(work), next), Script) /\ active' = active /\ now.what \notin {"script", "events"}
    BY <1>2 DEF NextCallback
  <2> HIDE DEF next
  <2>3. Script \in Entry
    BY DEF Entry
  <2>4. Kept(Len(work) - 1, Len(work) + 1) /\ work'[Len(work)] = next /\ work'[Len(work) + 1] = Script
    BY <1>1, <2>1, <2>2, <2>3, ReplaceByTwo DEF Running
  <2> QED BY <1>1, <1>2, <2>1, <2>2, <2>4, ListGoesOn
<1>3. CASE ~(now.left # 0 /\ HasLevel)
  <2>1. Finished(FALSE) \/ Finished(TRUE)
    BY <1>3 DEF NextCallback
  <2>2. now.what \in {"fire", "enter", "leave"}
    BY DEF NextCallback
  <2>3. CASE Finished(FALSE)
    BY <2>2, <2>3, FinishedStep
  <2>4. CASE Finished(TRUE)
    BY <2>2, <2>4, FinishedStep
  <2> QED BY <2>1, <2>3, <2>4
<1> QED BY <1>2, <1>3

(* Events that a `rename` was allowed to leave are run, all of them.          *)
LEMMA RunEventsStep ==
  ASSUME Running, run_events
  PROVE  Running' /\ ("failure" \notin Departures => events' = <<>> \/ Waits')
<1>1. Len(work) > 1 /\ now.what = "events" /\ active' = active
  BY StackTop DEF Running, run_events
<1>2. ASSUME work' = Front(work) PROVE Running'
  BY <1>1, <1>2, Popped
<1>3. CASE HasLevel /\ work' = Append(work, Script)
  <2>1. Script \in Entry /\ Script.what = "script" /\ ~Scripting
    BY <1>1 DEF Entry, Script, Scripting
  <2>2. Script.what \notin {"fire", "events"}
    BY <2>1
  <2>3. Waits
    BY <1>1, StackTop DEF Running, Waits
  <2> HIDE DEF Script
  <2>4. Running' /\ Lasts
    BY <1>1, <1>3, <2>1, <2>2, Pushes
  <2> QED BY <2>3, <2>4 DEF Lasts
<1>4. CASE work' = Front(work) /\ events' # <<>> /\ "failure" \notin Departures
  <2>1. ~HasLevel
    <3>1. events # <<>>
      BY <1>4 DEF run_events
    <3>2. HasLevel => work' = Append(work, Script)
      BY <3>1 DEF run_events
    <3>3. Len(Front(work)) # Len(Append(work, Script))
      <4>1. work \in Seq(Entry) /\ Len(work) \in Nat /\ Len(work) > 1 /\ Len(work) - 1 \in 0 .. Len(work)
        BY <1>1, StackTop DEF Running, StackOK
      <4>2. Len(Front(work)) = Len(work) - 1
        BY <4>1, Cut DEF Front
      <4> QED BY <4>1, <4>2
    <3> QED BY <1>4, <3>2, <3>3
  <2>2. Len(work) \in DOMAIN work /\ work[Len(work)].what = "events"
    BY <1>1, StackTop DEF Running
  <2>3. Below(Len(work)) = Scripts
    BY StackTop DEF Running, Below, Scripts
  <2>4. Cardinality(Scripts) <= Limit
    BY <1>4, <2>2, <2>3 DEF Running, EventsAllowed
  <2> QED BY <2>1, <2>4, ScriptCount DEF Running, HasLevel
<1>5. /\ work' = Front(work) \/ (HasLevel /\ work' = Append(work, Script))
      /\ events' = <<>> \/ events' # <<>>
  BY DEF run_events
<1> QED BY <1>2, <1>3, <1>4, <1>5

(* The list or the call that waits for the script at the top.                 *)
LEMMA Waiting ==
  ASSUME Running, Inner
  PROVE  /\ Len(work) \in Nat /\ Len(work) > 2 /\ now = work[Len(work)] /\ now.what = "script"
         /\ Under = work[Len(work) - 1] /\ Under \in Entry /\ Len(work) - 1 \in DOMAIN work
BY StackTop DEF Running, StackOK, Inner, Scripting

LEMMA CallReturns ==
  ASSUME Running, Inner, Under.what = "calling", active' = active,
         work' = Append(SubSeq(work, 1, Len(work) - 2), Leave(Under.after))
  PROVE  Running' /\ Lasts
<1> DEFINE e == Leave(Under.after)
<1>1. e \in Entry /\ e.what = "leave" /\ work' = Append(SubSeq(work, 1, Len(work) - 2), e)
  BY Waiting, Entries DEF Entry, Leave
<1> HIDE DEF e
<1>2. \A i \in Len(work) - 2 + 1 .. Len(work) : work[i].what \notin {"fire", "events"}
  <2>1. \A i \in Len(work) - 2 + 1 .. Len(work) : i = Len(work) \/ i = Len(work) - 1
    BY Waiting
  <2> QED BY <2>1, Waiting
<1> QED BY <1>1, <1>2, Waiting, Replaced

LEMMA ScriptDoneStep ==
  ASSUME Running, ScriptDone
  PROVE  Running' /\ Lasts
<1>1. Inner /\ active' = active
  BY DEF ScriptDone
<1>2. CASE Under.what = "calling"
  BY <1>1, <1>2, CallReturns DEF ScriptDone
<1>3. CASE Under.what # "calling"
  BY <1>1, <1>3, Waiting, Popped DEF ScriptDone
<1> QED BY <1>2, <1>3

LEMMA ScriptFailsStep ==
  ASSUME Running, ScriptFails
  PROVE  Running' /\ ("failure" \notin Departures => Lasts)
<1>1. Inner
  BY DEF ScriptFails
<1>2. CASE Under.what = "calling"
  BY <1>1, <1>2, CallReturns DEF ScriptFails
<1>3. CASE Under.what # "calling"
  <2> DEFINE n == Len(work)
             k == n - 2
  <2>1. /\ n \in Nat /\ n > 2 /\ k \in Nat /\ k + 1 = n - 1 /\ n - 1 \in DOMAIN work
        /\ work[n].what = "script" /\ Under = work[n - 1]
    BY <1>1, Waiting
  <2>2. Last(Front(work)) = Under
    BY <2>1 DEF Last, Front, Running, StackOK
  <2>3. /\ work' = Front(Front(work))
        /\ active' = IF Under.what = "fire" THEN active \ {Under.name} ELSE active
    BY <1>3, <2>2 DEF ScriptFails
  <2>4. Kept(k, k)
    BY <2>1, <2>3, PopTwo DEF Running
  <2> HIDE DEF k
  <2>5. CASE Under.what = "fire"
    <3>1. \A j \in n - 1 + 1 .. n : j = n
      BY <2>1
    <3>2. \A j \in n - 1 + 1 .. n : work[j].what \notin {"fire", "events"}
      BY <2>1, <3>1
    <3> QED BY <2>1, <2>3, <2>4, <2>5, <3>2, FireEnds
  <2>6. CASE Under.what # "fire"
    <3>1. \A j \in k + 1 .. n : j = n \/ j = n - 1
      BY <2>1
    <3>2. /\ \A j \in k + 1 .. n : work[j].what # "fire"
          /\ "failure" \notin Departures => \A j \in k + 1 .. n : work[j].what # "events"
      BY <2>1, <2>6, <3>1 DEF ScriptFails
    <3>3. OneScript(k, k) /\ \A j \in k + 1 .. k : work'[j].what \notin {"fire", "events"}
      BY <2>1 DEF OneScript
    <3> QED BY <2>3, <2>4, <2>6, <3>2, <3>3, QuietStep
  <2> QED BY <2>5, <2>6
<1> QED BY <1>2, <1>3
-----------------------------------------------------------------------------
(* The invariant: what is under way, what the rest of the state is made of,   *)
(* and who runs the events that are queued.                                   *)
Typed ==
  /\ traces \in [NewTraces -> Nat] /\ set \subseteq Variables /\ commands \subseteq Commands
  /\ procs \subseteq Commands /\ events \in Seq(Events)

Served == "failure" \notin Departures => events = <<>> \/ Waits

IInv == Running /\ Typed /\ Served

LEMMA InitIInv == Init => IInv
<1> SUFFICES ASSUME Init PROVE IInv
  OBVIOUS
<1>1. Len(work) = 1 /\ DOMAIN work = {1} /\ work[1] = Script /\ Script \in Entry /\ work \in Seq(Entry)
  BY DEF Init, Entry
<1>2. work[1].what = "script"
  BY <1>1 DEF Script
<1>3. Evals = 1
  <2>1. {i \in DOMAIN work : work[i].what = "script"} = {1}
    BY <1>1, <1>2
  <2> QED BY <2>1, FS_Singleton DEF Evals
<1>4. StackOK
  <2>1. Evals <= Limit + 1
    BY <1>3, TracesAssumption
  <2>2. work # <<>> /\ \A i \in DOMAIN work : ~(i > 1)
    BY <1>1
  <2> QED BY <1>1, <2>1, <2>2 DEF StackOK
<1>5. EntriesOK /\ EventsAllowed
  BY <1>1, <1>2 DEF EntriesOK, EventsAllowed
<1>6. Fired
  BY <1>1, <1>2 DEF Init, Fired, Firing
<1>7. Typed /\ Served
  BY DEF Init, Typed, Served
<1> QED BY <1>4, <1>5, <1>6, <1>7 DEF IInv, Running

LEMMA Forgotten ==
  ASSUME Typed, NEW v
  PROVE  /\ forget_variable(v) \in [NewTraces -> Nat]
         /\ \A t \in NewTraces : t.kind # "variable" => forget_variable(v)[t] = traces[t]
BY DEF Typed, forget_variable

LEMMA Followed ==
  ASSUME Typed, NEW old \in Commands, NEW new
  PROVE  /\ Following(old, new) \in [NewTraces -> Nat]
         /\ \A t \in NewTraces : t.kind # "variable" /\ Following(old, new)[t] > 0 =>
               t.name # old /\ (new = <<t.name>> \/ traces[t] > 0)
<1>1. ASSUME NEW t \in NewTraces, t.kind # "variable"
      PROVE  traces[t] + traces[[t EXCEPT !.name = old]] \in Nat
  <2>1. [t EXCEPT !.name = old] \in NewTraces
    BY <1>1 DEF NewTraces, Trace
  <2> QED BY <2>1 DEF Typed
<1>2. ASSUME NEW t \in NewTraces
      PROVE  /\ Following(old, new)[t] \in Nat
             /\ t.kind # "variable" /\ Following(old, new)[t] > 0 =>
                  t.name # old /\ (new = <<t.name>> \/ traces[t] > 0)
  <2>1. CASE t.kind = "variable"
    BY <2>1 DEF Typed, Following
  <2>2. CASE t.kind # "variable" /\ t.name = old
    BY <2>2 DEF Following
  <2>3. CASE t.kind # "variable" /\ t.name # old /\ new = <<t.name>>
    BY <1>1, <2>3 DEF Following
  <2>4. CASE t.kind # "variable" /\ t.name # old /\ new # <<t.name>>
    BY <2>4 DEF Typed, Following
  <2> QED BY <2>1, <2>2, <2>3, <2>4
<1> QED BY <1>2 DEF Following

LEMMA QueuedTyped ==
  ASSUME Typed, NEW old \in Commands, NEW new \in {<<>>} \cup {<<c>> : c \in Commands}, NEW op
  PROVE  Queued(old, new, op) \in Seq(Events)
<1> DEFINE n == Matching("command", old, op)
           left == [i \in 1 .. n |-> Event(old, new)]
<1>1. n \in Nat
  BY Counted
<1>2. Event(old, new) \in Events
  BY DEF Event, Events
<1> HIDE DEF n
<1>3. left \in Seq(Events)
  BY <1>1, <1>2
<1> HIDE DEF left
<1>4. events \o left \in Seq(Events)
  BY <1>3 DEF Typed
<1> QED BY <1>4 DEF Queued, left, n

(* A script's command that leaves the stack alone.                            *)
LEMMA StackAlone ==
  ASSUME IInv, UNCHANGED <<events, active, work>>
  PROVE  Running' /\ Served'
BY DEF IInv, Running, StackOK, EntriesOK, Fired, Firing, Evals, EventsAllowed, Below, Served, Waits
LEMMA AddStep ==
  ASSUME IInv, NEW x \in NewTraces, trace_add(x) \/ trace_remove(x)
  PROVE  IInv'
<1>1. Running' /\ Served'
  BY StackAlone DEF trace_add, trace_remove
<1>2. traces' \in [NewTraces -> Nat]
  <2>1. traces[x] \in Nat /\ traces \in [NewTraces -> Nat]
    BY DEF IInv, Typed
  <2>2. CASE trace_add(x)
    BY <2>1, <2>2 DEF trace_add
  <2>3. CASE trace_remove(x)
    <3>1. traces[x] - 1 \in Nat
      BY <2>1, <2>3 DEF trace_remove
    <3> QED BY <2>1, <2>3, <3>1 DEF trace_remove
  <2> QED BY <2>2, <2>3
<1>3. Typed'
  BY <1>2 DEF IInv, Typed, trace_add, trace_remove
<1> QED BY <1>1, <1>3 DEF IInv

LEMMA AccessStep ==
  ASSUME IInv, NEW v \in Variables, NEW s \in Spelled(v), Read(s) \/ Write(s) \/ Unset(s)
  PROVE  IInv'
<1>1. /\ Fires(s, "read") \/ Fires(s, "write") \/ Fires(s, "unset")
      /\ events' = events
  BY DEF Read, Write, Unset
<1>2. Running' /\ Lasts
  BY <1>1, FiresStep DEF IInv, VARIABLE_OPS
<1>3. s.of \in Variables
  BY DEF Spelled, Spelling
<1>4. Typed'
  BY <1>3, Forgotten DEF IInv, Typed, Read, Write, Unset
<1> QED BY <1>1, <1>2, <1>4 DEF IInv, Served, Lasts

LEMMA DefineStep ==
  ASSUME IInv, NEW c \in Commands, Define(c) \/ Arises(c)
  PROVE  IInv'
<1>1. Running' /\ Served'
  BY StackAlone DEF Define, Arises
<1> QED BY <1>1 DEF IInv, Typed, Define, Arises

LEMMA CallStep ==
  ASSUME IInv, NEW c \in Commands, Call(c)
  PROVE  IInv'
<1> DEFINE e == Enter(Matching("execution", c, "enter"), Matching("execution", c, "leave"))
<1>1. e \in Entry /\ e.what = "enter"
  BY Counted DEF Entry, Enter
<1>2. work' = Append(work, e) /\ active' = active /\ events' = events
  BY DEF Call
<1> HIDE DEF e
<1>3. Running' /\ Lasts
  BY <1>1, <1>2, Pushes DEF IInv
<1> QED BY <1>2, <1>3 DEF IInv, Typed, Served, Lasts, Call

LEMMA RenameStep ==
  ASSUME IInv, NEW old \in Commands, NEW new \in {<<>>} \cup {<<c>> : c \in Commands}, rename(old, new)
  PROVE  IInv'
<1>1. Running' /\ Waits'
  BY PushesEvents DEF IInv, rename, Tells
<1>2. traces' \in [NewTraces -> Nat]
  BY Followed DEF IInv, rename
<1>3. events' \in Seq(Events)
  BY QueuedTyped DEF IInv, rename
<1>4. ToSet(new) \subseteq Commands
  BY DEF ToSet
<1>5. commands' \subseteq Commands /\ procs' \subseteq Commands
  BY <1>4 DEF IInv, Typed, rename
<1>6. Typed'
  BY <1>2, <1>3, <1>5 DEF IInv, Typed, rename
<1> QED BY <1>1, <1>6 DEF IInv, Served

LEMMA DeletionStep ==
  ASSUME IInv, NEW gone, namespace(gone) \/ ObjectEnds(gone)
  PROVE  IInv'
<1>1. TakenAway(gone)
  BY DEF namespace, ObjectEnds
<1>2. Typed'
  BY <1>1 DEF IInv, Typed, TakenAway
<1>3. CASE namespace(gone)
  <2>1. Running' /\ Waits'
    BY <1>1, <1>3, PushesEvents DEF IInv, namespace, Tells, TakenAway
  <2> QED BY <1>2, <2>1 DEF IInv, Served
<1>4. CASE ObjectEnds(gone)
  BY <1>1, <1>2, <1>4, StackAlone DEF IInv, ObjectEnds, TakenAway
<1> QED BY <1>3, <1>4

LEMMA ListStep ==
  ASSUME IInv, Walks \/ Ends
  PROVE  IInv'
<1>1. Running' /\ Served'
  <2>1. CASE NextCallback
    BY <2>1, NextCallbackStep DEF IInv, Served, Lasts, NextCallback
  <2>2. CASE run_events
    BY <2>2, RunEventsStep DEF IInv, Served
  <2>3. CASE ScriptDone
    BY <2>3, ScriptDoneStep DEF IInv, Served, Lasts, ScriptDone
  <2>4. CASE ScriptFails
    BY <2>4, ScriptFailsStep DEF IInv, Served, Lasts, ScriptFails
  <2> QED BY <2>1, <2>2, <2>3, <2>4 DEF Walks, Ends
<1>2. /\ traces' = traces \/ \E v : traces' = forget_variable(v)
      /\ UNCHANGED <<set, commands, procs>>
  BY DEF Walks, Ends, NextCallback, Finished, run_events, ScriptDone, ScriptFails
<1>3. traces' \in [NewTraces -> Nat]
  BY <1>2, Forgotten DEF IInv, Typed
<1>4. events' \in Seq(Events)
  BY DEF IInv, Typed, Walks, Ends, NextCallback, Finished, run_events, ScriptDone, ScriptFails
<1> QED BY <1>1, <1>2, <1>3, <1>4 DEF IInv, Typed

LEMMA NextIInv == IInv /\ [Next]_vars => IInv'
<1> SUFFICES ASSUME IInv, [Next]_vars PROVE IInv'
  OBVIOUS
<1>1. ASSUME NEW x \in NewTraces, trace_add(x) \/ trace_remove(x) PROVE IInv'
  BY <1>1, AddStep
<1>2. ASSUME NEW v \in Variables, NEW s \in Spelled(v), Read(s) \/ Write(s) \/ Unset(s) PROVE IInv'
  BY <1>2, AccessStep
<1>3. ASSUME NEW c \in Commands, Define(c) \/ Arises(c) PROVE IInv'
  BY <1>3, DefineStep
<1>4. ASSUME NEW c \in Commands, Call(c) PROVE IInv'
  BY <1>4, CallStep
<1>5. ASSUME NEW c \in Commands, NEW new \in {<<>>} \cup {<<d>> : d \in Commands}, rename(c, new) PROVE IInv'
  BY <1>5, RenameStep
<1>6. CASE Walks \/ Ends
  BY <1>6, ListStep
<1>7. ASSUME NEW gone \in SUBSET Commands, namespace(gone) \/ ObjectEnds(gone) PROVE IInv'
  BY <1>7, DeletionStep
<1>8. CASE UNCHANGED vars
  BY <1>8, StackAlone DEF vars, IInv, Typed
<1> QED BY <1>1, <1>2, <1>3, <1>4, <1>5, <1>6, <1>7, <1>8 DEF Next
LEMMA Typing == IInv => TypeOK
<1> SUFFICES ASSUME IInv PROVE TypeOK
  OBVIOUS
<1>1. active \subseteq Spelling
  BY StackTop DEF IInv, Running, EntriesOK, Spelt, Fired, Firing
<1>2. Evals \in 1 .. Limit + 1
  BY ScriptCount DEF IInv, Running
<1> QED BY <1>1, <1>2 DEF IInv, Running, StackOK, Typed, TypeOK

(* However deep callbacks set off callbacks, at whatever limit, with accesses *)
(* by any names and failures anywhere: the stack is well formed, no two lists *)
(* of callbacks are under way for the same name of a variable, and `active`   *)
(* holds the names they are under way for, no other and none left behind.     *)
THEOREM ActiveIsWhatRuns == Spec => [](TypeOK /\ Fired)
<1>1. IInv => TypeOK /\ Fired
  BY Typing DEF IInv, Running
<1> QED BY <1>1, InitIInv, NextIInv, PTL DEF Spec

(* As long as a variable has one name: no two accesses to one variable run    *)
(* callbacks inside one another, and it is on `active` just as long.          *)
THEOREM OneNameOneList ==
  ASSUME "qualified" \notin Departures
  PROVE  Spec => []NotInsideItself
<1>1. ASSUME IInv PROVE NotInsideItself
  <2>1. TypeOK /\ Fired /\ \A i \in Firing : Spelt(work[i].name)
    BY <1>1, Typing DEF IInv, Running, EntriesOK, Firing
  <2>2. \A i, j \in Firing : work[i].name.of = work[j].name.of => work[i].name = work[j].name
    BY <2>1 DEF Spelt, Spelling
  <2> QED BY <2>1, <2>2 DEF NotInsideItself, Fired
<1>2. IInv => NotInsideItself
  BY <1>1
<1> QED BY <1>2, InitIInv, NextIInv, PTL DEF Spec

(* As long as the callbacks of a command's events do not fail: those that a   *)
(* `rename` queued are all run before it is over, whatever they queue, and at *)
(* any recursion limit, as one that is too deep to run them is refused.       *)
THEOREM EventsAreServed ==
  ASSUME "failure" \notin Departures
  PROVE  Spec => []NothingLeftQueued
<1>1. IInv => NothingLeftQueued
  BY DEF IInv, Served, Waits, NothingLeftQueued
<1> QED BY <1>1, InitIInv, NextIInv, PTL DEF Spec

(* The traces of commands are where the commands are.                         *)
LEMMA FollowedStep ==
  ASSUME "deletion" \notin Departures, IInv, TracesOfCommands, [Next]_vars
  PROVE  TracesOfCommands'
<1>1. ASSUME NEW x \in NewTraces, trace_add(x) \/ trace_remove(x) PROVE TracesOfCommands'
  <2>1. \A t \in NewTraces : traces[t] \in Nat /\ (t # x => traces'[t] = traces[t])
    BY <1>1 DEF IInv, Typed, trace_add, trace_remove
  <2>2. trace_remove(x) => traces[x] > 0
    BY DEF trace_remove
  <2>3. trace_add(x) /\ x.kind # "variable" => x.name \in commands
    BY DEF trace_add, Known
  <2> QED BY <1>1, <2>1, <2>2, <2>3 DEF TracesOfCommands, trace_add, trace_remove
<1>2. ASSUME traces' = traces \/ \E v : traces' = forget_variable(v), commands \subseteq commands'
      PROVE  TracesOfCommands'
  BY <1>2, Forgotten DEF IInv, TracesOfCommands
<1>3. ASSUME NEW v \in Variables, NEW s \in Spelled(v), Read(s) \/ Write(s) \/ Unset(s)
      PROVE  TracesOfCommands'
  BY <1>2, <1>3 DEF Read, Write, Unset
<1>4. ASSUME NEW c \in Commands, Define(c) \/ Arises(c) \/ Call(c) PROVE TracesOfCommands'
  BY <1>2, <1>4 DEF Define, Arises, Call
<1>5. ASSUME NEW c \in Commands, NEW new \in {<<>>} \cup {<<d>> : d \in Commands}, rename(c, new)
      PROVE  TracesOfCommands'
  <2>1. /\ traces' = Following(c, new)
        /\ commands' = (commands \ {c}) \cup ToSet(new)
    BY <1>5 DEF rename
  <2>2. ASSUME NEW t \in NewTraces, t.kind # "variable", traces'[t] > 0 PROVE t.name \in commands'
    <3>1. t.name # c /\ (new = <<t.name>> \/ traces[t] > 0)
      BY <2>1, <2>2, Followed DEF IInv
    <3>2. new = <<t.name>> => t.name \in ToSet(new)
      BY DEF ToSet
    <3> QED BY <2>1, <2>2, <3>1, <3>2 DEF TracesOfCommands
  <2> QED BY <2>2 DEF TracesOfCommands
<1>6. CASE Walks \/ Ends
  BY <1>2, <1>6 DEF Walks, Ends, NextCallback, Finished, run_events, ScriptDone, ScriptFails
<1>7. ASSUME NEW gone, namespace(gone) \/ ObjectEnds(gone) PROVE TracesOfCommands'
  <2>1. TakenAway(gone)
    BY <1>7 DEF namespace, ObjectEnds
  <2>2. /\ traces' = traces /\ commands' = commands \ gone
        /\ \A t \in NewTraces : t.kind # "variable" /\ t.name \in gone => traces[t] = 0
    BY <2>1 DEF TakenAway
  <2>3. ASSUME NEW t \in NewTraces, t.kind # "variable", traces[t] > 0 PROVE t.name \in commands'
    <3>1. t.name \in commands
      BY <2>3 DEF TracesOfCommands
    <3>2. t.name \notin gone
      BY <2>2, <2>3
    <3> QED BY <2>2, <3>1, <3>2
  <2> QED BY <2>2, <2>3 DEF TracesOfCommands
<1>8. CASE UNCHANGED vars
  BY <1>2, <1>8 DEF vars
<1> QED BY <1>1, <1>3, <1>4, <1>5, <1>6, <1>7, <1>8 DEF Next

(* As long as commands that have traces are deleted by `rename` only: no      *)
(* trace is left on a name that no command has, through every chain of        *)
(* renames, `rename c {}` and definitions, by scripts and by callbacks,       *)
(* whatever else takes commands without traces away in between.               *)
THEOREM NoTraceWithoutCommand ==
  ASSUME "deletion" \notin Departures
  PROVE  Spec => []TracesOfCommands
<1>1. Init => TracesOfCommands
  BY DEF Init, TracesOfCommands
<1>2. IInv /\ TracesOfCommands /\ [Next]_vars => TracesOfCommands'
  BY FollowedStep
<1> QED BY <1>1, <1>2, InitIInv, NextIInv, PTL DEF Spec
=============================================================================
