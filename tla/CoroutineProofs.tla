--------------------------- MODULE CoroutineProofs ---------------------------
(***************************************************************************)
(* Proofs about Coroutine, for any number of names, contexts, regions and  *)
(* arguments.  The invariant the proofs carry is the conjunction of the    *)
(* ones TLC checks: none is inductive alone, since what yield may do to    *)
(* the resumers depends on who has a name, and what a resumption hands     *)
(* over depends on who is running.  The last part shows the driver to be   *)
(* the stack of contexts that CoroutineStack promises.                     *)
(***************************************************************************)
EXTENDS CoroutineRefinement, TLAPS

IInv ==
  /\ TypeOK
  /\ ChainReachesMain
  /\ OneAnswerPerRequest
  /\ TableMatchesContexts
  /\ ParkedHoldsNoResumer

-----------------------------------------------------------------------------
(* Facts about a linked set, whatever is linked.                              *)

(* While the script itself is running no coroutine is: `create` can discard   *)
(* the old context of a name without asking whether it runs.                  *)
LEMMA OnlyMain ==
  ASSUME NEW R, NEW f, Linked(R, f, 0)
  PROVE  R = {0}
<1>1. SUFFICES ASSUME R \ {0} # {} PROVE FALSE
  BY DEF Linked
<1>2. PICK x \in R \ {0} : f[x] \notin R \ {0}
  BY <1>1 DEF Linked
<1> QED BY <1>2 DEF Linked

(* A context outside the set can be put in front, pointing at the old front.  *)
LEMMA PushLinked ==
  ASSUME NEW R, NEW f, NEW g, NEW c, NEW t,
         Linked(R, f, c), t \notin R, g[t] = c,
         \A x \in R : g[x] = f[x]
  PROVE  Linked(R \cup {t}, g, t)
<1> DEFINE Q == R \cup {t}
<1>1. t # 0 /\ 0 \in Q /\ g[0] = None /\ t \in Q
  BY DEF Linked
<1>2. \A x \in Q \ {0} : g[x] \in Q \ {t}
  BY DEF Linked
<1>3. \A x, y \in Q \ {0} : g[x] = g[y] => x = y
  BY DEF Linked
<1>4. ASSUME NEW S \in SUBSET (Q \ {0}), S # {}
      PROVE  \E x \in S : g[x] \notin S
  <2>1. CASE S \ {t} = {}
    <3>1. t \in S
      BY <1>4, <2>1
    <3> QED BY <2>1, <3>1 DEF Linked
  <2>2. CASE S \ {t} # {}
    <3>1. S \ {t} \in SUBSET (R \ {0})
      BY <1>4
    <3>2. PICK x \in S \ {t} : f[x] \notin S \ {t}
      BY <2>2, <3>1 DEF Linked
    <3>3. x \in R \ {0} /\ f[x] # t
      BY <3>1, <3>2 DEF Linked
    <3> QED BY <3>2, <3>3
  <2> QED BY <2>1, <2>2
<1> HIDE DEF Q
<1>5. Linked(Q, g, t)
  BY <1>1, <1>2, <1>3, <1>4 DEF Linked
<1> QED BY <1>5 DEF Q

(* The front can leave: what it pointed at is the new front.                  *)
LEMMA PopLinked ==
  ASSUME NEW R, NEW f, NEW g, NEW c, c # 0,
         Linked(R, f, c),
         \A x \in R \ {c} : g[x] = f[x]
  PROVE  Linked(R \ {c}, g, f[c])
<1> DEFINE Q == R \ {c}
<1>1. c \in R \ {0} /\ f[c] \in Q /\ 0 \in Q /\ g[0] = None
  BY DEF Linked
<1>2. \A x \in Q \ {0} : g[x] \in Q \ {f[c]}
  BY <1>1 DEF Linked
<1>3. \A x, y \in Q \ {0} : g[x] = g[y] => x = y
  BY DEF Linked
<1>4. \A S \in SUBSET (Q \ {0}) : S # {} => \E x \in S : g[x] \notin S
  <2> SUFFICES ASSUME NEW S \in SUBSET (Q \ {0}), S # {}
               PROVE  \E x \in S : g[x] \notin S
    OBVIOUS
  <2>1. PICK x \in S : f[x] \notin S
    BY DEF Linked
  <2> QED BY <2>1
<1> HIDE DEF Q
<1>5. Linked(Q, g, f[c])
  BY <1>1, <1>2, <1>3, <1>4 DEF Linked
<1> QED BY <1>5 DEF Q

-----------------------------------------------------------------------------
LEMMA InitIInv == Init => IInv
<1> SUFFICES ASSUME Init PROVE IInv
  OBVIOUS
<1> USE CoroutineAssumption DEF Init, Ctx
<1>1. 0 \in Ctx /\ Running = {0}
  BY DEF Running
<1>2. TypeOK
  <2>1. contexts \in 1 .. MaxContexts + 1 /\ vm \subseteq Ctx
    OBVIOUS
  <2>2. park \in [Ctx -> Parks] /\ catches \in [Ctx -> 0 .. MaxCatches]
    BY DEF Parks
  <2>3. raising \in Codes \cup {"none"}
    OBVIOUS
  <2> QED BY <1>1, <2>1, <2>2, <2>3 DEF TypeOK
<1>3. ChainReachesMain
  <2>1. resumer[0] = None
    BY <1>1
  <2> QED BY <1>1, <2>1 DEF ChainReachesMain, Linked
<1>4. OneAnswerPerRequest /\ TableMatchesContexts
  BY DEF OneAnswerPerRequest, TableMatchesContexts, Executing
<1>5. ParkedHoldsNoResumer
  BY <1>1 DEF ParkedHoldsNoResumer
<1> QED BY <1>2, <1>3, <1>4, <1>5 DEF IInv

-----------------------------------------------------------------------------
(* What the invariant says of the two contexts a step moves between.          *)

(* A running coroutine has somewhere to go back to, and the context there is  *)
(* live, running, and waiting for one value.                                  *)
LEMMA ReturnIsRunning ==
  ASSUME IInv, current # 0
  PROVE  /\ resumer[current] \in Running \ {current}
         /\ resumer[current] \in Ctx
         /\ owed[resumer[current]] = 1
<1>1. resumer[current] \in Running \ {current}
  BY DEF IInv, ChainReachesMain, Linked
<1> QED BY <1>1 DEF IInv, TypeOK, OneAnswerPerRequest, Running

(* A suspended name stands for a live coroutine that is not running, waiting  *)
(* for one value.                                                             *)
LEMMA SuspendedIsParked ==
  ASSUME IInv, NEW n \in Names, Suspended(n)
  PROVE  /\ live[n] \in vm \ Running
         /\ live[n] \in Ctx \ {0, current}
         /\ name[live[n]] = n
         /\ owed[live[n]] = 1
<1>1. live[n] \in vm \ Running /\ name[live[n]] = n
  BY DEF IInv, TableMatchesContexts, Suspended, Running
<1>2. 0 \in Running /\ current \in Running
  BY DEF IInv, ChainReachesMain, Linked
<1>3. live[n] \in Ctx
  BY <1>1 DEF IInv, TypeOK
<1> QED BY <1>1, <1>2, <1>3 DEF IInv, OneAnswerPerRequest

(* Only the main script is running when it is the one executing.              *)
LEMMA MainRunsAlone ==
  ASSUME IInv, current = 0
  PROVE  Running = {0}
BY OnlyMain DEF IInv, ChainReachesMain

-----------------------------------------------------------------------------
(* One lemma per action: the invariant survives it.                           *)

LEMMA ResumeIInv ==
  ASSUME IInv, NEW n \in Names, NEW k, Resume(n, k)
  PROVE  IInv'
<1> DEFINE t == live[n]
<1>1. /\ t \in vm \ Running /\ t \in Ctx \ {0, current}
      /\ name[t] = n /\ owed[t] = 1
  BY SuspendedIsParked DEF Resume, Resumable
<1>2. /\ resumer' = [resumer EXCEPT ![t] = current]
      /\ park' = [park EXCEPT ![t] = "Running"]
      /\ owed' = [owed EXCEPT ![current] = @ + 1, ![t] = @ - 1]
      /\ current' = t
      /\ UNCHANGED <<table, catches, raising, outcome>>
  BY DEF Resume, Handover
<1>3. current \in Running /\ current \in Ctx /\ owed[current] = 0
  BY DEF Resume, IInv, TypeOK, OneAnswerPerRequest, ChainReachesMain, Linked
<1> HIDE DEF t
<1>4. TypeOK'
  <2>1. owed' \in [Ctx -> Nat]
    BY <1>1, <1>2, <1>3 DEF IInv, TypeOK
  <2>2. park' \in [Ctx -> Parks]
    BY <1>1, <1>2 DEF IInv, TypeOK, Parks
  <2> QED BY <1>1, <1>2, <1>3, <2>1, <2>2 DEF IInv, TypeOK, table
<1>5. Running' = Running \cup {t}
  BY <1>1, <1>2 DEF Running, table, IInv, TypeOK
<1>6. ChainReachesMain'
  <2>1. resumer'[t] = current /\ \A c \in Running : resumer'[c] = resumer[c]
    BY <1>1, <1>2 DEF IInv, TypeOK
  <2>2. Linked(Running, resumer, current)
    BY DEF IInv, ChainReachesMain
  <2>3. Linked(Running \cup {t}, resumer', t)
    BY PushLinked, <1>1, <2>1, <2>2
  <2> QED BY <1>2, <1>5, <2>3 DEF ChainReachesMain
<1>7. OneAnswerPerRequest'
  BY <1>1, <1>2, <1>3
     DEF IInv, TypeOK, OneAnswerPerRequest, table, Executing
<1>8. TableMatchesContexts'
  BY <1>2 DEF IInv, TableMatchesContexts, table
<1>9. ParkedHoldsNoResumer'
  BY <1>1, <1>2, <1>3, <1>5
     DEF IInv, TypeOK, ParkedHoldsNoResumer, table, Running
<1> QED BY <1>4, <1>6, <1>7, <1>8, <1>9 DEF IInv

LEMMA YieldIInv ==
  ASSUME IInv, Yield
  PROVE  IInv'
<1> DEFINE r == resumer[current]
<1>1. current \in Running /\ current \in Ctx \ {0} /\ owed[current] = 0
  BY DEF Yield, IInv, TypeOK, OneAnswerPerRequest, ChainReachesMain, Linked,
         TableMatchesContexts
<1>2. r \in Running \ {current} /\ r \in Ctx /\ owed[r] = 1
  BY <1>1, ReturnIsRunning
<1>3. /\ park' = [park EXCEPT ![current] = "AtYield"]
      /\ resumer' = [resumer EXCEPT ![current] = None]
      /\ owed' = [owed EXCEPT ![current] = @ + 1, ![r] = @ - 1]
      /\ current' = r
      /\ UNCHANGED <<table, catches, raising, outcome>>
  BY DEF Yield, Handover, ReturnsTo
<1>4. Linked(Running, resumer, current)
  BY DEF IInv, ChainReachesMain
<1>5. TypeOK'
  <2>1. owed' \in [Ctx -> Nat]
    BY <1>1, <1>2, <1>3 DEF IInv, TypeOK
  <2>2. park' \in [Ctx -> Parks]
    BY <1>1, <1>3 DEF IInv, TypeOK, Parks
  <2> QED BY <1>1, <1>2, <1>3, <2>1, <2>2 DEF IInv, TypeOK, table
<1>6. Running' = Running \ {current}
  BY <1>1, <1>3 DEF Running, table, IInv, TypeOK
<1>7. ChainReachesMain'
  <2>1. \A c \in Running \ {current} : resumer'[c] = resumer[c]
    BY <1>1, <1>3 DEF IInv, TypeOK
  <2>2. Linked(Running \ {current}, resumer', r)
    BY PopLinked, <1>1, <1>4, <2>1
  <2> QED BY <1>3, <1>6, <2>2 DEF ChainReachesMain
<1>8. OneAnswerPerRequest'
  BY <1>1, <1>2, <1>3
     DEF IInv, TypeOK, OneAnswerPerRequest, table, Executing, Yield
<1>9. TableMatchesContexts'
  BY <1>3 DEF IInv, TableMatchesContexts, table
<1>10. ParkedHoldsNoResumer'
  BY <1>1, <1>2, <1>3, <1>6
     DEF IInv, TypeOK, ParkedHoldsNoResumer, table, Running
<1> QED BY <1>5, <1>7, <1>8, <1>9, <1>10 DEF IInv

LEMMA YieldToIInv ==
  ASSUME IInv, NEW n \in Names, NEW k, YieldTo(n, k)
  PROVE  IInv'
<1> DEFINE t == live[n]
           r == resumer[current]
<1>1. current \in Running /\ current \in Ctx \ {0} /\ owed[current] = 0
  BY DEF YieldTo, IInv, TypeOK, OneAnswerPerRequest, ChainReachesMain, Linked,
         TableMatchesContexts
<1>2. r \in Running \ {current} /\ r \in Ctx
  BY <1>1, ReturnIsRunning
<1>3. /\ t \in vm \ Running /\ t \in Ctx \ {0, current}
      /\ name[t] = n /\ owed[t] = 1
  BY SuspendedIsParked DEF YieldTo, Resumable
<1>4. /\ park' = [park EXCEPT ![current] = "AtYieldTo", ![t] = "Running"]
      /\ resumer' = [resumer EXCEPT ![current] = None, ![t] = r]
      /\ owed' = [owed EXCEPT ![current] = @ + 1, ![t] = @ - 1]
      /\ current' = t
      /\ UNCHANGED <<table, catches, raising, outcome>>
  BY DEF YieldTo, Handover, Donate
<1>5. Linked(Running, resumer, current)
  BY DEF IInv, ChainReachesMain
<1> HIDE DEF t, r
<1>6. TypeOK'
  <2>1. owed' \in [Ctx -> Nat]
    BY <1>1, <1>3, <1>4 DEF IInv, TypeOK
  <2>2. park' \in [Ctx -> Parks]
    BY <1>1, <1>3, <1>4 DEF IInv, TypeOK, Parks
  <2> QED BY <1>1, <1>2, <1>3, <1>4, <2>1, <2>2 DEF IInv, TypeOK, table
<1>7. Running' = (Running \ {current}) \cup {t}
  BY <1>1, <1>3, <1>4 DEF Running, table, IInv, TypeOK
<1>8. ChainReachesMain'
  <2>1. /\ resumer'[t] = r
        /\ \A c \in Running \ {current} : resumer'[c] = resumer[c]
    <3>1. Running \subseteq Ctx
      BY DEF Running, IInv, TypeOK
    <3>2. resumer \in [Ctx -> Ctx \cup {None}]
      BY DEF IInv, TypeOK
    <3>3. resumer'[t] = r
      BY <1>3, <1>4, <3>2
    <3>4. ASSUME NEW c \in Running \ {current} PROVE resumer'[c] = resumer[c]
      BY <1>3, <1>4, <3>1, <3>2, <3>4
    <3> QED BY <3>3, <3>4
  <2>2. Linked(Running \ {current}, resumer, r)
    BY PopLinked, <1>1, <1>5 DEF r
  <2>3. Linked((Running \ {current}) \cup {t}, resumer', t)
    BY PushLinked, <1>3, <2>1, <2>2
  <2> QED BY <1>4, <1>7, <2>3 DEF ChainReachesMain
<1>9. OneAnswerPerRequest'
  BY <1>1, <1>3, <1>4
     DEF IInv, TypeOK, OneAnswerPerRequest, table, Executing, YieldTo
<1>10. TableMatchesContexts'
  BY <1>4 DEF IInv, TableMatchesContexts, table
<1>11. ParkedHoldsNoResumer'
  BY <1>1, <1>2, <1>3, <1>4, <1>7
     DEF IInv, TypeOK, ParkedHoldsNoResumer, table, Running
<1> QED BY <1>6, <1>8, <1>9, <1>10, <1>11 DEF IInv

(* The part of Retire and Propagate that is common to both: the running       *)
(* coroutine is discarded and control goes to its resumer.                    *)
DiscardCurrent ==
  /\ current # 0 /\ catches[current] = 0
  /\ vm' = VmWithout({current})
  /\ name' = NameWithout({current})
  /\ live' = LiveWithout({current})
  /\ resumer' = ResumerWithout({current})
  /\ current' = resumer[current]
  /\ UNCHANGED <<contexts, created, park, catches>>

LEMMA DiscardCurrentKeeps ==
  ASSUME IInv, DiscardCurrent
  PROVE  /\ Running' = Running \ {current}
         /\ vm' \subseteq Ctx
         /\ name' \in [Ctx -> Names \cup {None}]
         /\ resumer' \in [Ctx -> Ctx \cup {None}]
         /\ live' \in [Names -> Ctx \cup {None}]
         /\ ChainReachesMain'
         /\ TableMatchesContexts'
<1> DEFINE r == resumer[current]
<1>1. current \in Running /\ current \in Ctx \ {0}
  BY DEF DiscardCurrent, IInv, TypeOK, ChainReachesMain, Linked
<1>2. r \in Running \ {current} /\ r \in Ctx
  BY <1>1, ReturnIsRunning
<1>3. Running' = Running \ {current}
  BY DEF DiscardCurrent, VmWithout, Running
<1>4. /\ vm' \subseteq Ctx
      /\ name' \in [Ctx -> Names \cup {None}]
      /\ resumer' \in [Ctx -> Ctx \cup {None}]
      /\ live' \in [Names -> Ctx \cup {None}]
  BY DEF DiscardCurrent, VmWithout, NameWithout, ResumerWithout, LiveWithout,
         IInv, TypeOK
<1>5. ChainReachesMain'
  <2>1. \A c \in Running \ {current} : resumer'[c] = resumer[c]
    BY DEF DiscardCurrent, ResumerWithout, IInv, TypeOK, Running
  <2>2. Linked(Running, resumer, current)
    BY DEF IInv, ChainReachesMain
  <2>3. Linked(Running \ {current}, resumer', r)
    BY PopLinked, <1>1, <2>1, <2>2
  <2> QED BY <1>3, <2>3 DEF ChainReachesMain, DiscardCurrent
<1>6. TableMatchesContexts'
  <2>1. name[current] \in Names /\ live[name[current]] = current
    BY <1>1 DEF IInv, TypeOK, TableMatchesContexts, Running
  <2>2. \A c \in Ctx : name'[c] = IF c = current THEN None ELSE name[c]
    BY DEF DiscardCurrent, NameWithout
  <2>3. \A n \in Names :
          live'[n] = IF n = name[current] THEN None ELSE live[n]
    BY DEF DiscardCurrent, LiveWithout
  <2>4. vm' = vm \ {current}
    BY DEF DiscardCurrent, VmWithout
  <2>5. name'[0] = None
    BY <1>1, <2>2, CoroutineAssumption DEF IInv, TableMatchesContexts, Ctx
  <2>6. ASSUME NEW c \in Ctx \ {0}
        PROVE  c \in vm' <=> (name'[c] # None /\ live'[name'[c]] = c)
    <3>1. c \in vm <=> (name[c] # None /\ live[name[c]] = c)
      BY DEF IInv, TableMatchesContexts
    <3> QED BY <1>1, <2>1, <2>2, <2>3, <2>4, <3>1, CoroutineAssumption
            DEF IInv, TypeOK
  <2>7. ASSUME NEW n \in Names, live'[n] # None
        PROVE  live'[n] \in vm' /\ name'[live'[n]] = n
    <3>1. n # name[current] /\ live'[n] = live[n]
      BY <2>3, <2>7
    <3>2. live[n] \in vm /\ name[live[n]] = n
      BY <2>7, <3>1 DEF IInv, TableMatchesContexts
    <3> QED BY <2>2, <2>4, <3>1, <3>2 DEF IInv, TypeOK
  <2> QED BY <2>5, <2>6, <2>7 DEF TableMatchesContexts
<1> QED BY <1>3, <1>4, <1>5, <1>6

LEMMA RetireIInv ==
  ASSUME IInv, Retire
  PROVE  IInv'
<1> DEFINE r == resumer[current]
<1>1. current \in Ctx \ {0} /\ current \in Running
  BY DEF Retire, IInv, TypeOK, ChainReachesMain, Linked
<1>2. r \in Running \ {current} /\ r \in Ctx /\ owed[r] = 1
  BY <1>1, ReturnIsRunning
<1>3. DiscardCurrent
  BY DEF Retire, DiscardCurrent, ReturnsTo
<1>4. /\ Running' = Running \ {current}
      /\ ChainReachesMain' /\ TableMatchesContexts'
  BY <1>3, DiscardCurrentKeeps
<1>5. /\ owed' = [OwedWithout({current}) EXCEPT ![r] = @ - 1]
      /\ UNCHANGED <<raising, outcome>>
  BY DEF Retire, ReturnsTo
<1>6. owed' \in [Ctx -> Nat]
  BY <1>1, <1>2, <1>5 DEF OwedWithout, IInv, TypeOK
<1>7. TypeOK'
  <2>1. /\ vm' \subseteq Ctx
        /\ name' \in [Ctx -> Names \cup {None}]
        /\ resumer' \in [Ctx -> Ctx \cup {None}]
        /\ live' \in [Names -> Ctx \cup {None}]
    BY <1>3, DiscardCurrentKeeps
  <2>2. current' \in Ctx /\ UNCHANGED <<contexts, created, park, catches>>
    BY <1>2, <1>3 DEF DiscardCurrent
  <2> QED BY <1>5, <1>6, <2>1, <2>2 DEF IInv, TypeOK
<1>8. OneAnswerPerRequest'
  <2>1. \A c \in Ctx : owed'[c] = IF c = current THEN 0
                                  ELSE IF c = r THEN 0 ELSE owed[c]
    BY <1>1, <1>2, <1>5 DEF OwedWithout, IInv, TypeOK
  <2>2. vm' = vm \ {current} /\ current' = r
    BY <1>3 DEF DiscardCurrent, VmWithout
  <2> QED BY <1>1, <1>2, <2>1, <2>2 DEF IInv, TypeOK, OneAnswerPerRequest
<1>9. ParkedHoldsNoResumer'
  BY <1>1, <1>2, <1>3, <1>4, <1>5
     DEF DiscardCurrent, VmWithout, ResumerWithout, OwedWithout,
         IInv, TypeOK, ParkedHoldsNoResumer
<1> QED BY <1>4, <1>7, <1>8, <1>9 DEF IInv

LEMMA PropagateIInv ==
  ASSUME IInv, Propagate
  PROVE  IInv'
<1> DEFINE r == resumer[current]
<1>1. current \in Ctx \ {0} /\ current \in Running
  BY DEF Propagate, IInv, TypeOK, ChainReachesMain, Linked
<1>2. r \in Running \ {current} /\ r \in Ctx /\ owed[r] = 1
  BY <1>1, ReturnIsRunning
<1>3. DiscardCurrent /\ UNCHANGED <<raising, outcome>> /\ Unwinding
  BY <1>2, CoroutineAssumption DEF Propagate, DiscardCurrent, ReturnsTo
<1>4. /\ Running' = Running \ {current}
      /\ ChainReachesMain' /\ TableMatchesContexts'
  BY <1>3, DiscardCurrentKeeps
<1>5. owed' = OwedWithout({current})
  BY DEF Propagate
<1>6. owed' \in [Ctx -> Nat]
  BY <1>5 DEF OwedWithout, IInv, TypeOK
<1>7. TypeOK'
  <2>1. /\ vm' \subseteq Ctx
        /\ name' \in [Ctx -> Names \cup {None}]
        /\ resumer' \in [Ctx -> Ctx \cup {None}]
        /\ live' \in [Names -> Ctx \cup {None}]
    BY <1>3, DiscardCurrentKeeps
  <2>2. current' \in Ctx /\ UNCHANGED <<contexts, created, park, catches>>
    BY <1>2, <1>3 DEF DiscardCurrent
  <2> QED BY <1>3, <1>6, <2>1, <2>2 DEF IInv, TypeOK
<1>8. OneAnswerPerRequest'
  <2>1. \A c \in Ctx : owed'[c] = IF c = current THEN 0 ELSE owed[c]
    BY <1>5 DEF OwedWithout, IInv, TypeOK
  <2>2. vm' = vm \ {current} /\ current' = r
    BY <1>3 DEF DiscardCurrent, VmWithout
  <2> QED BY <1>1, <1>2, <1>3, <2>1, <2>2
          DEF IInv, TypeOK, OneAnswerPerRequest, Executing, Unwinding
<1>9. ParkedHoldsNoResumer'
  BY <1>1, <1>2, <1>3, <1>4, <1>5
     DEF DiscardCurrent, VmWithout, ResumerWithout, OwedWithout,
         IInv, TypeOK, ParkedHoldsNoResumer
<1> QED BY <1>4, <1>7, <1>8, <1>9 DEF IInv

(* The steps that move no control: they change the regions a context has      *)
(* open, the value it waits for or the error on its way, of the current one.  *)
LEMMA StayIInv ==
  ASSUME IInv, Refuse \/ Fail \/ Finish \/ OpenCatch \/ CloseCatch
               \/ Absorb \/ PassRegion \/ EndCall \/ Escape
               \/ UNCHANGED vars
  PROVE  IInv'
<1>1. /\ UNCHANGED <<resumer, park, current, table>>
      /\ Running' = Running
  BY DEF Refuse, Fail, Finish, OpenCatch, CloseCatch, Absorb, PassRegion,
         EndCall, Escape, control, table, vars, Running
<1>2. current \in Ctx /\ current \in Running /\ current \in vm
  BY DEF IInv, TypeOK, ChainReachesMain, Linked, Running
<1>3. /\ \A c \in Ctx \ {current} : /\ catches'[c] = catches[c]
                                    /\ owed'[c] = owed[c]
      /\ catches' \in [Ctx -> 0 .. MaxCatches]
      /\ owed' \in [Ctx -> Nat]
      /\ owed'[current] <= 1
      /\ Executing' => owed'[current] = 0
      /\ raising' \in Codes \cup {"none"}
      /\ outcome' \in {"running", "value", "error"}
  <2> USE <1>2, CoroutineAssumption
      DEF IInv, TypeOK, OneAnswerPerRequest, Executing
  <2>1. CASE Refuse
    BY <2>1 DEF Refuse, Codes
  <2>2. CASE Fail
    BY <2>2 DEF Fail, control, table
  <2>3. CASE Finish
    BY <2>3 DEF Finish, control, table
  <2>4. CASE OpenCatch
    <3>1. /\ catches' = [catches EXCEPT ![current] = @ + 1]
          /\ catches[current] \in 0 .. MaxCatches - 1
          /\ UNCHANGED <<owed, raising, outcome>>
      BY <2>4 DEF OpenCatch, control, table
    <3> QED BY <3>1
  <2>5. CASE CloseCatch
    <3>1. /\ catches' = [catches EXCEPT ![current] = @ - 1]
          /\ catches[current] \in 1 .. MaxCatches
          /\ UNCHANGED <<owed, raising, outcome>>
      BY <2>5 DEF CloseCatch, control, table
    <3> QED BY <3>1
  <2>6. CASE Absorb
    <3>1. /\ owed' = [owed EXCEPT ![current] = 0]
          /\ raising' = "none" /\ outcome' = outcome
      BY <2>6 DEF Absorb
    <3>2. /\ \/ /\ catches' = [catches EXCEPT ![current] = @ - 1]
                /\ catches[current] \in 1 .. MaxCatches
             \/ catches' = catches
      BY <2>6 DEF Absorb
    <3>3. /\ catches' \in [Ctx -> 0 .. MaxCatches]
          /\ owed' \in [Ctx -> Nat] /\ owed'[current] = 0
      BY <3>1, <3>2
    <3>4. \A c \in Ctx \ {current} : /\ catches'[c] = catches[c]
                                     /\ owed'[c] = owed[c]
      BY <3>1, <3>2
    <3> QED BY <3>1, <3>3, <3>4
  <2>9. CASE PassRegion
    <3>1. /\ catches' = [catches EXCEPT ![current] = @ - 1]
          /\ catches[current] \in 1 .. MaxCatches
          /\ UNCHANGED <<owed, outcome>>
      BY <2>9 DEF PassRegion, control
    <3>2. raising' \in Codes
      BY <2>9 DEF PassRegion, Becomes, Unwinding, Codes
    <3>3. raising' # "none"
      BY <3>2 DEF Codes
    <3> QED BY <3>1, <3>2, <3>3
  <2>10. CASE EndCall
    <3>1. /\ owed' = [owed EXCEPT ![current] = 0]
          /\ raising' \in Codes \cup {"none"} /\ UNCHANGED <<catches, outcome>>
      BY <2>10 DEF EndCall
    <3>2. owed' \in [Ctx -> Nat] /\ owed'[current] = 0
      BY <3>1
    <3> QED BY <3>1, <3>2
  <2>7. CASE Escape
    BY <2>7 DEF Escape, control, table
  <2>8. CASE UNCHANGED vars
    BY <2>8 DEF vars, control, table
  <2> QED BY <2>1, <2>2, <2>3, <2>4, <2>5, <2>6, <2>7, <2>8, <2>9, <2>10
<1>4. TypeOK'
  BY <1>1, <1>3 DEF IInv, TypeOK, table
<1>5. ChainReachesMain' /\ TableMatchesContexts'
  BY <1>1 DEF IInv, ChainReachesMain, TableMatchesContexts, table
<1>6. OneAnswerPerRequest'
  BY <1>1, <1>3 DEF IInv, TypeOK, OneAnswerPerRequest, table
<1>7. ParkedHoldsNoResumer'
  BY <1>1, <1>2, <1>3 DEF IInv, ParkedHoldsNoResumer, table
<1> QED BY <1>4, <1>5, <1>6, <1>7 DEF IInv

(* Making a coroutine: whatever had the name is parked, because only the main *)
(* script makes one, so discarding it takes nothing out of the running chain. *)
LEMMA CreateIInv ==
  ASSUME IInv, NEW n \in Names, Create(n)
  PROVE  IInv'
<1> DEFINE gone == IF live[n] = None THEN {} ELSE {live[n]}
           new  == contexts
<1>1. current = 0 /\ Running = {0}
  BY MainRunsAlone DEF Create, MayCreate
<1>2. /\ new \in Ctx \ {0} /\ new \notin vm
      /\ resumer[new] = None /\ 0 \in Ctx /\ 0 \in vm
      /\ owed[0] = 0
  BY <1>1, CoroutineAssumption
     DEF Create, Ctx, IInv, TypeOK, ParkedHoldsNoResumer, OneAnswerPerRequest,
         ChainReachesMain, Linked, Running
<1>3. /\ gone \subseteq vm \ Running /\ gone \subseteq Ctx \ {0, new}
      /\ \A c \in gone : name[c] = n /\ live[n] = c
      /\ live[n] # None => gone = {live[n]}
  BY <1>1, <1>2, CoroutineAssumption
     DEF IInv, TypeOK, TableMatchesContexts, Running
<1>4. /\ contexts' = contexts + 1
      /\ vm' = (vm \ gone) \cup {new}
      /\ name' = [NameWithout(gone) EXCEPT ![new] = n]
      /\ resumer' = [ResumerWithout(gone) EXCEPT ![new] = 0]
      /\ park' = [park EXCEPT ![new] = "Running"]
      /\ catches' = [CatchesWithout(gone) EXCEPT ![new] = 0]
      /\ live' = [LiveWithout(gone) EXCEPT ![n] = new]
      /\ created' = created \cup {n}
      /\ current' = new
      /\ owed' = [OwedWithout(gone) EXCEPT ![0] = @ + 1, ![new] = 0]
      /\ UNCHANGED <<raising, outcome>>
  BY <1>1 DEF Create, VmWithout
<1> HIDE DEF gone
<1>5. /\ \A c \in Ctx :
           /\ name'[c] = IF c = new THEN n
                         ELSE IF c \in gone THEN None ELSE name[c]
           /\ resumer'[c] = IF c = new THEN 0
                            ELSE IF c \in gone THEN None ELSE resumer[c]
           /\ catches'[c] = IF c = new \/ c \in gone THEN 0 ELSE catches[c]
           /\ owed'[c] = IF c = new \/ c \in gone THEN 0
                         ELSE IF c = 0 THEN 1 ELSE owed[c]
      /\ name' \in [Ctx -> Names \cup {None}]
      /\ resumer' \in [Ctx -> Ctx \cup {None}]
      /\ catches' \in [Ctx -> 0 .. MaxCatches]
      /\ owed' \in [Ctx -> Nat]
  <2>1. \A c \in Ctx : name'[c] = IF c = new THEN n
                                 ELSE IF c \in gone THEN None ELSE name[c]
    BY <1>2, <1>4 DEF NameWithout
  <2>2. \A c \in Ctx : resumer'[c] = IF c = new THEN 0
                                    ELSE IF c \in gone THEN None
                                    ELSE resumer[c]
    BY <1>2, <1>4 DEF ResumerWithout
  <2>3. \A c \in Ctx : catches'[c] = IF c = new \/ c \in gone THEN 0
                                    ELSE catches[c]
    BY <1>2, <1>4 DEF CatchesWithout
  <2>4. \A c \in Ctx : owed'[c] = IF c = new \/ c \in gone THEN 0
                                 ELSE IF c = 0 THEN 1 ELSE owed[c]
    <3>1. /\ OwedWithout(gone) \in [Ctx -> Nat]
          /\ \A c \in Ctx : OwedWithout(gone)[c]
                            = IF c \in gone THEN 0 ELSE owed[c]
      BY DEF OwedWithout, IInv, TypeOK
    <3> HIDE DEF new
    <3> QED BY <1>2, <1>3, <1>4, <3>1
  <2>5. name' \in [Ctx -> Names \cup {None}]
    BY <1>4 DEF NameWithout, IInv, TypeOK
  <2>6. resumer' \in [Ctx -> Ctx \cup {None}]
    BY <1>2, <1>4 DEF ResumerWithout, IInv, TypeOK
  <2>7. catches' \in [Ctx -> 0 .. MaxCatches]
    <3>1. CatchesWithout(gone) \in [Ctx -> 0 .. MaxCatches]
      BY CoroutineAssumption DEF CatchesWithout, IInv, TypeOK
    <3>2. 0 \in 0 .. MaxCatches
      BY CoroutineAssumption
    <3> HIDE DEF new
    <3> QED BY <1>4, <3>1, <3>2
  <2>8. owed' \in [Ctx -> Nat]
    <3>1. OwedWithout(gone) \in [Ctx -> Nat]
      BY DEF OwedWithout, IInv, TypeOK
    <3> HIDE DEF new
    <3> QED BY <1>2, <1>4, <3>1
  <2> QED BY <2>1, <2>2, <2>3, <2>4, <2>5, <2>6, <2>7, <2>8
<1>6. /\ \A m \in Names : live'[m] = IF m = n THEN new ELSE live[m]
      /\ live' \in [Names -> Ctx \cup {None}]
  <2>1. \A m \in Names \ {n} : ~\E c \in gone : name[c] = m
    BY <1>3
  <2> QED BY <1>2, <1>4, <2>1 DEF LiveWithout, IInv, TypeOK
<1>7. TypeOK'
  <2>1. contexts' \in 1 .. MaxContexts + 1
    BY <1>4, CoroutineAssumption DEF Create, IInv, TypeOK
  <2>2. park' \in [Ctx -> Parks]
    BY <1>4 DEF IInv, TypeOK, Parks
  <2> QED BY <1>2, <1>4, <1>5, <1>6, <2>1, <2>2 DEF IInv, TypeOK
<1>8. Running' = {0, new}
  BY <1>1, <1>2, <1>3, <1>4 DEF Running, IInv, TypeOK
<1>9. ChainReachesMain'
  <2>1. Linked({0}, resumer, 0)
    BY <1>1 DEF IInv, ChainReachesMain
  <2>2. resumer'[new] = 0 /\ resumer'[0] = resumer[0] /\ new \notin {0}
    BY <1>2, <1>3, <1>5
  <2>3. Linked({0} \cup {new}, resumer', new)
    <3>1. \A c \in {0} : resumer'[c] = resumer[c]
      BY <2>2
    <3> QED BY PushLinked, <2>1, <2>2, <3>1
  <2>4. {0} \cup {new} = Running'
    BY <1>8
  <2> QED BY <1>4, <2>3, <2>4 DEF ChainReachesMain
<1>10. OneAnswerPerRequest'
  BY <1>1, <1>2, <1>3, <1>4, <1>5 DEF IInv, TypeOK, OneAnswerPerRequest
<1>11. TableMatchesContexts'
  <2>1. name'[0] = None
    BY <1>2, <1>3, <1>5 DEF IInv, TableMatchesContexts
  <2>2. ASSUME NEW c \in Ctx \ {0}
        PROVE  c \in vm' <=> (name'[c] # None /\ live'[name'[c]] = c)
    <3>1. c \in vm <=> (name[c] # None /\ live[name[c]] = c)
      BY DEF IInv, TableMatchesContexts
    <3>2. CASE c = new
      BY <1>4, <1>5, <1>6, <3>2, CoroutineAssumption
    <3>3. CASE c \in gone
      BY <1>2, <1>3, <1>4, <1>5, <3>3
    <3>4. CASE c # new /\ c \notin gone
      <4>1. name'[c] = name[c] /\ (c \in vm' <=> c \in vm)
        BY <1>4, <1>5, <3>4
      <4>2. CASE name[c] = n
        <5>1. live[n] # c
          BY <1>3, <3>4, <4>2, CoroutineAssumption
        <5> QED BY <1>6, <3>1, <3>4, <4>1, <4>2, <5>1
      <4>3. CASE name[c] # n
        BY <1>6, <3>1, <4>1, <4>3 DEF IInv, TypeOK
      <4> QED BY <4>2, <4>3
    <3> QED BY <3>2, <3>3, <3>4
  <2>3. ASSUME NEW m \in Names, live'[m] # None
        PROVE  live'[m] \in vm' /\ name'[live'[m]] = m
    <3>1. CASE m = n
      BY <1>2, <1>4, <1>5, <1>6, <3>1
    <3>2. CASE m # n
      <4>1. /\ live'[m] = live[m] /\ live[m] \in vm /\ name[live[m]] = m
            /\ live[m] \in Ctx
        BY <1>6, <2>3, <3>2 DEF IInv, TypeOK, TableMatchesContexts
      <4>2. live[m] \notin gone /\ live[m] # new
        BY <1>2, <1>3, <3>2, <4>1
      <4> QED BY <1>4, <1>5, <4>1, <4>2
    <3> QED BY <3>1, <3>2
  <2> QED BY <2>1, <2>2, <2>3 DEF TableMatchesContexts
<1>12. ParkedHoldsNoResumer'
  <2>1. \A c \in Ctx : c \notin Running' => resumer'[c] = None
    BY <1>1, <1>5, <1>8 DEF IInv, ParkedHoldsNoResumer
  <2>2. \A c \in Ctx : c >= contexts' => c \notin vm'
    BY <1>4 DEF IInv, TypeOK, ParkedHoldsNoResumer, Ctx
  <2>3. \A c \in Ctx \ vm' : catches'[c] = 0 /\ owed'[c] = 0
    BY <1>2, <1>3, <1>4, <1>5 DEF IInv, ParkedHoldsNoResumer
  <2> QED BY <2>1, <2>2, <2>3 DEF ParkedHoldsNoResumer
<1> QED BY <1>7, <1>9, <1>10, <1>11, <1>12 DEF IInv

-----------------------------------------------------------------------------
LEMMA NextIInv == IInv /\ [Next]_vars => IInv'
<1> SUFFICES ASSUME IInv, [Next]_vars PROVE IInv'
  OBVIOUS
<1>1. ASSUME NEW n \in Names, Create(n) PROVE IInv'
  BY <1>1, CreateIInv
<1>2. ASSUME NEW n \in Names, NEW k \in 0 .. MaxArgs, Resume(n, k)
      PROVE  IInv'
  BY <1>2, ResumeIInv
<1>3. ASSUME NEW n \in Names, NEW k \in 0 .. MaxArgs, YieldTo(n, k)
      PROVE  IInv'
  BY <1>3, YieldToIInv
<1>4. CASE Yield
  BY <1>4, YieldIInv
<1>5. CASE Retire
  BY <1>5, RetireIInv
<1>6. CASE Propagate
  BY <1>6, PropagateIInv
<1>7. CASE Refuse \/ Fail \/ Finish \/ OpenCatch \/ CloseCatch
           \/ Absorb \/ PassRegion \/ EndCall \/ Escape \/ Ended
           \/ UNCHANGED vars
  BY <1>7, StayIInv DEF Ended
<1> QED BY <1>1, <1>2, <1>3, <1>4, <1>5, <1>6, <1>7 DEF Next, RaiseStep

(* The inductive invariant holds in every state of the driver.                *)
THEOREM Invariance == Spec => []IInv
<1> QED BY InitIInv, NextIInv, PTL DEF Spec

(* Type correctness: every index the driver keeps is one of `contexts`, and   *)
(* no VM is ever answered more often than it asked.                           *)
THEOREM TypeCorrect == Spec => []TypeOK
<1>1. IInv => TypeOK
  BY DEF IInv
<1> QED BY <1>1, Invariance, PTL

(* Following `resumer` from the context that runs reaches the main script,    *)
(* through every running context once: yield and the end of a coroutine       *)
(* always have somewhere to go.                                               *)
THEOREM ControlReturns == Spec => []ChainReachesMain
<1>1. IInv => ChainReachesMain
  BY DEF IInv
<1> QED BY <1>1, Invariance, PTL

(* Each VM halted in an op is answered by exactly one value.                  *)
THEOREM EachRequestAnswered == Spec => []OneAnswerPerRequest
<1>1. IInv => OneAnswerPerRequest
  BY DEF IInv
<1> QED BY <1>1, Invariance, PTL

(* A coroutine command exists exactly while the context it names has a VM.    *)
THEOREM NamesAreLive == Spec => []TableMatchesContexts
<1>1. IInv => TableMatchesContexts
  BY DEF IInv
<1> QED BY <1>1, Invariance, PTL

(* What is parked or gone holds no way back.                                  *)
THEOREM ParkedIsDetached == Spec => []ParkedHoldsNoResumer
<1>1. IInv => ParkedHoldsNoResumer
  BY DEF IInv
<1> QED BY <1>1, Invariance, PTL

(* A coroutine is deleted only by its end, by an error it let through, or by  *)
(* its name being made again while it is parked, and never runs afterwards.   *)
THEOREM DeletedStaysDeleted == Spec => DeletionIsFinal
<1> DEFINE Final ==
      /\ \A c \in Ctx : (c < contexts /\ c \notin vm) => c \notin vm'
      /\ \A c \in vm \ vm' : \/ c = current /\ catches[c] = 0
                             \/ c \notin Running /\ current = 0
<1>1. IInv /\ [Next]_vars => [Final]_vars
  <2> SUFFICES ASSUME IInv, [Next]_vars PROVE [Final]_vars
    OBVIOUS
  <2>1. ASSUME NEW n \in Names, Create(n) PROVE Final
    <3> DEFINE gone == IF live[n] = None THEN {} ELSE {live[n]}
    <3>1. current = 0 /\ Running = {0}
      BY <2>1, MainRunsAlone DEF Create, MayCreate
    <3>2. gone \subseteq vm \ {0}
      BY <3>1, CoroutineAssumption DEF IInv, TableMatchesContexts, Running
    <3>3. vm' = (vm \ gone) \cup {contexts}
      BY <2>1 DEF Create, VmWithout
    <3>4. \A c \in Ctx : c < contexts => c # contexts
      BY DEF IInv, TypeOK, Ctx
    <3> HIDE DEF gone
    <3> QED BY <3>1, <3>2, <3>3, <3>4
  <2>2. CASE Retire \/ Propagate
    BY <2>2 DEF Retire, Propagate, VmWithout
  <2>3. CASE vm' = vm
    BY <2>3
  <2>4. Next => \/ \E n \in Names : Create(n)
                \/ Retire \/ Propagate
                \/ vm' = vm
    BY DEF Next, RaiseStep, Resume, YieldTo, Yield, Refuse, Fail, Finish,
           OpenCatch, CloseCatch, Absorb, PassRegion, EndCall, Escape, Ended,
           vars, control, table
  <2> QED BY <2>1, <2>2, <2>3, <2>4 DEF vars
<1>2. Spec => [][Final]_vars
  BY <1>1, Invariance, PTL DEF Spec
<1> QED BY <1>2 DEF DeletionIsFinal
-----------------------------------------------------------------------------
(* The stack that CoroutineStack promises.  The contexts below each one are   *)
(* a function defined by recursion along `resumer`: the invariant says that   *)
(* one that obeys the equation exists, and that the resumers of the running   *)
(* contexts are a path says that there is no other.                           *)
StackOf(g, f, c) == IF f[c] = None THEN <<c>> ELSE Append(g[f[c]], c)
Leads(g, f) ==
  /\ g \in [Ctx -> Seq(Ctx) \ {<<>>}]
  /\ \A c \in Ctx : g[c] = StackOf(g, f, c)
Parked == {c \in vm : park[c] # "Running"}
RInv ==
  /\ IInv
  /\ Unwinding => outcome = "running"
  /\ \E g : Leads(g, resumer)

Upto(f) ==
  LET upto[c \in Ctx] ==
        IF f[c] = None THEN <<c>> ELSE Append(upto[f[c]], c)
  IN  upto

(* Two that obey the equation say the same of everything on the path.         *)
LEMMA LeadsOnce ==
  ASSUME NEW R \in SUBSET Ctx, NEW f, NEW top, Linked(R, f, top), NEW g, NEW h,
         \A c \in Ctx : g[c] = StackOf(g, f, c),
         \A c \in Ctx : h[c] = StackOf(h, f, c)
  PROVE  g[top] = h[top]
<1> DEFINE S == {c \in R \ {0} : g[c] # h[c]}
<1>1. 0 \in R /\ f[0] = None /\ top \in R
  BY DEF Linked
<1>2. g[0] = <<0>> /\ h[0] = <<0>>
  BY <1>1 DEF StackOf
<1>3. S = {}
  <2> SUFFICES ASSUME S # {} PROVE FALSE
    OBVIOUS
  <2>1. S \in SUBSET (R \ {0})
    OBVIOUS
  <2>2. PICK x \in S : f[x] \notin S
    <3> HIDE DEF S
    <3> QED BY <2>1 DEF Linked
  <2>3. f[x] \in R /\ x \in Ctx /\ f[x] \in Ctx
    BY <2>2 DEF Linked
  <2>4. g[f[x]] = h[f[x]]
    BY <1>2, <2>2, <2>3
  <2>5. g[x] = h[x]
    BY <2>3, <2>4 DEF StackOf
  <2> QED BY <2>2, <2>5
<1> QED BY <1>1, <1>2, <1>3

(* So the recursive function and any one that obeys the equation agree there. *)
LEMMA UptoIs ==
  ASSUME NEW R \in SUBSET Ctx, NEW f, NEW top, Linked(R, f, top),
         NEW g, Leads(g, f)
  PROVE  Upto(f)[top] = g[top]
<1> DEFINE Step(h) == [c \in Ctx |-> StackOf(h, f, c)]
           u == Upto(f)
<1>1. u = CHOOSE h : h = Step(h)
  BY DEF Upto, StackOf
<1>2. g = Step(g)
  BY DEF Leads
<1>3. u = Step(u)
  <2> HIDE DEF u, Step
  <2> QED BY <1>1, <1>2
<1>4. \A c \in Ctx : u[c] = StackOf(u, f, c)
  <2> HIDE DEF u
  <2> QED BY <1>3
<1>5. \A c \in Ctx : g[c] = StackOf(g, f, c)
  BY DEF Leads
<1> HIDE DEF u
<1>6. u[top] = g[top]
  BY <1>4, <1>5, LeadsOnce
<1> QED BY <1>6 DEF u

LEMMA ChainIsUpto ==
  /\ Chain = Upto(resumer)[current]
  /\ Chain' = Upto(resumer')[current']
BY DEF Chain, Upto

(* The stack with its top, and what is below it.                              *)
PathIs(path, g, f, top) ==
  /\ top \in Ctx
  /\ path = g[top] /\ path \in Seq(Ctx) /\ path # <<>>
  /\ top = 0 => path = <<0>>
  /\ top # 0 => /\ f[top] \in Ctx /\ path = Append(g[f[top]], top)
                /\ g[f[top]] \in Seq(Ctx) /\ g[f[top]] # <<>>

LEMMA LinkedLeads ==
  ASSUME NEW R \in SUBSET Ctx, NEW f, NEW top, Linked(R, f, top),
         NEW g, Leads(g, f)
  PROVE  PathIs(Upto(f)[top], g, f, top)
<1>1. top \in Ctx /\ g[top] \in Seq(Ctx) /\ g[top] # <<>>
  BY DEF Linked, Leads
<1>2. g[top] = StackOf(g, f, top)
  BY <1>1 DEF Leads
<1>3. Upto(f)[top] = g[top]
  BY UptoIs
<1>4. top = 0 => g[top] = <<0>>
  BY <1>2 DEF Linked, StackOf
<1>5. ASSUME top # 0
      PROVE  /\ f[top] \in Ctx /\ g[top] = Append(g[f[top]], top)
             /\ g[f[top]] \in Seq(Ctx) /\ g[f[top]] # <<>>
  <2>1. f[top] \in Ctx
    BY <1>5 DEF Linked
  <2>2. g[f[top]] \in Seq(Ctx) /\ g[f[top]] # <<>>
    BY <2>1 DEF Leads
  <2>3. f[top] # None
    BY <2>1, CoroutineAssumption
  <2> QED BY <1>2, <2>1, <2>2, <2>3 DEF StackOf
<1> QED BY <1>1, <1>3, <1>4, <1>5 DEF PathIs

(* What that says of the driver, before a step and after it.                  *)
LEMMA ChainNow ==
  ASSUME IInv, NEW g, Leads(g, resumer)
  PROVE  PathIs(Chain, g, resumer, current)
<1>1. Running \in SUBSET Ctx /\ Linked(Running, resumer, current)
  BY DEF IInv, TypeOK, ChainReachesMain, Running
<1> QED BY <1>1, LinkedLeads, ChainIsUpto

LEMMA ChainNext ==
  ASSUME IInv', NEW g, Leads(g, resumer')
  PROVE  PathIs(Chain', g, resumer', current')
<1>1. Running' \in SUBSET Ctx /\ Linked(Running', resumer', current')
  BY DEF IInv, TypeOK, ChainReachesMain, Running
<1> QED BY <1>1, LinkedLeads, ChainIsUpto

(* The top of a stack that is not the script's, and what is below it.         *)
LEMMA TopAndBelow ==
  ASSUME NEW s \in Seq(Ctx), s # <<>>, NEW c \in Ctx
  PROVE  /\ Append(s, c)[Len(Append(s, c))] = c
         /\ Len(Append(s, c)) # 1
         /\ SubSeq(Append(s, c), 1, Len(Append(s, c)) - 1) = s
<1> DEFINE t == Append(s, c)
<1>1. t \in Seq(Ctx) /\ Len(t) = Len(s) + 1 /\ Len(s) \in Nat \ {0} /\ t[Len(t)] = c
  OBVIOUS
<1>2. \A i \in 1 .. Len(s) : t[i] = s[i]
  OBVIOUS
<1> HIDE DEF t
<1>3. SubSeq(t, 1, Len(t) - 1) = s
  BY <1>1, <1>2
<1>4. t[Len(t)] = c /\ Len(t) # 1 /\ SubSeq(t, 1, Len(t) - 1) = s
  BY <1>1, <1>3
<1> QED BY <1>4 DEF t

(* Nobody who runs, or is parked, goes back to these.                         *)
LEMMA NobodyReturnsTo ==
  ASSUME IInv, NEW t \in Ctx, t = current \/ t \notin Running
  PROVE  \A c \in Ctx : resumer[c] # t
<1>1. Linked(Running, resumer, current) /\ ParkedHoldsNoResumer
  BY DEF IInv, ChainReachesMain
<1>2. 0 \in Running /\ resumer[0] = None
  BY <1>1 DEF Linked
<1>3. \A c \in Running \ {0} : resumer[c] \in Running \ {current}
  BY <1>1 DEF Linked
<1>4. \A c \in Ctx : c \notin Running => resumer[c] = None
  BY <1>1 DEF ParkedHoldsNoResumer
<1> QED BY <1>2, <1>3, <1>4, CoroutineAssumption

(* A context nobody goes back to gets another way back.                       *)
LEMMA LeadsPut ==
  ASSUME NEW g, NEW f, Leads(g, f), NEW k, NEW t \in Ctx,
         f \in [Ctx -> Ctx \cup {None}],
         \A c \in Ctx : f[c] # t,
         \A c \in Ctx \ {t} : k[c] = f[c],
         k[t] \in (Ctx \ {t}) \cup {None}
  PROVE  \E h : Leads(h, k) /\ \A c \in Ctx \ {t} : h[c] = g[c]
<1>1. PICK s : s = StackOf(g, k, t)
  OBVIOUS
<1>2. s \in Seq(Ctx) \ {<<>>}
  <2>1. CASE k[t] = None
    BY <1>1, <2>1 DEF StackOf
  <2>2. CASE k[t] \in Ctx \ {t}
    <3>1. PICK r : r = g[k[t]]
      OBVIOUS
    <3>2. r \in Seq(Ctx)
      BY <2>2, <3>1 DEF Leads
    <3>3. s = Append(r, t)
      BY <1>1, <2>2, <3>1, CoroutineAssumption DEF StackOf
    <3> QED BY <3>2, <3>3
  <2> QED BY <2>1, <2>2
<1>3. PICK h : h = [c \in Ctx |-> IF c = t THEN s ELSE g[c]]
  OBVIOUS
<1>4. h \in [Ctx -> Seq(Ctx) \ {<<>>}]
  BY <1>2, <1>3 DEF Leads
<1>5. h[t] = s /\ \A c \in Ctx \ {t} : h[c] = g[c]
  BY <1>3
<1>6. h[t] = StackOf(h, k, t)
  BY <1>1, <1>5 DEF StackOf
<1>7. ASSUME NEW c \in Ctx \ {t} PROVE h[c] = StackOf(h, k, c)
  <2>1. g[c] = StackOf(g, f, c)
    BY DEF Leads
  <2>2. f[c] = None \/ f[c] \in Ctx \ {t}
    OBVIOUS
  <2> QED BY <1>5, <2>1, <2>2 DEF StackOf
<1>8. Leads(h, k)
  BY <1>4, <1>6, <1>7 DEF Leads
<1> QED BY <1>5, <1>8

-----------------------------------------------------------------------------
(* One lemma per action: the step it is of the stack.                         *)
StackStep == RInv' /\ [Stack!Next]_Stack!vars

LEMMA ResumeStacks ==
  ASSUME RInv, NEW n \in Names, NEW k, Resume(n, k)
  PROVE  StackStep
<1>1. IInv /\ IInv'
  BY ResumeIInv DEF RInv
<1>2. PICK t : t = live[n]
  OBVIOUS
<1>3. t \in vm \ Running /\ t \in Ctx \ {0, current}
  BY <1>1, <1>2, SuspendedIsParked DEF Resume, Resumable
<1>4. /\ resumer' = [resumer EXCEPT ![t] = current]
      /\ park' = [park EXCEPT ![t] = "Running"]
      /\ current' = t
      /\ UNCHANGED <<vm, contexts, raising, outcome>>
      /\ outcome = "running" /\ raising = "none"
  BY <1>2 DEF Resume, Executing, table
<1>5. current \in Ctx /\ resumer \in [Ctx -> Ctx \cup {None}]
      /\ park \in [Ctx -> Parks] /\ vm \subseteq Ctx
  BY <1>1 DEF IInv, TypeOK
<1>6. resumer'[t] = current /\ \A c \in Ctx \ {t} : resumer'[c] = resumer[c]
  BY <1>3, <1>4, <1>5
<1>7. PICK g : Leads(g, resumer)
  BY DEF RInv
<1>8. \A c \in Ctx : resumer[c] # t
  BY <1>1, <1>3, NobodyReturnsTo
<1>9. resumer'[t] \in (Ctx \ {t}) \cup {None}
  BY <1>3, <1>5, <1>6
<1>10. PICK h : Leads(h, resumer') /\ \A c \in Ctx \ {t} : h[c] = g[c]
  BY <1>3, <1>5, <1>6, <1>7, <1>8, <1>9, LeadsPut
<1>11. PathIs(Chain, g, resumer, current) /\ PathIs(Chain', h, resumer', current')
  BY <1>1, <1>7, <1>10, ChainNow, ChainNext
<1>12. Chain' = Append(Chain, t)
  BY <1>3, <1>4, <1>5, <1>6, <1>10, <1>11 DEF PathIs
<1>13. t \in Parked /\ Parked' = Parked \ {t}
  BY <1>3, <1>4, <1>5 DEF Parked, Running
<1>14. Stack!Resume(t)
  BY <1>4, <1>12, <1>13 DEF Stack!Resume, Parked
<1>15. RInv'
  BY <1>1, <1>4, <1>10 DEF RInv, Unwinding
<1> QED BY <1>13, <1>14, <1>15 DEF StackStep, Stack!Next, Parked

(* The current coroutine leaves and control goes to its resumer.              *)
LEMMA LeavesTop ==
  ASSUME IInv, IInv', NEW g, Leads(g, resumer), current # 0,
         current' = resumer[current],
         resumer'[current] = None,
         \A c \in Ctx \ {current} : resumer'[c] = resumer[c]
  PROVE  /\ Len(Chain) # 1 /\ Chain[Len(Chain)] = current
         /\ Chain' = SubSeq(Chain, 1, Len(Chain) - 1)
         /\ \E h : Leads(h, resumer')
<1>1. current \in Ctx /\ resumer \in [Ctx -> Ctx \cup {None}]
  BY DEF IInv, TypeOK
<1>2. \A c \in Ctx : resumer[c] # current
  BY <1>1, NobodyReturnsTo
<1>3. resumer'[current] \in (Ctx \ {current}) \cup {None}
  OBVIOUS
<1>4. PICK h : Leads(h, resumer') /\ \A c \in Ctx \ {current} : h[c] = g[c]
  BY <1>1, <1>2, <1>3, LeadsPut
<1>5. PathIs(Chain, g, resumer, current) /\ PathIs(Chain', h, resumer', current')
  BY <1>4, ChainNow, ChainNext
<1>6. PICK r : r = resumer[current]
  OBVIOUS
<1>7. r \in Ctx \ {current}
  BY <1>1, <1>2, <1>5, <1>6 DEF PathIs
<1>8. Chain' = g[r]
  BY <1>4, <1>5, <1>6, <1>7 DEF PathIs
<1>9. g[r] \in Seq(Ctx) /\ g[r] # <<>> /\ Chain = Append(g[r], current)
  BY <1>5, <1>6 DEF PathIs
<1>10. /\ Chain[Len(Chain)] = current /\ Len(Chain) # 1
       /\ SubSeq(Chain, 1, Len(Chain) - 1) = g[r]
  <2>1. PICK s : s = g[r]
    OBVIOUS
  <2> QED BY <1>1, <1>9, <2>1, TopAndBelow
<1> QED BY <1>4, <1>8, <1>10

LEMMA YieldStacks ==
  ASSUME RInv, Yield
  PROVE  StackStep
<1>1. IInv /\ IInv'
  BY YieldIInv DEF RInv
<1>2. current \in Ctx \ {0} /\ current \in vm /\ current \in Running
  BY <1>1 DEF Yield, IInv, TypeOK, ChainReachesMain, Linked, Running,
              TableMatchesContexts
<1>3. /\ resumer' = [resumer EXCEPT ![current] = None]
      /\ park' = [park EXCEPT ![current] = "AtYield"]
      /\ current' = resumer[current]
      /\ UNCHANGED <<vm, contexts, raising, outcome>>
      /\ outcome = "running" /\ raising = "none"
  BY DEF Yield, Executing, table, ReturnsTo
<1>4. resumer \in [Ctx -> Ctx \cup {None}] /\ park \in [Ctx -> Parks]
      /\ vm \subseteq Ctx
  BY <1>1 DEF IInv, TypeOK
<1>5. /\ resumer'[current] = None
      /\ \A c \in Ctx \ {current} : resumer'[c] = resumer[c]
  BY <1>2, <1>3, <1>4
<1>6. PICK g : Leads(g, resumer)
  BY DEF RInv
<1>7. current # 0
  BY <1>2
<1>8. /\ Len(Chain) # 1 /\ Chain[Len(Chain)] = current
      /\ Chain' = SubSeq(Chain, 1, Len(Chain) - 1)
      /\ \E h : Leads(h, resumer')
  BY <1>1, <1>3, <1>5, <1>6, <1>7, LeavesTop
<1>9. Parked' = Parked \cup {current}
  BY <1>2, <1>3, <1>4 DEF Parked
<1>10. Stack!Suspend
  BY <1>3, <1>8, <1>9 DEF Stack!Suspend, Stack!AtMain, Stack!Below, Stack!Top,
                          Parked
<1>11. RInv'
  BY <1>1, <1>3, <1>8 DEF RInv, Unwinding
<1> QED BY <1>10, <1>11 DEF StackStep, Stack!Next

LEMMA DiscardStacks ==
  ASSUME RInv, IInv', DiscardCurrent, UNCHANGED <<raising, outcome>>,
         outcome = "running"
  PROVE  StackStep
<1>1. IInv
  BY DEF RInv
<1>2. /\ current \in Ctx /\ current # 0 /\ park[current] = "Running"
      /\ resumer \in [Ctx -> Ctx \cup {None}]
  BY <1>1 DEF DiscardCurrent, IInv, TypeOK, ChainReachesMain, Linked, Running
<1>3. /\ current' = resumer[current] /\ resumer'[current] = None
      /\ \A c \in Ctx \ {current} : resumer'[c] = resumer[c]
  BY <1>2 DEF DiscardCurrent, ResumerWithout
<1>4. PICK g : Leads(g, resumer)
  BY DEF RInv
<1>5. /\ Len(Chain) # 1 /\ Chain[Len(Chain)] = current
      /\ Chain' = SubSeq(Chain, 1, Len(Chain) - 1)
      /\ \E h : Leads(h, resumer')
  BY <1>1, <1>2, <1>3, <1>4, LeavesTop
<1>6. Parked' = Parked /\ contexts' = contexts
  BY <1>2 DEF DiscardCurrent, VmWithout, Parked
<1>7. Stack!Leave
  BY <1>5, <1>6 DEF Stack!Leave, Stack!AtMain, Stack!Below, Parked
<1>8. RInv'
  BY <1>5 DEF RInv, Unwinding
<1> QED BY <1>7, <1>8 DEF StackStep, Stack!Next

LEMMA RetireStacks ==
  ASSUME RInv, Retire
  PROVE  StackStep
<1>1. IInv' /\ DiscardCurrent
  BY RetireIInv DEF RInv, Retire, DiscardCurrent, ReturnsTo
<1>2. UNCHANGED <<raising, outcome>> /\ outcome = "running"
  BY DEF Retire, Executing
<1> QED BY <1>1, <1>2, DiscardStacks

LEMMA PropagateStacks ==
  ASSUME RInv, Propagate
  PROVE  StackStep
<1>1. IInv' /\ IInv
  BY PropagateIInv DEF RInv
<1>2. resumer[current] # None
  BY <1>1, ReturnIsRunning, CoroutineAssumption DEF Propagate
<1>3. DiscardCurrent /\ UNCHANGED <<raising, outcome>>
  BY <1>2 DEF Propagate, DiscardCurrent, ReturnsTo
<1>4. outcome = "running"
  BY DEF Propagate, RInv
<1> QED BY <1>1, <1>3, <1>4, DiscardStacks

(* The donated place: what is below the top stays, the top is the target.     *)
LEMMA YieldToStacks ==
  ASSUME RInv, NEW n \in Names, NEW k, YieldTo(n, k)
  PROVE  StackStep
<1>1. IInv /\ IInv'
  BY YieldToIInv DEF RInv
<1>2. PICK t : t = live[n]
  OBVIOUS
<1>3. t \in vm \ Running /\ t \in Ctx \ {0, current}
  BY <1>1, <1>2, SuspendedIsParked DEF YieldTo, Resumable
<1>4. current \in Ctx \ {0} /\ current \in vm /\ current \in Running
  BY <1>1 DEF YieldTo, IInv, TypeOK, ChainReachesMain, Linked, Running,
              TableMatchesContexts
<1>5. PICK r : r = resumer[current]
  OBVIOUS
<1>6. r \in Running \ {current} /\ r \in Ctx
  BY <1>1, <1>4, <1>5, ReturnIsRunning
<1>7. /\ resumer' = [resumer EXCEPT ![current] = None, ![t] = r]
      /\ park' = [park EXCEPT ![current] = "AtYieldTo", ![t] = "Running"]
      /\ current' = t
      /\ UNCHANGED <<vm, contexts, raising, outcome>>
      /\ outcome = "running" /\ raising = "none"
  BY <1>2, <1>5 DEF YieldTo, Executing, table, Donate
<1>8. resumer \in [Ctx -> Ctx \cup {None}] /\ park \in [Ctx -> Parks]
      /\ vm \subseteq Ctx
  BY <1>1 DEF IInv, TypeOK
<1>9. PICK f : f = [resumer EXCEPT ![current] = None]
  OBVIOUS
<1>10. /\ f \in [Ctx -> Ctx \cup {None}] /\ f[current] = None
       /\ \A c \in Ctx \ {current} : f[c] = resumer[c]
  BY <1>4, <1>8, <1>9
<1>11. /\ resumer'[t] = r
       /\ \A c \in Ctx \ {t} : resumer'[c] = f[c]
  BY <1>3, <1>4, <1>7, <1>8, <1>9
<1>12. PICK g : Leads(g, resumer)
  BY DEF RInv
<1>13. /\ \A c \in Ctx : resumer[c] # current
       /\ \A c \in Ctx : resumer[c] # t
  BY <1>1, <1>3, <1>4, NobodyReturnsTo
<1>14. PICK h : Leads(h, f) /\ \A c \in Ctx \ {current} : h[c] = g[c]
  <2>1. f[current] \in (Ctx \ {current}) \cup {None} /\ current \in Ctx
    BY <1>4, <1>10
  <2> QED BY <1>8, <1>10, <1>12, <1>13, <2>1, LeadsPut
<1>15. PICK m : Leads(m, resumer') /\ \A c \in Ctx \ {t} : m[c] = h[c]
  <2>1. resumer'[t] \in (Ctx \ {t}) \cup {None} /\ t \in Ctx
    BY <1>3, <1>6, <1>11
  <2>2. \A c \in Ctx : f[c] # t
    BY <1>3, <1>10, <1>13, CoroutineAssumption
  <2>3. /\ f \in [Ctx -> Ctx \cup {None}] /\ Leads(h, f)
        /\ \A c \in Ctx \ {t} : resumer'[c] = f[c]
    BY <1>10, <1>11, <1>14
  <2>4. \E x : Leads(x, resumer') /\ \A c \in Ctx \ {t} : x[c] = h[c]
    BY <2>1, <2>2, <2>3, LeadsPut
  <2> QED BY <2>4
<1>16. PathIs(Chain, g, resumer, current) /\ PathIs(Chain', m, resumer', current')
  BY <1>1, <1>12, <1>15, ChainNow, ChainNext
<1>17. /\ Chain = Append(g[r], current)
       /\ g[r] \in Seq(Ctx) /\ g[r] # <<>>
  BY <1>4, <1>5, <1>16 DEF PathIs
<1>18. m[r] = g[r]
  BY <1>3, <1>6, <1>14, <1>15
<1>19. Chain' = Append(g[r], t)
  BY <1>3, <1>7, <1>11, <1>16, <1>18 DEF PathIs
<1>20. /\ Chain[Len(Chain)] = current /\ Len(Chain) # 1
       /\ SubSeq(Chain, 1, Len(Chain) - 1) = g[r]
  <2>1. PICK s : s = g[r]
    OBVIOUS
  <2> QED BY <1>4, <1>17, <2>1, TopAndBelow
<1>21. t \in Parked /\ Parked' = (Parked \ {t}) \cup {current}
  BY <1>3, <1>4, <1>7, <1>8 DEF Parked, Running
<1>22. Stack!Transfer(t)
  BY <1>7, <1>19, <1>20, <1>21
     DEF Stack!Transfer, Stack!AtMain, Stack!Below, Stack!Top, Parked
<1>23. RInv'
  BY <1>1, <1>7, <1>15 DEF RInv, Unwinding
<1> QED BY <1>21, <1>22, <1>23 DEF StackStep, Stack!Next, Parked

LEMMA CreateStacks ==
  ASSUME RInv, NEW n \in Names, Create(n)
  PROVE  StackStep
<1>1. IInv /\ IInv'
  BY CreateIInv DEF RInv
<1>2. PICK gone : gone = IF live[n] = None THEN {} ELSE {live[n]}
  OBVIOUS
<1>3. PICK new : new = contexts
  OBVIOUS
<1>4. current = 0 /\ Running = {0}
  BY <1>1, MainRunsAlone DEF Create, MayCreate
<1>5. /\ new \in Ctx \ {0} /\ new \notin vm /\ contexts \in Nat
      /\ contexts - 1 \in Nat /\ contexts - 1 < MaxContexts /\ 0 \in Ctx
  BY <1>1, <1>3, CoroutineAssumption
     DEF Create, Ctx, IInv, TypeOK, ParkedHoldsNoResumer
<1>6. /\ contexts' = contexts + 1 /\ vm' = (vm \ gone) \cup {new}
      /\ resumer' = [ResumerWithout(gone) EXCEPT ![new] = 0]
      /\ park' = [park EXCEPT ![new] = "Running"]
      /\ current' = new
      /\ UNCHANGED <<raising, outcome>>
      /\ outcome = "running" /\ raising = "none"
  BY <1>2, <1>3, <1>4 DEF Create, VmWithout, Executing
<1>7. resumer \in [Ctx -> Ctx \cup {None}] /\ park \in [Ctx -> Parks]
      /\ vm \subseteq Ctx
  BY <1>1 DEF IInv, TypeOK
<1>8. gone \subseteq vm \ Running
  BY <1>1, <1>2, <1>4, CoroutineAssumption
     DEF IInv, TypeOK, TableMatchesContexts, Running
<1>9. \A c \in gone : resumer[c] = None
  BY <1>1, <1>7, <1>8 DEF IInv, ParkedHoldsNoResumer
<1>10. /\ resumer'[new] = 0
       /\ \A c \in Ctx \ {new} : resumer'[c] = resumer[c]
  BY <1>5, <1>6, <1>9 DEF ResumerWithout
<1>11. PICK g : Leads(g, resumer)
  BY DEF RInv
<1>12. \A c \in Ctx : resumer[c] # new
  BY <1>1, <1>4, <1>5, NobodyReturnsTo
<1>13. PICK h : Leads(h, resumer') /\ \A c \in Ctx \ {new} : h[c] = g[c]
  <2>1. resumer'[new] \in (Ctx \ {new}) \cup {None} /\ new \in Ctx
    BY <1>5, <1>10
  <2> QED BY <1>7, <1>10, <1>11, <1>12, <2>1, LeadsPut
<1>14. PathIs(Chain, g, resumer, current) /\ PathIs(Chain', h, resumer', current')
  BY <1>1, <1>11, <1>13, ChainNow, ChainNext
<1>15. Chain = <<0>> /\ Chain = g[0]
  BY <1>4, <1>14 DEF PathIs
<1>16. Chain' = Append(Chain, new)
  <2>1. Chain' = Append(h[0], new)
    BY <1>5, <1>6, <1>10, <1>14 DEF PathIs
  <2> QED BY <1>5, <1>13, <1>15, <2>1
<1>17. Parked' = Parked \ gone
  BY <1>5, <1>6, <1>7 DEF Parked
<1>18. Parked' = Parked \/ \E c \in Parked : Parked' = Parked \ {c}
  <2>1. CASE live[n] = None
    BY <1>2, <1>17, <2>1
  <2>2. CASE live[n] # None
    <3>1. PICK c : c = live[n]
      OBVIOUS
    <3>2. c \in vm \ Running /\ gone = {c}
      BY <1>2, <1>8, <2>2, <3>1
    <3>3. c \in Parked
      BY <3>2 DEF Parked, Running
    <3> QED BY <1>17, <3>2, <3>3
  <2> QED BY <2>1, <2>2
<1>19. Len(Chain) = 1 /\ contexts' - 1 = (contexts - 1) + 1 /\ (contexts - 1) + 1 = new
  BY <1>3, <1>5, <1>6, <1>15
<1>20. Stack!Start
  BY <1>5, <1>6, <1>16, <1>18, <1>19 DEF Stack!Start, Stack!AtMain, Parked
<1>21. RInv'
  BY <1>1, <1>6, <1>13 DEF RInv, Unwinding
<1> QED BY <1>20, <1>21 DEF StackStep, Stack!Next

(* The main script's end ends the evaluation; nothing else moves the stack.   *)
LEMMA StopStacks ==
  ASSUME RInv, Finish \/ Escape
  PROVE  StackStep
<1>1. IInv /\ IInv'
  BY StayIInv DEF RInv
<1>2. /\ UNCHANGED <<resumer, current, park, vm, contexts>> /\ current = 0
      /\ outcome' # "running" /\ raising' = "none" /\ outcome = "running"
  BY DEF Finish, Escape, control, table, Executing, RInv
<1>3. PICK g : Leads(g, resumer)
  BY DEF RInv
<1>4. PathIs(Chain, g, resumer, current)
  BY <1>1, <1>3, ChainNow
<1>5. Chain = <<0>> /\ Len(Chain) = 1
  <2>1. Chain = <<0>>
    BY <1>2, <1>4 DEF PathIs
  <2> QED BY <2>1
<1>6. Chain' = Chain /\ Parked' = Parked
  BY <1>2, ChainIsUpto DEF Parked
<1>7. Stack!Stop
  BY <1>2, <1>5, <1>6 DEF Stack!Stop, Stack!AtMain, Parked
<1>8. RInv'
  BY <1>1, <1>2, <1>3 DEF RInv, Unwinding
<1> QED BY <1>7, <1>8 DEF StackStep, Stack!Next

LEMMA StayStacks ==
  ASSUME RInv, Refuse \/ Fail \/ OpenCatch \/ CloseCatch
               \/ Absorb \/ PassRegion \/ EndCall \/ UNCHANGED vars
  PROVE  StackStep
<1>1. IInv /\ IInv'
  BY StayIInv DEF RInv
<1>2. UNCHANGED <<resumer, current, park, vm, contexts, outcome>>
  BY DEF Refuse, Fail, OpenCatch, CloseCatch, Absorb, PassRegion, EndCall,
         vars, control, table
<1>3. Unwinding' => outcome = "running"
  BY DEF Refuse, Fail, OpenCatch, CloseCatch, Absorb, PassRegion, EndCall,
         vars, control, table, Executing, Unwinding, RInv
<1>4. Chain' = Chain /\ Parked' = Parked
  BY <1>2, ChainIsUpto DEF Parked
<1>5. UNCHANGED Stack!vars
  BY <1>2, <1>4 DEF Stack!vars, Parked
<1>6. RInv'
  BY <1>1, <1>2, <1>3 DEF RInv
<1> QED BY <1>5, <1>6 DEF StackStep

LEMMA NextStacks == RInv /\ [Next]_vars => StackStep
<1> SUFFICES ASSUME RInv, [Next]_vars PROVE StackStep
  OBVIOUS
<1>1. ASSUME NEW n \in Names, Create(n) PROVE StackStep
  BY <1>1, CreateStacks
<1>2. ASSUME NEW n \in Names, NEW k \in 0 .. MaxArgs, Resume(n, k)
      PROVE  StackStep
  BY <1>2, ResumeStacks
<1>3. ASSUME NEW n \in Names, NEW k \in 0 .. MaxArgs, YieldTo(n, k)
      PROVE  StackStep
  BY <1>3, YieldToStacks
<1>4. CASE Yield
  BY <1>4, YieldStacks
<1>5. CASE Retire
  BY <1>5, RetireStacks
<1>6. CASE Propagate
  BY <1>6, PropagateStacks
<1>7. CASE Finish \/ Escape
  BY <1>7, StopStacks
<1>8. CASE Refuse \/ Fail \/ OpenCatch \/ CloseCatch
           \/ Absorb \/ PassRegion \/ EndCall \/ Ended \/ UNCHANGED vars
  BY <1>8, StayStacks DEF Ended
<1> QED BY <1>1, <1>2, <1>3, <1>4, <1>5, <1>6, <1>7, <1>8 DEF Next, RaiseStep

LEMMA InitStacks == Init => RInv /\ Stack!Init
<1> SUFFICES ASSUME Init PROVE RInv /\ Stack!Init
  OBVIOUS
<1>1. IInv
  BY InitIInv
<1>2. PICK g : g = [c \in Ctx |-> <<c>>]
  OBVIOUS
<1>3. Leads(g, resumer)
  <2>1. g \in [Ctx -> Seq(Ctx) \ {<<>>}]
    BY <1>2
  <2>2. \A c \in Ctx : g[c] = <<c>> /\ resumer[c] = None
    BY <1>2 DEF Init
  <2> QED BY <2>1, <2>2 DEF Leads, StackOf
<1>4. RInv
  BY <1>1, <1>3 DEF RInv, Init
<1>5. PathIs(Chain, g, resumer, current)
  BY <1>1, <1>3, ChainNow
<1>6. Chain = <<0>>
  BY <1>5 DEF Init, PathIs
<1>7. Parked = {}
  BY CoroutineAssumption DEF Init, Parked, Ctx
<1>8. Stack!Init
  BY <1>6, <1>7 DEF Init, Stack!Init, Parked
<1> QED BY <1>4, <1>8

(* What the driver does with `resumer`, `park` and `current` is a stack of    *)
(* contexts: a coroutine runs on top of whoever started or resumed it, yield, *)
(* its end and an error go back to the one below, and yieldto gives its place *)
(* on the stack to the one it names.                                          *)
THEOREM StackIsPromised == Spec => ImplementsStack
<1>1. Init => RInv /\ Stack!Init
  BY InitStacks
<1>2. RInv /\ [Next]_vars => RInv' /\ [Stack!Next]_Stack!vars
  BY NextStacks DEF StackStep
<1> QED BY <1>1, <1>2, PTL DEF Spec, ImplementsStack, Stack!Spec
=============================================================================
