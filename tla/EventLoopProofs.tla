--------------------------- MODULE EventLoopProofs ---------------------------
(***************************************************************************)
(* Proofs about EventLoop, for any scripts, delays, recursion limit and    *)
(* bounds: however deep the loops nest, a registered script is in exactly  *)
(* one place.                                                              *)
(***************************************************************************)
EXTENDS EventLoop, SequenceTheorems, TLAPS

(* A script runs only where the recursion limit allows it, which is what      *)
(* bounds the nesting.                                                        *)
WithinLimit == \A i \in DOMAIN stack : stack[i].running # Nobody => i <= Limit

IInv == TypeOK /\ WithinLimit /\ InOnePlace

-----------------------------------------------------------------------------
(* The stack of loops.                                                        *)

LEMMA StackTop ==
  ASSUME TypeOK, stack # <<>>
  PROVE  /\ Len(stack) \in Nat \ {0}
         /\ DOMAIN stack = 1 .. Len(stack)
         /\ Len(stack) \in DOMAIN stack
         /\ top \in Loop
<1>1. stack \in Seq(Loop)
  BY DEF TypeOK
<1>2. Len(stack) \in Nat /\ DOMAIN stack = 1 .. Len(stack) /\ Len(stack) # 0
  BY <1>1, EmptySeq, LenProperties
<1>3. Len(stack) \in DOMAIN stack
  BY <1>2
<1> QED BY <1>1, <1>2, <1>3, ElementOfSeq DEF top

LEMMA PoppedStack ==
  ASSUME TypeOK, stack # <<>>
  PROVE  /\ Pop \in Seq(Loop)
         /\ Len(Pop) = Len(stack) - 1
         /\ DOMAIN Pop = DOMAIN stack \ {Len(stack)}
         /\ \A i \in DOMAIN Pop : Pop[i] = stack[i]
<1>1. stack \in Seq(Loop) /\ Len(stack) \in Nat \ {0}
  BY StackTop DEF TypeOK
<1>2. DOMAIN stack = 1 .. Len(stack)
  BY StackTop
<1> QED BY <1>1, <1>2 DEF Pop

LEMMA PushedStack ==
  ASSUME TypeOK, NEW f \in Loop
  PROVE  /\ Append(stack, f) \in Seq(Loop)
         /\ DOMAIN Append(stack, f) = DOMAIN stack \cup {Len(stack) + 1}
         /\ Len(Append(stack, f)) = Len(stack) + 1
         /\ Append(stack, f)[Len(stack) + 1] = f
         /\ \A i \in DOMAIN stack : Append(stack, f)[i] = stack[i]
         /\ Len(stack) + 1 \notin DOMAIN stack
BY DEF TypeOK

-----------------------------------------------------------------------------
LEMMA InitIInv == Init => IInv
<1> SUFFICES ASSUME Init PROVE IInv
  OBVIOUS
<1>1. TypeOK
  <2>1. stack \in Seq(Loop) /\ Len(stack) = 0
    BY DEF Init
  <2>2. next_id \in 0 .. MaxIds /\ now \in 0 .. MaxTime /\ 0 <= Limit + 1
    BY EventLoopAssumption DEF Init
  <2>3. finished \in BOOLEAN
    BY DEF Init
  <2> QED BY <2>1, <2>2, <2>3 DEF Init, TypeOK
<1>2. DOMAIN stack = {} /\ InBatches = {}
  BY DEF Init, InBatches
<1>3. WithinLimit
  BY <1>2 DEF WithinLimit
<1>4. InOnePlace
  BY <1>2 DEF Init, InOnePlace, IdsOf
<1> QED BY <1>1, <1>3, <1>4 DEF IInv

-----------------------------------------------------------------------------
(* Types and the nesting limit, one action at a time.                         *)

LEMMA RegisterTyped ==
  ASSUME IInv, NEW text \in Scripts, NEW due \in (0 .. MaxTime) \cup {Idle},
         Register(text, due)
  PROVE  TypeOK' /\ WithinLimit'
<1>1. next_id \in Ids /\ next_id + 1 \in 0 .. MaxIds
  BY EventLoopAssumption DEF Register, IInv, TypeOK, Ids
<1>2. [id |-> next_id, script |-> text, due |-> due] \in After
  BY <1>1 DEF After
<1> QED BY <1>1, <1>2
        DEF Register, IInv, TypeOK, WithinLimit, history

LEMMA CancelTyped ==
  ASSUME IInv, NEW text, AfterCancel(text)
  PROVE  TypeOK' /\ WithinLimit'
<1>1. \A a \in queue : a.id \in Ids
  BY DEF IInv, TypeOK, After
<1> QED BY <1>1 DEF AfterCancel, IInv, TypeOK, WithinLimit

LEMMA SetTyped ==
  ASSUME IInv, NEW x \in Vars, NEW v \in Values, Set(x, v)
  PROVE  TypeOK' /\ WithinLimit'
BY DEF Set, IInv, TypeOK, WithinLimit, registry, history

LEMMA EnterTyped ==
  ASSUME IInv, NEW x \in Vars, NEW op \in {"update", "idletasks", "vwait"},
         Enter(op, x)
  PROVE  TypeOK' /\ WithinLimit'
<1> DEFINE f == [op |-> op, name |-> x, before |-> value[x], batch |-> {},
                 running |-> Nobody]
<1>1. f \in Loop
  BY DEF Loop, IInv, TypeOK
<1>2. stack' = Append(stack, f)
  BY DEF Enter
<1>3. Len(stack) <= Limit
  <2>1. CASE stack = <<>>
    BY <2>1, EventLoopAssumption
  <2>2. CASE stack # <<>>
    BY <2>2, StackTop DEF Enter, Executing, IInv, WithinLimit, top
  <2> QED BY <2>1, <2>2
<1> HIDE DEF f
<1>4. stack' \in Seq(Loop) /\ Len(stack') <= Limit + 1
  <2>1. Len(stack) \in Nat
    BY LenProperties DEF IInv, TypeOK
  <2> QED BY <1>1, <1>2, <1>3, <2>1, PushedStack, EventLoopAssumption DEF IInv
<1>5. WithinLimit'
  <2>1. f.running = Nobody
    BY DEF f
  <2> QED BY <1>1, <1>2, <2>1, PushedStack DEF IInv, WithinLimit
<1> QED BY <1>4, <1>5 DEF Enter, IInv, TypeOK, registry, history

(* A step that changes only the innermost loop.                               *)
LEMMA TopTyped ==
  ASSUME IInv, stack # <<>>, NEW f \in Loop,
         stack' = [stack EXCEPT ![Len(stack)] = f],
         f.running # Nobody => Len(stack) <= Limit
  PROVE  /\ stack' \in Seq(Loop) /\ Len(stack') = Len(stack)
         /\ DOMAIN stack' = DOMAIN stack
         /\ stack'[Len(stack)] = f
         /\ \A i \in DOMAIN stack \ {Len(stack)} : stack'[i] = stack[i]
         /\ WithinLimit'
<1>1. stack \in Seq(Loop) /\ Len(stack) \in DOMAIN stack
  BY StackTop DEF IInv, TypeOK
<1>2. /\ DOMAIN stack' = DOMAIN stack
      /\ stack'[Len(stack)] = f
      /\ \A i \in DOMAIN stack \ {Len(stack)} : stack'[i] = stack[i]
  BY <1>1
<1>3. stack' \in Seq(Loop) /\ Len(stack') = Len(stack)
  BY <1>1, StackTop, ExceptSeq DEF IInv
<1>4. WithinLimit'
  BY <1>2 DEF IInv, WithinLimit
<1> QED BY <1>2, <1>3, <1>4

LEMMA PopTyped ==
  ASSUME IInv, stack # <<>>, stack' = Pop,
         UNCHANGED <<registry, now, value, finished, history>>
  PROVE  TypeOK' /\ WithinLimit'
<1>1. /\ Pop \in Seq(Loop) /\ Len(Pop) = Len(stack) - 1
      /\ DOMAIN Pop \subseteq DOMAIN stack
      /\ \A i \in DOMAIN Pop : Pop[i] = stack[i]
  BY PoppedStack DEF IInv
<1>2. Len(stack) \in Nat /\ Len(stack) <= Limit + 1 /\ Limit \in Nat
  BY StackTop, EventLoopAssumption DEF IInv, TypeOK
<1>3. Len(stack') <= Limit + 1
  BY <1>1, <1>2
<1> QED BY <1>1, <1>3 DEF IInv, TypeOK, WithinLimit, registry, history

(* What the steps of the innermost loop make of it.                           *)
LEMMA EndScriptStep ==
  ASSUME IInv, EndScript
  PROVE  /\ TypeOK' /\ WithinLimit'
         /\ DOMAIN stack' = DOMAIN stack
         /\ \A i \in DOMAIN stack : stack'[i].batch = stack[i].batch
<1> DEFINE f == [top EXCEPT !.running = Nobody]
<1>1. stack # <<>> /\ top \in Loop /\ Len(stack) \in DOMAIN stack
  BY StackTop DEF EndScript, IInv
<1>2. f \in Loop /\ f.running = Nobody /\ f.batch = top.batch
  BY <1>1 DEF Loop
<1>3. stack' = [stack EXCEPT ![Len(stack)] = f]
  BY DEF EndScript, top
<1> HIDE DEF f
<1>4. /\ stack' \in Seq(Loop) /\ Len(stack') = Len(stack)
      /\ DOMAIN stack' = DOMAIN stack
      /\ stack'[Len(stack)] = f
      /\ \A i \in DOMAIN stack \ {Len(stack)} : stack'[i] = stack[i]
      /\ WithinLimit'
  BY <1>1, <1>2, <1>3, TopTyped
<1>5. TypeOK'
  BY <1>4 DEF EndScript, IInv, TypeOK, registry, history
<1> QED BY <1>2, <1>4, <1>5 DEF top

LEMMA RunNextStep ==
  ASSUME IInv, NEW a \in top.batch, stack # <<>>,
         stack' = [stack EXCEPT ![Len(stack)].batch = @ \ {a},
                                ![Len(stack)].running = RunsIt(a)],
         started' = started \cup {a.id},
         UNCHANGED <<registry, now, value, finished, cancelled>>
  PROVE  /\ TypeOK' /\ WithinLimit'
         /\ DOMAIN stack' = DOMAIN stack
         /\ Len(stack) \in DOMAIN stack
         /\ stack'[Len(stack)].batch = top.batch \ {a}
         /\ \A i \in DOMAIN stack \ {Len(stack)} : stack'[i] = stack[i]
<1> DEFINE f == [top EXCEPT !.batch = @ \ {a}, !.running = RunsIt(a)]
<1>1. top \in Loop /\ Len(stack) \in DOMAIN stack /\ Len(stack) \in Nat
  BY StackTop DEF IInv
<1>2. a \in After /\ a.id \in Ids
  BY <1>1 DEF Loop, After
<1>3. /\ f \in Loop /\ f.batch = top.batch \ {a}
      /\ f.running # Nobody => Len(stack) <= Limit
  <2>1. /\ RunsIt(a) \in Ids \cup {Nobody}
        /\ RunsIt(a) # Nobody => Len(stack) <= Limit
    BY <1>1, <1>2, EventLoopAssumption DEF RunsIt
  <2>2. top.batch \ {a} \in SUBSET After
    BY <1>1 DEF Loop
  <2>3. /\ f.batch = top.batch \ {a} /\ f.running = RunsIt(a)
        /\ f \in Loop
    BY <1>1, <2>1, <2>2 DEF Loop
  <2> QED BY <2>1, <2>3
<1>4. stack' = [stack EXCEPT ![Len(stack)] = f]
  BY <1>1 DEF top, IInv, TypeOK
<1> HIDE DEF f
<1>5. /\ stack' \in Seq(Loop) /\ Len(stack') = Len(stack)
      /\ DOMAIN stack' = DOMAIN stack
      /\ stack'[Len(stack)] = f
      /\ \A i \in DOMAIN stack \ {Len(stack)} : stack'[i] = stack[i]
      /\ WithinLimit'
  BY <1>3, <1>4, TopTyped
<1>6. TypeOK'
  BY <1>2, <1>5 DEF IInv, TypeOK, registry
<1> QED BY <1>1, <1>3, <1>5, <1>6

LEMMA TakeDueTimersStep ==
  ASSUME IInv, TakeDueTimers
  PROVE  /\ TypeOK' /\ WithinLimit'
         /\ DOMAIN stack' = DOMAIN stack
         /\ Len(stack) \in DOMAIN stack
         /\ top.batch = {}
         /\ stack'[Len(stack)].batch = Due
         /\ \A i \in DOMAIN stack \ {Len(stack)} : stack'[i] = stack[i]
<1> DEFINE f == [top EXCEPT !.batch = Due]
<1>1. /\ stack # <<>> /\ top \in Loop /\ Len(stack) \in DOMAIN stack
      /\ top.running = Nobody /\ top.batch = {}
  BY StackTop DEF TakeDueTimers, Passing, Looping, IInv
<1>2. Due \subseteq queue /\ queue \subseteq After
  BY DEF Due, Timers, IInv, TypeOK
<1>3. f \in Loop /\ f.batch = Due /\ f.running = Nobody
  BY <1>1, <1>2 DEF Loop
<1>4. stack' = [stack EXCEPT ![Len(stack)] = f]
  BY <1>1 DEF TakeDueTimers, top
<1> HIDE DEF f
<1>5. /\ stack' \in Seq(Loop) /\ Len(stack') = Len(stack)
      /\ DOMAIN stack' = DOMAIN stack
      /\ stack'[Len(stack)] = f
      /\ \A i \in DOMAIN stack \ {Len(stack)} : stack'[i] = stack[i]
      /\ WithinLimit'
  BY <1>1, <1>3, <1>4, TopTyped
<1>6. TypeOK'
  BY <1>5 DEF TakeDueTimers, Without, IInv, TypeOK, history
<1> QED BY <1>1, <1>3, <1>5, <1>6

LEMMA TakeIdleStep ==
  ASSUME IInv, NEW a \in queue, stack # <<>>,
         queue' = queue \ {a},
         stack' = [stack EXCEPT ![Len(stack)].running = RunsIt(a)],
         started' = started \cup {a.id},
         UNCHANGED <<next_id, now, value, finished, cancelled>>
  PROVE  /\ TypeOK' /\ WithinLimit'
         /\ DOMAIN stack' = DOMAIN stack
         /\ \A i \in DOMAIN stack : stack'[i].batch = stack[i].batch
<1> DEFINE f == [top EXCEPT !.running = RunsIt(a)]
<1>1. top \in Loop /\ Len(stack) \in DOMAIN stack /\ Len(stack) \in Nat
  BY StackTop DEF IInv
<1>2. a.id \in Ids
  BY DEF IInv, TypeOK, After
<1>3. /\ f \in Loop /\ f.batch = top.batch
      /\ f.running # Nobody => Len(stack) <= Limit
  BY <1>1, <1>2, EventLoopAssumption DEF Loop, RunsIt
<1>4. stack' = [stack EXCEPT ![Len(stack)] = f]
  BY <1>1 DEF top
<1> HIDE DEF f
<1>5. /\ stack' \in Seq(Loop) /\ Len(stack') = Len(stack)
      /\ DOMAIN stack' = DOMAIN stack
      /\ stack'[Len(stack)] = f
      /\ \A i \in DOMAIN stack \ {Len(stack)} : stack'[i] = stack[i]
      /\ WithinLimit'
  BY <1>3, <1>4, TopTyped
<1>6. TypeOK'
  BY <1>2, <1>5 DEF IInv, TypeOK
<1> QED BY <1>1, <1>3, <1>5, <1>6 DEF top

-----------------------------------------------------------------------------
(* The places.                                                                *)

(* A batch stays what it is, or appears or disappears empty: nothing moves.   *)
SameBatches ==
  /\ \A i \in DOMAIN stack' :
       stack'[i].batch = IF i \in DOMAIN stack THEN stack[i].batch ELSE {}
  /\ \A i \in DOMAIN stack \ DOMAIN stack' : stack[i].batch = {}

LEMMA SameBatchesInOnePlace ==
  ASSUME IInv, SameBatches
  PROVE  /\ InBatches' = InBatches
         /\ \A i, j \in DOMAIN stack' :
              i # j => stack'[i].batch \cap stack'[j].batch = {}
<1>1. InBatches' = InBatches
  BY DEF InBatches, SameBatches
<1>2. ASSUME NEW i \in DOMAIN stack', NEW j \in DOMAIN stack', i # j
      PROVE  stack'[i].batch \cap stack'[j].batch = {}
  BY <1>2 DEF SameBatches, IInv, InOnePlace
<1> QED BY <1>1, <1>2

(* Steps that leave the registry and the history alone as well.               *)
LEMMA UnmovedInOnePlace ==
  ASSUME IInv, SameBatches, UNCHANGED <<registry, history>>
  PROVE  InOnePlace'
BY SameBatchesInOnePlace DEF IInv, InOnePlace, IdsOf, registry, history

LEMMA PopInOnePlace ==
  ASSUME IInv, stack # <<>>, top.batch = {}, stack' = Pop,
         UNCHANGED <<registry, history>>
  PROVE  InOnePlace'
<1>1. SameBatches
  BY PoppedStack DEF SameBatches, IInv, top
<1> QED BY <1>1, UnmovedInOnePlace

LEMMA RegisterInOnePlace ==
  ASSUME IInv, NEW text, NEW due, Register(text, due)
  PROVE  InOnePlace'
<1> DEFINE new == [id |-> next_id, script |-> text, due |-> due]
<1>1. /\ queue' = queue \cup {new} /\ next_id' = next_id + 1
      /\ new.id = next_id /\ InBatches' = InBatches /\ stack' = stack
      /\ UNCHANGED history
  BY DEF Register, InBatches
<1>2. next_id \in Nat
  BY DEF IInv, TypeOK
<1>3. next_id \notin IdsOf(queue) \cup IdsOf(InBatches) \cup started
                      \cup cancelled
  BY <1>2 DEF IInv, InOnePlace
<1>4. \A b \in queue \cup InBatches : b.id # next_id
  BY <1>3 DEF IdsOf
<1> HIDE DEF new
<1>5. IdsOf(queue') = IdsOf(queue) \cup {next_id}
  BY <1>1 DEF IdsOf
<1>6. 0 .. next_id' - 1 = (0 .. next_id - 1) \cup {next_id}
  BY <1>1, <1>2
<1>7. /\ \A a, b \in queue' \cup InBatches' : a.id = b.id => a = b
      /\ queue' \cap InBatches' = {}
  BY <1>1, <1>4 DEF IInv, InOnePlace
<1>8. /\ (IdsOf(queue') \cup IdsOf(InBatches')) \cap (started' \cup cancelled')
            = {}
      /\ started' \cap cancelled' = {}
      /\ IdsOf(queue') \cup IdsOf(InBatches') \cup started' \cup cancelled'
            = 0 .. next_id' - 1
  <2>1. IdsOf(InBatches') = IdsOf(InBatches) /\ UNCHANGED <<started, cancelled>>
    BY <1>1 DEF history
  <2>2. /\ (IdsOf(queue) \cup IdsOf(InBatches)) \cap (started \cup cancelled)
             = {}
        /\ started \cap cancelled = {}
        /\ IdsOf(queue) \cup IdsOf(InBatches) \cup started \cup cancelled
             = 0 .. next_id - 1
    BY DEF IInv, InOnePlace
  <2> QED BY <1>3, <1>5, <1>6, <2>1, <2>2
<1>9. IdsOf(queue)' = IdsOf(queue') /\ IdsOf(InBatches)' = IdsOf(InBatches')
  BY DEF IdsOf
<1> QED BY <1>1, <1>7, <1>8, <1>9 DEF IInv, InOnePlace

LEMMA CancelInOnePlace ==
  ASSUME IInv, NEW text, AfterCancel(text)
  PROVE  InOnePlace'
<1>1. PICK a \in queue : /\ queue' = queue \ {a}
                         /\ cancelled' = cancelled \cup {a.id}
                         /\ UNCHANGED <<next_id, stack, started>>
  BY DEF AfterCancel
<1>2. InBatches' = InBatches
  BY <1>1 DEF InBatches
<1>3. /\ IdsOf(queue)' = IdsOf(queue) \ {a.id}
      /\ IdsOf(InBatches)' = IdsOf(InBatches)
      /\ a.id \in IdsOf(queue) /\ a.id \notin IdsOf(InBatches)
  BY <1>1, <1>2 DEF IdsOf, IInv, InOnePlace
<1>4. /\ (IdsOf(queue) \cup IdsOf(InBatches)) \cap (started \cup cancelled) = {}
      /\ started \cap cancelled = {}
      /\ IdsOf(queue) \cup IdsOf(InBatches) \cup started \cup cancelled
           = 0 .. next_id - 1
  BY DEF IInv, InOnePlace
<1>5. /\ (IdsOf(queue)' \cup IdsOf(InBatches)')
              \cap (started' \cup cancelled') = {}
      /\ started' \cap cancelled' = {}
      /\ IdsOf(queue)' \cup IdsOf(InBatches)' \cup started' \cup cancelled'
           = 0 .. next_id' - 1
  BY <1>1, <1>3, <1>4
<1> QED BY <1>1, <1>2, <1>5 DEF IInv, InOnePlace

LEMMA RunNextInOnePlace ==
  ASSUME IInv, RunNext
  PROVE  InOnePlace'
<1>1. stack # <<>>
  BY DEF RunNext, Looping
<1>2. PICK a \in top.batch :
        /\ stack' = [stack EXCEPT ![Len(stack)].batch = @ \ {a},
                                  ![Len(stack)].running = RunsIt(a)]
        /\ started' = started \cup {a.id}
  BY DEF RunNext
<1>3. UNCHANGED <<queue, next_id, cancelled>>
  BY DEF RunNext, registry
<1>4. /\ DOMAIN stack' = DOMAIN stack
      /\ Len(stack) \in DOMAIN stack
      /\ stack'[Len(stack)].batch = stack[Len(stack)].batch \ {a}
      /\ \A i \in DOMAIN stack \ {Len(stack)} : stack'[i] = stack[i]
      /\ a \in stack[Len(stack)].batch
  BY <1>1, <1>2, RunNextStep DEF RunNext, top
<1>5. \A i, j \in DOMAIN stack :
        i # j => stack[i].batch \cap stack[j].batch = {}
  BY DEF IInv, InOnePlace
<1>6. InBatches' = InBatches \ {a} /\ a \in InBatches
  BY <1>4, <1>5 DEF InBatches
<1>7. \A i, j \in DOMAIN stack' :
        i # j => stack'[i].batch \cap stack'[j].batch = {}
  <2>1. \A i \in DOMAIN stack : stack'[i].batch \subseteq stack[i].batch
    BY <1>4
  <2> QED BY <1>4, <1>5, <2>1
<1>8. /\ IdsOf(InBatches)' = IdsOf(InBatches) \ {a.id}
      /\ IdsOf(queue)' = IdsOf(queue)
      /\ a.id \in IdsOf(InBatches) /\ a.id \notin IdsOf(queue)
  BY <1>3, <1>6 DEF IdsOf, IInv, InOnePlace
<1>9. /\ (IdsOf(queue) \cup IdsOf(InBatches)) \cap (started \cup cancelled) = {}
      /\ started \cap cancelled = {}
      /\ IdsOf(queue) \cup IdsOf(InBatches) \cup started \cup cancelled
           = 0 .. next_id - 1
  BY DEF IInv, InOnePlace
<1>10. /\ (IdsOf(queue)' \cup IdsOf(InBatches)')
              \cap (started' \cup cancelled') = {}
       /\ started' \cap cancelled' = {}
       /\ IdsOf(queue)' \cup IdsOf(InBatches)' \cup started' \cup cancelled'
            = 0 .. next_id' - 1
  BY <1>2, <1>3, <1>8, <1>9
<1> QED BY <1>3, <1>6, <1>7, <1>10 DEF IInv, InOnePlace

LEMMA TakeDueTimersInOnePlace ==
  ASSUME IInv, TakeDueTimers
  PROVE  InOnePlace'
<1>1. /\ DOMAIN stack' = DOMAIN stack
      /\ Len(stack) \in DOMAIN stack
      /\ stack[Len(stack)].batch = {}
      /\ stack'[Len(stack)].batch = Due
      /\ \A i \in DOMAIN stack \ {Len(stack)} : stack'[i] = stack[i]
  BY TakeDueTimersStep DEF top
<1>2. /\ queue' = queue \ Due /\ Due \subseteq queue
      /\ UNCHANGED <<next_id, started, cancelled>>
  BY DEF TakeDueTimers, Without, Due, Timers, history
<1>3. queue \cap InBatches = {}
  BY DEF IInv, InOnePlace
<1> HIDE DEF Due
<1>4. InBatches' = InBatches \cup Due
  BY <1>1 DEF InBatches
<1>5. \A i, j \in DOMAIN stack' :
        i # j => stack'[i].batch \cap stack'[j].batch = {}
  <2>1. \A i \in DOMAIN stack : stack[i].batch \cap Due = {}
    BY <1>2, <1>3 DEF InBatches
  <2> QED BY <1>1, <2>1 DEF IInv, InOnePlace
<1>6. queue' \cup InBatches' = queue \cup InBatches
  BY <1>2, <1>4
<1>7. /\ IdsOf(queue)' \cup IdsOf(InBatches)' = IdsOf(queue) \cup IdsOf(InBatches)
      /\ queue' \cap InBatches' = {}
  BY <1>2, <1>3, <1>4, <1>6 DEF IdsOf
<1> QED BY <1>2, <1>5, <1>6, <1>7 DEF IInv, InOnePlace

LEMMA TakeIdleInOnePlace ==
  ASSUME IInv, TakeIdle
  PROVE  InOnePlace' /\ TypeOK' /\ WithinLimit'
<1>1. PICK a \in queue :
        /\ queue' = queue \ {a}
        /\ stack' = [stack EXCEPT ![Len(stack)].running = RunsIt(a)]
        /\ started' = started \cup {a.id}
  BY DEF TakeIdle, Without
<1>2. stack # <<>> /\ UNCHANGED <<next_id, now, value, finished, cancelled>>
  BY DEF TakeIdle, Passing, Looping
<1>3. /\ TypeOK' /\ WithinLimit'
      /\ DOMAIN stack' = DOMAIN stack
      /\ \A i \in DOMAIN stack : stack'[i].batch = stack[i].batch
  BY <1>1, <1>2, TakeIdleStep
<1>4. /\ InBatches' = InBatches
      /\ \A i, j \in DOMAIN stack' :
           i # j => stack'[i].batch \cap stack'[j].batch = {}
  BY <1>3, SameBatchesInOnePlace DEF SameBatches
<1>5. /\ IdsOf(queue)' = IdsOf(queue) \ {a.id}
      /\ IdsOf(InBatches)' = IdsOf(InBatches)
      /\ a.id \in IdsOf(queue) /\ a.id \notin IdsOf(InBatches)
  BY <1>1, <1>4 DEF IdsOf, IInv, InOnePlace
<1>6. /\ (IdsOf(queue) \cup IdsOf(InBatches)) \cap (started \cup cancelled) = {}
      /\ started \cap cancelled = {}
      /\ IdsOf(queue) \cup IdsOf(InBatches) \cup started \cup cancelled
           = 0 .. next_id - 1
  BY DEF IInv, InOnePlace
<1>7. /\ (IdsOf(queue)' \cup IdsOf(InBatches)')
              \cap (started' \cup cancelled') = {}
      /\ started' \cap cancelled' = {}
      /\ IdsOf(queue)' \cup IdsOf(InBatches)' \cup started' \cup cancelled'
           = 0 .. next_id' - 1
  BY <1>1, <1>2, <1>5, <1>6
<1> QED BY <1>1, <1>2, <1>3, <1>4, <1>7 DEF IInv, InOnePlace

-----------------------------------------------------------------------------
LEMMA NextIInv == IInv /\ [Next]_vars => IInv'
<1> SUFFICES ASSUME IInv, [Next]_vars PROVE IInv'
  OBVIOUS
<1> USE DEF IInv
<1>1. ASSUME NEW text \in Scripts, AfterIdle(text) PROVE IInv'
  BY <1>1, RegisterTyped, RegisterInOnePlace DEF AfterIdle
<1>2. ASSUME NEW text \in Scripts, NEW ms \in Delays, AfterDelay(text, ms)
      PROVE  IInv'
  <2>1. now + ms \in 0 .. MaxTime
    BY <1>2, EventLoopAssumption DEF AfterDelay, TypeOK
  <2> QED BY <1>2, <2>1, RegisterTyped, RegisterInOnePlace DEF AfterDelay
<1>3. ASSUME NEW text \in Texts, AfterCancel(text) PROVE IInv'
  BY <1>3, CancelTyped, CancelInOnePlace
<1>4. ASSUME NEW x \in Vars, NEW v \in Values, Set(x, v) PROVE IInv'
  <2>1. TypeOK' /\ WithinLimit'
    BY <1>4, SetTyped
  <2>2. SameBatches
    BY <1>4 DEF Set, SameBatches
  <2>3. UNCHANGED <<registry, history>>
    BY <1>4 DEF Set
  <2> QED BY <2>1, <2>2, <2>3, UnmovedInOnePlace
<1>5. ASSUME NEW x \in Vars, NEW op \in {"update", "idletasks", "vwait"},
             Enter(op, x)
      PROVE  IInv'
  <2>1. TypeOK' /\ WithinLimit'
    BY <1>5, EnterTyped
  <2> DEFINE f == [op |-> op, name |-> x, before |-> value[x], batch |-> {},
                   running |-> Nobody]
  <2>2. f \in Loop /\ f.batch = {}
    BY DEF Loop, TypeOK
  <2>3. stack' = Append(stack, f) /\ UNCHANGED <<registry, history>>
    BY <1>5 DEF Enter
  <2> HIDE DEF f
  <2>4. SameBatches
    <3>1. /\ DOMAIN stack' = DOMAIN stack \cup {Len(stack) + 1}
          /\ stack'[Len(stack) + 1] = f
          /\ \A i \in DOMAIN stack : stack'[i] = stack[i]
          /\ Len(stack) + 1 \notin DOMAIN stack
      BY <2>2, <2>3, PushedStack
    <3> QED BY <2>2, <3>1 DEF SameBatches
  <2> QED BY <2>1, <2>3, <2>4, UnmovedInOnePlace
<1>6. CASE EndScript
  <2>1. TypeOK' /\ WithinLimit' /\ SameBatches
    BY <1>6, EndScriptStep DEF SameBatches
  <2>2. UNCHANGED <<registry, history>>
    BY <1>6 DEF EndScript
  <2> QED BY <2>1, <2>2, UnmovedInOnePlace
<1>7. CASE RunNext
  <2>1. TypeOK' /\ WithinLimit'
    BY <1>7, RunNextStep DEF RunNext, Looping
  <2> QED BY <1>7, <2>1, RunNextInOnePlace
<1>8. CASE TakeDueTimers
  BY <1>8, TakeDueTimersStep, TakeDueTimersInOnePlace
<1>9. CASE TakeIdle
  BY <1>9, TakeIdleInOnePlace
<1>10. CASE UpdateReturns \/ VwaitReturns \/ GiveUp
  <2>1. /\ stack # <<>> /\ top.batch = {} /\ stack' = Pop
        /\ UNCHANGED <<registry, now, value, finished, history>>
    BY <1>10 DEF UpdateReturns, VwaitReturns, GiveUp, Passing, Looping
  <2> QED BY <2>1, PopTyped, PopInOnePlace
<1>11. CASE EndMain \/ Tick \/ Ended \/ UNCHANGED vars
  <2>1. UNCHANGED <<registry, value, stack, history>>
    BY <1>11 DEF EndMain, Tick, Ended, vars
  <2>2. now' \in 0 .. MaxTime
    BY <1>11, EventLoopAssumption DEF EndMain, Tick, Ended, vars, TypeOK
  <2>3. finished' \in BOOLEAN
    BY <1>11 DEF EndMain, Tick, Ended, vars, TypeOK
  <2>4. SameBatches
    BY <2>1 DEF SameBatches
  <2> QED BY <2>1, <2>2, <2>3, <2>4, UnmovedInOnePlace
          DEF TypeOK, WithinLimit, registry, history
<1> QED BY <1>1, <1>2, <1>3, <1>4, <1>5, <1>6, <1>7, <1>8, <1>9, <1>10, <1>11
        DEF Next, LoopStep

(* The inductive invariant holds in every state of the event loop.            *)
THEOREM Invariance == Spec => []IInv
<1> QED BY InitIInv, NextIInv, PTL DEF Spec

(* Type correctness, with it that loops nest no deeper than the recursion     *)
(* limit lets a script run.                                                   *)
THEOREM TypeCorrect == Spec => []TypeOK
<1>1. IInv => TypeOK
  BY DEF IInv
<1> QED BY <1>1, Invariance, PTL

(* A registered `after` script is in one place: none is lost, run twice, or   *)
(* run after a cancel that found it, whatever loops are nested in it.         *)
THEOREM RunsAtMostOnce == Spec => []InOnePlace
<1>1. IInv => InOnePlace
  BY DEF IInv
<1> QED BY <1>1, Invariance, PTL

-----------------------------------------------------------------------------
(* What a batch owes to the registry: its entries are timers whose time has   *)
(* come, and each precedes every timer still registered, also those that were *)
(* registered after the batch was taken.                                      *)
BatchesFirst ==
  \A a \in InBatches : /\ a.due # Idle /\ a.due <= now
                       /\ \A b \in Timers(queue) : RunsBefore(a, b)

LEMMA InitBatchesFirst == Init => BatchesFirst
BY DEF Init, BatchesFirst, InBatches

LEMMA Numbers ==
  ASSUME IInv
  PROVE  /\ now \in Nat
         /\ \A a \in queue \cup InBatches :
              a.id \in Nat /\ (a.due # Idle => a.due \in Nat)
<1>1. \A i \in DOMAIN stack : stack[i] \in Loop
  BY ElementOfSeq, LenProperties DEF IInv, TypeOK
<1>2. InBatches \subseteq After
  BY <1>1 DEF InBatches, Loop
<1> QED BY <1>2, EventLoopAssumption DEF IInv, TypeOK, After, Ids

(* What every other step does: batches shrink at most, time does not go back, *)
(* and a timer that was not registered before is the newest and due no        *)
(* earlier than now.                                                          *)
Ages ==
  /\ InBatches' \subseteq InBatches
  /\ now' >= now
  /\ \A b \in Timers(queue') :
       b \in queue \/ (b.due >= now /\ b.id = next_id)

LEMMA AgesKeepsBatchesFirst ==
  ASSUME IInv, IInv', BatchesFirst, Ages
  PROVE  BatchesFirst'
<1>1. now' \in Nat /\ \A b \in queue' : b.due # Idle => b.due \in Nat
  BY EventLoopAssumption DEF IInv, TypeOK, After
<1>2. ASSUME NEW a \in InBatches'
      PROVE  a.due # Idle /\ a.due <= now'
  BY <1>1, <1>2, Numbers DEF BatchesFirst, Ages
<1>3. ASSUME NEW a \in InBatches', NEW b \in Timers(queue)'
      PROVE  RunsBefore(a, b)
  <2>1. b \in Timers(queue') /\ b.due \in Nat
    BY <1>1, <1>3 DEF Timers
  <2>2. CASE b \in queue
    BY <2>1, <2>2 DEF BatchesFirst, Timers, Ages
  <2>3. CASE b.due >= now /\ b.id = next_id
    <3>1. a.due \in Nat /\ a.due <= now /\ a.id \in Nat
      BY <1>3, Numbers DEF BatchesFirst, Ages
    <3>2. a.id \in IdsOf(InBatches)
      BY <1>3 DEF IdsOf, Ages
    <3>3. a.id \in 0 .. next_id - 1 /\ next_id \in Nat
      BY <3>2 DEF IInv, InOnePlace, TypeOK
    <3> QED BY <2>1, <2>3, <3>1, <3>3, Numbers DEF RunsBefore
  <2> QED BY <2>1, <2>2, <2>3 DEF Ages
<1> QED BY <1>2, <1>3 DEF BatchesFirst

LEMMA TakeDueTimersKeepsBatchesFirst ==
  ASSUME IInv, BatchesFirst, TakeDueTimers
  PROVE  BatchesFirst'
<1>1. InBatches' = InBatches \cup Due
  <2>1. /\ DOMAIN stack' = DOMAIN stack
        /\ Len(stack) \in DOMAIN stack
        /\ stack[Len(stack)].batch = {}
        /\ stack'[Len(stack)].batch = Due
        /\ \A i \in DOMAIN stack \ {Len(stack)} : stack'[i] = stack[i]
    BY TakeDueTimersStep DEF top
  <2> HIDE DEF Due
  <2> QED BY <2>1 DEF InBatches
<1>2. queue' = queue \ Due /\ now' = now
  BY DEF TakeDueTimers, Without
<1>3. ASSUME NEW a \in InBatches'
      PROVE  /\ a.due # Idle /\ a.due <= now
             /\ \A b \in Timers(queue)' : RunsBefore(a, b)
  <2>1. CASE a \in InBatches
    BY <1>2, <2>1 DEF BatchesFirst, Timers
  <2>2. CASE a \in Due
    <3>1. a.due \in Nat /\ a.due <= now /\ a.due # Idle
      BY <2>2, Numbers DEF Due, Timers
    <3>2. \A b \in Timers(queue)' : b.due \in Nat /\ ~(b.due <= now)
      BY <1>2, Numbers DEF Due, Timers
    <3> QED BY <3>1, <3>2, Numbers DEF RunsBefore
  <2> QED BY <1>1, <2>1, <2>2
<1> QED BY <1>2, <1>3 DEF BatchesFirst

LEMMA NextAges ==
  ASSUME IInv, [Next]_vars, ~TakeDueTimers
  PROVE  Ages
<1>1. now \in Nat /\ now >= now
  BY Numbers
<1>2. ASSUME NEW text, NEW due, Register(text, due), due # Idle => due >= now
      PROVE  Ages
  <2>1. queue' = queue \cup {[id |-> next_id, script |-> text, due |-> due]}
    BY <1>2 DEF Register
  <2>2. \A b \in Timers(queue') : b \in queue \/ (b.due >= now /\ b.id = next_id)
    BY <1>2, <2>1 DEF Timers
  <2> QED BY <1>1, <1>2, <2>2 DEF Register, Ages, InBatches
<1>3. ASSUME NEW text \in Scripts, AfterIdle(text) PROVE Ages
  BY <1>2, <1>3 DEF AfterIdle
<1>4. ASSUME NEW text \in Scripts, NEW ms \in Delays, AfterDelay(text, ms)
      PROVE  Ages
  <2>1. now + ms >= now
    BY <1>1, EventLoopAssumption
  <2> QED BY <1>2, <1>4, <2>1 DEF AfterDelay
<1>5. ASSUME queue' \subseteq queue, now' = now, InBatches' \subseteq InBatches
      PROVE  Ages
  BY <1>1, <1>5 DEF Ages, Timers
<1>6. ASSUME NEW text, AfterCancel(text) PROVE Ages
  BY <1>5, <1>6 DEF AfterCancel, InBatches
<1>7. ASSUME NEW x \in Vars, NEW v \in Values, Set(x, v) PROVE Ages
  <2>1. InBatches' = InBatches
    BY <1>7 DEF Set, InBatches
  <2> QED BY <1>5, <1>7, <2>1 DEF Set, registry
<1>8. ASSUME NEW x \in Vars, NEW op \in {"update", "idletasks", "vwait"},
             Enter(op, x)
      PROVE  Ages
  <2> DEFINE f == [op |-> op, name |-> x, before |-> value[x], batch |-> {},
                   running |-> Nobody]
  <2>1. f \in Loop /\ f.batch = {}
    BY DEF Loop, IInv, TypeOK
  <2>2. stack' = Append(stack, f)
    BY <1>8 DEF Enter
  <2> HIDE DEF f
  <2>3. /\ DOMAIN stack' = DOMAIN stack \cup {Len(stack) + 1}
        /\ stack'[Len(stack) + 1] = f
        /\ \A i \in DOMAIN stack : stack'[i] = stack[i]
    BY <2>1, <2>2, PushedStack DEF IInv
  <2>4. InBatches' \subseteq InBatches
    BY <2>1, <2>3 DEF InBatches
  <2> QED BY <1>5, <1>8, <2>4 DEF Enter, registry
<1>9. CASE EndScript
  <2>1. InBatches' = InBatches
    BY <1>9, EndScriptStep DEF InBatches
  <2> QED BY <1>5, <1>9, <2>1 DEF EndScript, registry
<1>10. CASE RunNext
  <2>1. PICK a \in top.batch :
          /\ stack' = [stack EXCEPT ![Len(stack)].batch = @ \ {a},
                                    ![Len(stack)].running = RunsIt(a)]
          /\ started' = started \cup {a.id}
    BY <1>10 DEF RunNext
  <2>2. /\ DOMAIN stack' = DOMAIN stack
        /\ \A i \in DOMAIN stack : stack'[i].batch \subseteq stack[i].batch
    BY <1>10, <2>1, RunNextStep DEF RunNext, Looping, top
  <2>3. InBatches' \subseteq InBatches
    BY <2>2 DEF InBatches
  <2> QED BY <1>5, <1>10, <2>3 DEF RunNext, registry
<1>11. CASE TakeIdle
  <2>1. PICK a \in queue :
          /\ queue' = queue \ {a}
          /\ stack' = [stack EXCEPT ![Len(stack)].running = RunsIt(a)]
          /\ started' = started \cup {a.id}
    BY <1>11 DEF TakeIdle, Without
  <2>2. stack # <<>> /\ UNCHANGED <<next_id, now, value, finished, cancelled>>
    BY <1>11 DEF TakeIdle, Passing, Looping
  <2>3. /\ DOMAIN stack' = DOMAIN stack
        /\ \A i \in DOMAIN stack : stack'[i].batch = stack[i].batch
    BY <2>1, <2>2, TakeIdleStep
  <2>4. InBatches' = InBatches
    BY <2>3 DEF InBatches
  <2> QED BY <1>5, <2>1, <2>2, <2>4
<1>12. CASE UpdateReturns \/ VwaitReturns \/ GiveUp
  <2>1. stack # <<>> /\ stack' = Pop /\ UNCHANGED <<registry, now>>
    BY <1>12 DEF UpdateReturns, VwaitReturns, GiveUp, Passing, Looping
  <2>2. InBatches' \subseteq InBatches
    BY <2>1, PoppedStack DEF InBatches, IInv
  <2> QED BY <1>5, <2>1, <2>2 DEF registry
<1>13. CASE Tick
  <2>1. queue' = queue /\ InBatches' = InBatches /\ now' >= now
    BY <1>1, <1>13 DEF Tick, InBatches, registry
  <2> QED BY <2>1 DEF Ages, Timers
<1>14. CASE EndMain \/ Ended \/ UNCHANGED vars
  <2>1. UNCHANGED <<queue, now, stack>>
    BY <1>14 DEF EndMain, Ended, vars, registry
  <2>2. InBatches' = InBatches
    BY <2>1 DEF InBatches
  <2> QED BY <1>5, <2>1, <2>2
<1> QED BY <1>3, <1>4, <1>6, <1>7, <1>8, <1>9, <1>10, <1>11, <1>12, <1>13,
           <1>14 DEF Next, LoopStep

LEMMA NextBatchesFirst ==
  ASSUME IInv, IInv', BatchesFirst, [Next]_vars
  PROVE  BatchesFirst'
BY NextAges, AgesKeepsBatchesFirst, TakeDueTimersKeepsBatchesFirst

(* What a step hands over is the entry it chose.                              *)
LEMMA HandsOver ==
  ASSUME IInv, NEW c \in queue \cup InBatches, started' = started \cup {c.id},
         NEW a \in HandedOver
  PROVE  a = c
BY DEF HandedOver, IInv, InOnePlace

(* No script starts while one that precedes it waits in the registry or in    *)
(* its batch: the loop serves timers by deadline and age, and idle handlers   *)
(* by age once no timer is due, at any depth of nesting.                      *)
THEOREM StartsInOrder == Spec => ServiceOrder
<1> DEFINE Ordered == \A a \in HandedOver :
                        \A b \in queue \cup top.batch : ~Precedes(b, a)
<1>1. ASSUME IInv, BatchesFirst, [Next]_vars
      PROVE  [Ordered]_vars
  <2>1. CASE RunNext
    <3>1. PICK c \in top.batch :
            FirstOf(c, top.batch) /\ started' = started \cup {c.id}
      BY <2>1 DEF RunNext
    <3>2. c \in InBatches
      BY <1>1, <2>1, StackTop DEF RunNext, Looping, InBatches, top, IInv
    <3>3. ASSUME NEW a \in HandedOver, NEW b \in queue
          PROVE  ~Precedes(b, a)
      <4>1. a = c
        BY <1>1, <3>1, <3>2, HandsOver
      <4>2. /\ c.due # Idle /\ c.due \in Nat /\ c.id \in Nat
            /\ b.id \in Nat /\ (b.due # Idle => b.due \in Nat)
            /\ b.due # Idle => RunsBefore(c, b)
        BY <1>1, <3>2, Numbers DEF BatchesFirst, Timers
      <4>3. b.due # Idle => b.id # c.id
        BY <1>1, <3>2 DEF IInv, InOnePlace
      <4> QED BY <4>1, <4>2, <4>3 DEF Precedes, RunsBefore
    <3>4. ASSUME NEW a \in HandedOver, NEW b \in top.batch
          PROVE  ~Precedes(b, a)
      <4>1. a = c
        BY <1>1, <3>1, <3>2, HandsOver
      <4>2. b \in InBatches
        BY <1>1, <2>1, <3>4, StackTop
           DEF RunNext, Looping, InBatches, top, IInv
      <4>3. /\ c.due # Idle /\ c.due \in Nat /\ c.id \in Nat
            /\ b.due # Idle /\ b.due \in Nat /\ b.id \in Nat
        BY <1>1, <3>2, <4>2, Numbers DEF BatchesFirst
      <4>4. RunsBefore(c, b)
        BY <3>1, <3>4 DEF FirstOf
      <4> QED BY <4>1, <4>3, <4>4 DEF Precedes, RunsBefore
    <3> QED BY <3>3, <3>4
  <2>2. CASE TakeIdle
    <3>1. PICK c \in queue : OldestIdle(c) /\ started' = started \cup {c.id}
      BY <2>2 DEF TakeIdle
    <3>2. NoTimerFirst
      BY <2>2 DEF TakeIdle
    <3>3. ASSUME NEW a \in HandedOver, NEW b \in queue
          PROVE  ~Precedes(b, a)
      <4>1. a = c
        BY <1>1, <3>1, HandsOver
      <4>2. c.due = Idle /\ c.id \in Nat /\ b.id \in Nat
        BY <1>1, <3>1, Numbers DEF OldestIdle, Idles
      <4>3. CASE b.due = Idle
        <5>1. c.id <= b.id
          BY <3>1, <4>3 DEF OldestIdle, Idles
        <5>2. ~(b.id < c.id)
          BY <4>2, <5>1
        <5> QED BY <4>1, <4>2, <4>3, <5>2 DEF Precedes
      <4>4. CASE b.due # Idle
        <5>1. top.op # "idletasks" => ~(b.due <= now)
          BY <3>2, <4>4 DEF NoTimerFirst, Due, Timers
        <5> QED BY <4>1, <4>2, <4>4, <5>1 DEF Precedes
      <4> QED BY <4>3, <4>4
    <3>4. top.batch = {}
      BY <2>2 DEF TakeIdle, Passing
    <3> QED BY <3>3, <3>4
  <2>3. CASE started' = started
    BY <2>3 DEF HandedOver
  <2>4. RunNext \/ TakeIdle \/ started' = started
    BY <1>1 DEF Next, LoopStep, AfterIdle, AfterDelay, Register, AfterCancel,
                Set, Enter, EndScript, EndMain, TakeDueTimers, UpdateReturns,
                VwaitReturns, GiveUp, Tick, Ended, vars, history
  <2> QED BY <2>1, <2>2, <2>3, <2>4
<1>2. Spec => []BatchesFirst
  BY InitBatchesFirst, NextBatchesFirst, Invariance, PTL DEF Spec
<1> HIDE DEF Ordered
<1>3. Spec => [][Ordered]_vars
  BY <1>1, <1>2, Invariance, PTL DEF Spec
<1> QED BY <1>3 DEF ServiceOrder, Ordered
=============================================================================
