------------------------------ MODULE Coroutine ------------------------------
(***************************************************************************)
(* The driver of one evaluation, `Machine` in src/runtime.rs, seen as the  *)
(* scheduler of its execution contexts: the main script (context 0) and    *)
(* the coroutines it made.  One context runs at a time.  An op that needs  *)
(* another context (coroutine, a resumption, yield, yieldto) halts its VM  *)
(* and leaves a request, which the driver services; the halted op is       *)
(* answered later by a value pushed on its VM's stack.                     *)
(*                                                                         *)
(* A context's program is left open: at any point it may issue any         *)
(* request, open or close a region, raise a code, or end.  A region is a   *)
(* `catch` or a loop that a raised `break` or `continue` may reach; which  *)
(* of the two is left open as well.                                        *)
(***************************************************************************)
EXTENDS Naturals

CONSTANTS
  Names,        (* coroutine names a script uses                              *)
  MaxContexts,  (* bound: coroutines one run makes                            *)
  MaxCatches,   (* bound: regions open in one context                         *)
  MaxArgs,      (* bound: arguments passed in one resumption                  *)
  None          (* Option::None                                               *)

Ctx == 0 .. MaxContexts      (* indices into Machine.contexts                 *)

ASSUME CoroutineAssumption ==
  /\ MaxContexts \in Nat
  /\ MaxCatches \in Nat
  /\ MaxArgs \in Nat
  /\ None \notin Ctx
  /\ None \notin Names

VARIABLES
  contexts,   (* contexts.len()                                               *)
  vm,         (* the contexts whose VM is still there                         *)
  name,       (* Context.name                                                 *)
  resumer,    (* Context.resumer: where control goes back to                  *)
  park,       (* Context.park                                                 *)
  catches,    (* Context.catches.len(), the regions it has open               *)
  live,       (* Machine.live: live coroutines by name                        *)
  created,    (* Machine.created                                              *)
  current,    (* Machine.current                                              *)
  owed,       (* values the op each VM halted in is still waiting for         *)
  raising,    (* the code on its way outwards in the loop of `raise`          *)
  outcome     (* "running", then how drive() answered                         *)

control == <<resumer, park, current, owed>>
table   == <<contexts, vm, name, live, created>>
vars    == <<control, table, catches, raising, outcome>>

Parks == {"Running", "AtYield", "AtYieldTo"}
Codes == {"error", "loop", "return"}     (* "loop" is `break` or `continue`   *)

TypeOK ==
  /\ contexts \in 1 .. MaxContexts + 1
  /\ vm \subseteq Ctx
  /\ name \in [Ctx -> Names \cup {None}]
  /\ resumer \in [Ctx -> Ctx \cup {None}]
  /\ park \in [Ctx -> Parks]
  /\ catches \in [Ctx -> 0 .. MaxCatches]
  /\ live \in [Names -> Ctx \cup {None}]
  /\ created \subseteq Names
  /\ current \in Ctx
  /\ owed \in [Ctx -> Nat]
  /\ raising \in Codes \cup {"none"}
  /\ outcome \in {"running", "value", "error"}

Init ==
  /\ contexts = 1
  /\ vm = {0}
  /\ name = [c \in Ctx |-> None]
  /\ resumer = [c \in Ctx |-> None]
  /\ park = [c \in Ctx |-> "Running"]
  /\ catches = [c \in Ctx |-> 0]
  /\ live = [n \in Names |-> None]
  /\ created = {}
  /\ current = 0
  /\ owed = [c \in Ctx |-> 0]
  /\ raising = "none"
  /\ outcome = "running"

Executing == outcome = "running" /\ raising = "none"
Unwinding == raising # "none"

-----------------------------------------------------------------------------
(* What is left of each part of a context once `gone` have been discarded.    *)

VmWithout(gone)      == vm \ gone
NameWithout(gone)    == [c \in Ctx |-> IF c \in gone THEN None ELSE name[c]]
ResumerWithout(gone) == [c \in Ctx |-> IF c \in gone THEN None ELSE resumer[c]]
CatchesWithout(gone) == [c \in Ctx |-> IF c \in gone THEN 0 ELSE catches[c]]
OwedWithout(gone)    == [c \in Ctx |-> IF c \in gone THEN 0 ELSE owed[c]]

(* A deleted coroutine's name leaves the table, `self.live.remove`.  (A       *)
(* deletion that forgot to.)                                                  *)
KeepsTheName(gone) == live
LiveWithout(gone) ==
  [n \in Names |-> IF \E c \in gone : name[c] = n THEN None ELSE live[n]]

(* `suspended`: the name answers and its coroutine is parked.  (The check     *)
(* without the second half.)                                                  *)
AnyLive(n)   == live[n] # None
Suspended(n) == live[n] # None /\ park[live[n]] # "Running"

(* `resumption`: `yield` takes at most one value back, `yieldto` a list.      *)
Accepts(t, k) == park[t] = "AtYieldTo" \/ k <= 1

(* The resumption of `n` with `k` values is one the driver carries out.        *)
Resumable(n, k) == Suspended(n) /\ Accepts(live[n], k)

(* `coroutine` is compiled only where `static_ctx` holds, which is never a    *)
(* procedure body: the context that creates one is the main script's.  (No    *)
(* such rule.)                                                                *)
Anywhere  == TRUE
MayCreate == current = 0

(* One value pushed: the op `c` is halted in waits, the one `r` waited in is  *)
(* answered.  (The halt is forgotten; the answer is.)                         *)
ForgetsTheHalt(c, r)   == [owed EXCEPT ![r] = @ - 1]
ForgetsTheAnswer(c, r) == [owed EXCEPT ![c] = @ + 1]
Handover(c, r) == [owed EXCEPT ![c] = @ + 1, ![r] = @ - 1]

(* `yieldto` donates: the target takes over the resumer, which leaves the     *)
(* coroutine that ceded.                                                      *)
Donate(t) == [resumer EXCEPT ![current] = None, ![t] = resumer[current]]

(* Where control goes when a context yields, ends or fails.  (Always to the   *)
(* script; nowhere.)                                                          *)
ToTheScript(c) == 0
StaysPut(c)    == c
ReturnsTo(c) == resumer[c]

-----------------------------------------------------------------------------
(* `create`, reached by servicing Request::Create.  A name that is still live *)
(* loses its old context first.                                               *)
Create(n) ==
  LET gone == IF live[n] = None THEN {} ELSE {live[n]}
      new  == contexts
  IN  /\ Executing /\ MayCreate
      /\ contexts <= MaxContexts
      /\ contexts' = contexts + 1
      /\ vm' = VmWithout(gone) \cup {new}
      /\ name' = [NameWithout(gone) EXCEPT ![new] = n]
      /\ resumer' = [ResumerWithout(gone) EXCEPT ![new] = current]
      /\ park' = [park EXCEPT ![new] = "Running"]
      /\ catches' = [CatchesWithout(gone) EXCEPT ![new] = 0]
      /\ live' = [LiveWithout(gone) EXCEPT ![n] = new]
      /\ created' = created \cup {n}
      /\ current' = new
      /\ owed' = [OwedWithout(gone) EXCEPT ![current] = @ + 1, ![new] = 0]
      /\ UNCHANGED <<raising, outcome>>

(* Request::Resume, accepted: the target returns to whoever resumed it.       *)
Resume(n, k) ==
  LET t == live[n]
  IN  /\ Executing
      /\ Resumable(n, k)
      /\ resumer' = [resumer EXCEPT ![t] = current]
      /\ park' = [park EXCEPT ![t] = "Running"]
      /\ owed' = Handover(current, t)
      /\ current' = t
      /\ UNCHANGED <<table, catches, raising, outcome>>

(* Request::Yield in a coroutine.                                             *)
Yield ==
  /\ Executing
  /\ name[current] # None
  /\ park' = [park EXCEPT ![current] = "AtYield"]
  /\ resumer' = [resumer EXCEPT ![current] = None]
  /\ owed' = Handover(current, ReturnsTo(current))
  /\ current' = ReturnsTo(current)
  /\ UNCHANGED <<table, catches, raising, outcome>>

(* Request::YieldTo in a coroutine, accepted.                                 *)
YieldTo(n, k) ==
  LET t == live[n]
  IN  /\ Executing
      /\ name[current] # None
      /\ n \in created
      /\ Resumable(n, k)
      /\ park' = [park EXCEPT ![current] = "AtYieldTo", ![t] = "Running"]
      /\ resumer' = Donate(t)
      /\ owed' = Handover(current, t)
      /\ current' = t
      /\ UNCHANGED <<table, catches, raising, outcome>>

(* A request `service` refuses is an error raised in the context that made    *)
(* it, which stays halted in the op: a procedure that is not in the chunk, a  *)
(* name that is not live or is running, too many values, or a yield by the    *)
(* main script.                                                               *)
RefuseResume  == \E n \in Names, k \in 0 .. MaxArgs : ~Resumable(n, k)
RefuseYield   == name[current] = None
RefuseYieldTo == \E n \in Names, k \in 0 .. MaxArgs :
                   n \notin created \/ ~Resumable(n, k)

Refuse ==
  /\ Executing
  /\ MayCreate \/ RefuseResume \/ RefuseYield \/ RefuseYieldTo
  /\ owed' = [owed EXCEPT ![current] = @ + 1]
  /\ raising' = "error"
  /\ UNCHANGED <<resumer, park, current, table, catches, outcome>>

(* An op of the running VM raises a code of its own.                          *)
Fail ==
  /\ Executing
  /\ raising' \in Codes
  /\ UNCHANGED <<control, table, catches, outcome>>

(* `retire`: a coroutine's body ended, its value is the value of the call     *)
(* that resumed it.  Every region the body opened has been closed.            *)
Retire ==
  LET r == ReturnsTo(current)
  IN  /\ Executing
      /\ current # 0 /\ catches[current] = 0
      /\ vm' = VmWithout({current})
      /\ name' = NameWithout({current})
      /\ live' = LiveWithout({current})
      /\ resumer' = ResumerWithout({current})
      /\ owed' = [OwedWithout({current}) EXCEPT ![r] = @ - 1]
      /\ current' = r
      /\ UNCHANGED <<contexts, created, park, catches, raising, outcome>>

(* The main script reached the end of its program: `drive` answers, and       *)
(* coroutines still suspended go with the machine.                            *)
Finish ==
  /\ Executing
  /\ current = 0 /\ catches[0] = 0
  /\ outcome' = "value"
  /\ UNCHANGED <<control, table, catches, raising>>

OpenCatch ==
  /\ Executing
  /\ catches[current] < MaxCatches
  /\ catches' = [catches EXCEPT ![current] = @ + 1]
  /\ UNCHANGED <<control, table, raising, outcome>>

CloseCatch ==
  /\ Executing
  /\ catches[current] > 0
  /\ catches' = [catches EXCEPT ![current] = @ - 1]
  /\ UNCHANGED <<control, table, raising, outcome>>

-----------------------------------------------------------------------------
(* One pass of the loop in `raise`.                                           *)

(* What a code may be after the calls it left on the way: a procedure turns a *)
(* `break` into an error, and a `return` becomes the code it carries.         *)
Becomes(code) == CASE code = "error"  -> {"error"}
                   [] code = "loop"   -> {"loop", "error"}
                   [] code = "return" -> Codes

(* Where a region takes the code its value stack is cut back to what it was   *)
(* on entry, so the halted op is gone too.  A `catch` takes any and ends; a   *)
(* loop takes its own two and goes on.                                        *)
Absorb ==
  /\ Unwinding
  /\ catches[current] > 0
  /\ \/ catches' = [catches EXCEPT ![current] = @ - 1]
     \/ "loop" \in Becomes(raising) /\ UNCHANGED catches
  /\ owed' = [owed EXCEPT ![current] = 0]
  /\ raising' = "none"
  /\ UNCHANGED <<resumer, park, current, table, outcome>>

(* A loop that does not take the code is abandoned.                           *)
PassRegion ==
  /\ Unwinding
  /\ catches[current] > 0
  /\ catches' = [catches EXCEPT ![current] = @ - 1]
  /\ raising' \in Becomes(raising)
  /\ UNCHANGED <<control, table, outcome>>

(* `spend_call_level`: no region is left, and a `return` ends the procedure   *)
(* call it was raised in, which answers its value or goes on with its code.   *)
EndCall ==
  /\ raising = "return"
  /\ catches[current] = 0
  /\ raising' \in Codes \cup {"none"}
  /\ owed' = [owed EXCEPT ![current] = 0]
  /\ UNCHANGED <<resumer, park, current, table, catches, outcome>>

(* No region left in this coroutine: it is deleted and the code goes to its   *)
(* resumer.                                                                   *)
Propagate ==
  LET r == ReturnsTo(current)
  IN  /\ Unwinding
      /\ current # 0 /\ catches[current] = 0
      /\ vm' = VmWithout({current})
      /\ name' = NameWithout({current})
      /\ live' = LiveWithout({current})
      /\ resumer' = ResumerWithout({current})
      /\ owed' = OwedWithout({current})
      /\ IF r = None
           THEN outcome' = "error" /\ raising' = "none" /\ UNCHANGED current
           ELSE current' = r /\ UNCHANGED <<raising, outcome>>
      /\ UNCHANGED <<contexts, created, park, catches>>

(* Nothing was left to catch it in the main script.                           *)
Escape ==
  /\ Unwinding
  /\ current = 0 /\ catches[0] = 0
  /\ outcome' = "error"
  /\ raising' = "none"
  /\ UNCHANGED <<control, table, catches>>

(* The evaluation is over; nothing more happens.                              *)
Ended == outcome # "running" /\ UNCHANGED vars

RaiseStep == Absorb \/ PassRegion \/ EndCall \/ Propagate \/ Escape

Next ==
  \/ \E n \in Names : Create(n)
  \/ \E n \in Names, k \in 0 .. MaxArgs : Resume(n, k)
  \/ \E n \in Names, k \in 0 .. MaxArgs : YieldTo(n, k)
  \/ Yield \/ Refuse \/ Fail \/ Retire \/ Finish
  \/ OpenCatch \/ CloseCatch
  \/ RaiseStep
  \/ Ended

(* The loop of `raise` runs to its end before the driver does anything else.  *)
Spec == Init /\ [][Next]_vars /\ WF_vars(RaiseStep)

-----------------------------------------------------------------------------
Running == {c \in vm : park[c] = "Running"}

(* A set of contexts R linked by f is a path that ends at the script: c is    *)
(* nobody's target, no two have the same target, and no set of coroutines     *)
(* points only at itself, so there is no circle.                              *)
Linked(R, f, c) ==
  /\ 0 \in R /\ f[0] = None
  /\ c \in R
  /\ \A x \in R \ {0} : f[x] \in R \ {c}
  /\ \A x, y \in R \ {0} : f[x] = f[y] => x = y
  /\ \A S \in SUBSET (R \ {0}) : S # {} => \E x \in S : f[x] \notin S

(* Control always has a way back to the script: the resumers of the running   *)
(* contexts lead from the current one, through all of them, to the main       *)
(* script.                                                                    *)
ChainReachesMain == Linked(Running, resumer, current)

(* Every halted op is answered by exactly one value: the running VM waits for *)
(* nothing and every other live VM is owed one (a halted op that an error is  *)
(* unwinding may still be unanswered).                                        *)
OneAnswerPerRequest ==
  /\ \A c \in vm \ {current} : owed[c] = 1
  /\ owed[current] <= 1
  /\ Executing => owed[current] = 0

(* The table of coroutine commands and the contexts agree: a name answers     *)
(* exactly while the context made under it has a VM, so no call reaches a     *)
(* discarded one.                                                             *)
TableMatchesContexts ==
  /\ name[0] = None
  /\ \A c \in Ctx \ {0} : c \in vm <=> (name[c] # None /\ live[name[c]] = c)
  /\ \A n \in Names : live[n] # None => (live[n] \in vm /\ name[live[n]] = n)

(* A parked coroutine has nowhere to return to until something resumes it,    *)
(* and a context that was never made or was discarded holds nothing.          *)
ParkedHoldsNoResumer ==
  /\ \A c \in Ctx : c \notin Running => resumer[c] = None
  /\ \A c \in Ctx : c >= contexts => c \notin vm
  /\ \A c \in Ctx \ vm : catches[c] = 0 /\ owed[c] = 0

(* Only an error that its body let through, its body's end or its name being  *)
(* made again deletes a coroutine, and a deleted context never runs again.    *)
DeletionIsFinal ==
  [][/\ \A c \in Ctx : (c < contexts /\ c \notin vm) => c \notin vm'
     /\ \A c \in vm \ vm' : \/ c = current /\ catches[c] = 0
                            \/ c \notin Running /\ current = 0]_vars

(* A raised code settles: something takes it or the evaluation ends with it.  *)
ErrorSettles == Unwinding ~> ~Unwinding
=============================================================================
