------------------------------ MODULE EventLoop ------------------------------
(***************************************************************************)
(* The event loop of src/cmd_after.rs, in a build without Tk: the registry *)
(* of `after` scripts, and `update`, `update idletasks` and `vwait`, which *)
(* service it.  A script the loop runs may itself register, cancel, write  *)
(* a variable, or enter the loop again, so the state is a stack of loops,  *)
(* each but perhaps the last waiting for the script it is running.         *)
(*                                                                         *)
(* Scripts are left open: a running script may do any of these at any      *)
(* point, and end.  A script that fails ends as well: its error is         *)
(* reported and the loop goes on.  The registry is a newest-first list in  *)
(* the code; every insertion is at its front and ids only grow, so it is   *)
(* the set of its entries here and the list order is by decreasing id.     *)
(***************************************************************************)
EXTENDS Integers, Sequences, FiniteSets

CONSTANTS
  Scripts,    (* script texts; a number stands for the text of a handle       *)
  Vars,       (* global variables a wait may be on                            *)
  Values,     (* what they hold (being unset is one more value)               *)
  Delays,     (* milliseconds an `after` may ask for                          *)
  MaxIds,     (* bound: scripts registered in one run                         *)
  MaxTime,    (* bound: the clock                                             *)
  Limit,      (* the interpreter's recursion limit                            *)
  Idle,       (* in place of a deadline: an idle handler                      *)
  Nobody      (* no script is running                                         *)

ASSUME EventLoopAssumption ==
  /\ MaxIds \in Nat /\ MaxTime \in Nat /\ Limit \in Nat \ {0}
  /\ Delays \subseteq Nat
  /\ Idle \notin Nat /\ Nobody \notin Nat

VARIABLES
  queue,      (* Afters.queue                                                 *)
  next_id,    (* Afters.next_id                                               *)
  now,        (* the clock `Instant::now` reads                               *)
  value,      (* the global variables                                         *)
  stack,      (* the loops entered and not left, outermost first              *)
  finished,   (* the main script has ended, and the process with it           *)
  started,    (* history: ids whose script was handed to run_source           *)
  cancelled   (* history: ids `after cancel` removed                          *)

registry == <<queue, next_id>>
history  == <<started, cancelled>>
vars     == <<registry, now, value, stack, finished, history>>

Ids   == 0 .. MaxIds - 1
After == [id : Ids, script : Scripts, due : (0 .. MaxTime) \cup {Idle}]

(* One entry into the loop.  `batch` is the local vector of scripts the pass  *)
(* under way has taken from the registry and not yet run.                     *)
Loop == [op : {"update", "idletasks", "vwait"}, name : Vars, before : Values,
         batch : SUBSET After, running : Ids \cup {Nobody}]

TypeOK ==
  /\ queue \subseteq After
  /\ next_id \in 0 .. MaxIds
  /\ now \in 0 .. MaxTime
  /\ value \in [Vars -> Values]
  /\ stack \in Seq(Loop) /\ Len(stack) <= Limit + 1
  /\ finished \in BOOLEAN
  /\ started \subseteq Ids /\ cancelled \subseteq Ids

Init ==
  /\ queue = {} /\ next_id = 0
  /\ now = 0
  /\ value \in [Vars -> Values]
  /\ stack = <<>>
  /\ finished = FALSE
  /\ started = {} /\ cancelled = {}

top  == stack[Len(stack)]
Pop  == SubSeq(stack, 1, Len(stack) - 1)

(* A script is executing: the main one, or the one the innermost loop runs.   *)
Executing == ~finished /\ (stack # <<>> => top.running # Nobody)

(* The innermost loop is in control, between two scripts.                     *)
Looping == ~finished /\ stack # <<>> /\ top.running = Nobody

-----------------------------------------------------------------------------
(* The registry.                                                              *)

Timers(q) == {a \in q : a.due # Idle}
Idles(q)  == {a \in q : a.due = Idle}

(* The timers that are due.  (An off-by-one.)                                 *)
DueStrictly == {a \in Timers(queue) : a.due < now}
Due == {a \in Timers(queue) : a.due <= now}

(* The one of a batch to run next: the order is by deadline, and by           *)
(* registration among those sharing one.  (By registration alone.)            *)
Eldest(a, batch)  == a \in batch /\ \A b \in batch : a.id <= b.id
RunsBefore(a, b)  == a.due < b.due \/ (a.due = b.due /\ a.id <= b.id)
FirstOf(a, batch) == a \in batch /\ \A b \in batch : RunsBefore(a, b)

(* What `retain` or `remove` leaves of the registry.  (All of it.)            *)
KeepsAll(taken) == queue
Without(taken)  == queue \ taken

(* The entry `after cancel` removes: the newest whose text it is, else the    *)
(* one whose handle it spells.                                                *)
Matching(text) ==
  LET byText == {a \in queue : a.script = text}
      byId   == {a \in queue : a.id = text}
  IN  IF byText # {} THEN byText ELSE byId

Cancels(text, a) ==
  a \in Matching(text) /\ \A b \in Matching(text) : b.id <= a.id

(* The idle handler a pass takes is the oldest.                               *)
OldestIdle(a) == a \in Idles(queue) /\ \A b \in Idles(queue) : a.id <= b.id

(* Nothing this build has could still become ready: no timer is pending.      *)
NothingComes == Timers(queue) = {}

-----------------------------------------------------------------------------
(* What a running script may do.                                              *)

Register(text, due) ==
  /\ Executing
  /\ next_id < MaxIds
  /\ queue' = queue \cup {[id |-> next_id, script |-> text, due |-> due]}
  /\ next_id' = next_id + 1
  /\ UNCHANGED <<now, value, stack, finished, history>>

AfterDelay(text, ms) == now + ms <= MaxTime /\ Register(text, now + ms)
AfterIdle(text)      == Register(text, Idle)

(* A cancel that matches nothing is no error and changes nothing.             *)
AfterCancel(text) ==
  \E a \in queue :
    /\ Executing
    /\ Cancels(text, a)
    /\ queue' = queue \ {a}
    /\ cancelled' = cancelled \cup {a.id}
    /\ UNCHANGED <<next_id, now, value, stack, finished, started>>

(* A script writes a global; the loops waiting on it do not see it yet.       *)
Set(x, v) ==
  /\ Executing
  /\ value' = [value EXCEPT ![x] = v]
  /\ UNCHANGED <<registry, now, stack, finished, history>>

(* `update`, `update idletasks`, `vwait`: a loop is entered.  `vwait` without *)
(* a variable is `update`.  Only `vwait` looks at what it recorded.           *)
Enter(op, x) ==
  /\ Executing
  /\ stack' = Append(stack, [op |-> op, name |-> x, before |-> value[x],
                             batch |-> {}, running |-> Nobody])
  /\ UNCHANGED <<registry, now, value, finished, history>>

(* The script of the innermost loop ends, well or in an error that is         *)
(* reported: `run_script` answers nothing.                                    *)
EndScript ==
  /\ Executing /\ stack # <<>>
  /\ stack' = [stack EXCEPT ![Len(stack)].running = Nobody]
  /\ UNCHANGED <<registry, now, value, finished, history>>

(* The main script ends; whatever is pending never runs.                      *)
EndMain ==
  /\ Executing /\ stack = <<>>
  /\ finished' = TRUE
  /\ UNCHANGED <<registry, now, value, stack, history>>

-----------------------------------------------------------------------------
(* What the innermost loop does: `service_one` under `update_op`/`vwait_op`.  *)

(* `a` is handed to run_source, which refuses it when the nesting has reached *)
(* the recursion limit: main is one level, each loop with a script another.   *)
(* (It never does.)                                                           *)
Unlimited(a) == a.id
RunsIt(a) == IF Len(stack) > Limit THEN Nobody ELSE a.id

(* The next script of the batch under way.                                    *)
RunNext ==
  /\ Looping
  /\ \E a \in top.batch :
       /\ FirstOf(a, top.batch)
       /\ stack' = [stack EXCEPT ![Len(stack)].batch = @ \ {a},
                                 ![Len(stack)].running = RunsIt(a)]
       /\ started' = started \cup {a.id}
  /\ UNCHANGED <<registry, now, value, finished, cancelled>>

(* Between passes `vwait` looks at its variable.                              *)
Changed == top.op = "vwait" /\ value[top.name] # top.before

(* The loop is about to make a pass.                                          *)
Passing == Looping /\ top.batch = {} /\ ~Changed

(* One timer event: every timer that is due leaves the registry for the       *)
(* batch.                                                                     *)
TakeDueTimers ==
  /\ Passing /\ top.op # "idletasks"
  /\ Due # {}
  /\ queue' = Without(Due)
  /\ stack' = [stack EXCEPT ![Len(stack)].batch = Due]
  /\ UNCHANGED <<next_id, now, value, finished, history>>

(* With no timer due, or none asked for, the oldest idle handler runs.        *)
NoTimerFirst == top.op = "idletasks" \/ Due = {}

TakeIdle ==
  /\ Passing /\ NoTimerFirst
  /\ \E a \in queue :
       /\ OldestIdle(a)
       /\ queue' = Without({a})
       /\ stack' = [stack EXCEPT ![Len(stack)].running = RunsIt(a)]
       /\ started' = started \cup {a.id}
  /\ UNCHANGED <<next_id, now, value, finished, cancelled>>

(* A pass that found nothing ends an `update`.                                *)
UpdateReturns ==
  /\ Passing /\ top.op # "vwait"
  /\ NoTimerFirst /\ Idles(queue) = {}
  /\ stack' = Pop
  /\ UNCHANGED <<registry, now, value, finished, history>>

VwaitReturns ==
  /\ Looping /\ top.batch = {} /\ Changed
  /\ stack' = Pop
  /\ UNCHANGED <<registry, now, value, finished, history>>

(* "can't wait for variable(s)/channel(s): would wait forever".  While a      *)
(* timer is pending and none is due the pass sleeps instead.                  *)
GiveUp ==
  /\ Passing /\ top.op = "vwait"
  /\ Due = {} /\ Idles(queue) = {} /\ NothingComes
  /\ stack' = Pop
  /\ UNCHANGED <<registry, now, value, finished, history>>

Tick ==
  /\ now < MaxTime /\ ~finished
  /\ now' = now + 1
  /\ UNCHANGED <<registry, value, stack, finished, history>>

Ended == finished /\ UNCHANGED vars

LoopStep == \/ RunNext \/ TakeDueTimers \/ TakeIdle
            \/ UpdateReturns \/ VwaitReturns \/ GiveUp

Texts == Scripts \cup Ids

Next ==
  \/ \E text \in Scripts : AfterIdle(text) \/ \E ms \in Delays :
                                               AfterDelay(text, ms)
  \/ \E text \in Texts : AfterCancel(text)
  \/ \E x \in Vars, v \in Values : Set(x, v)
  \/ \E x \in Vars, op \in {"update", "idletasks", "vwait"} : Enter(op, x)
  \/ EndScript \/ EndMain
  \/ LoopStep
  \/ Tick \/ Ended

(* The thread runs, time passes, and no script goes on for ever.              *)
Fairness == WF_vars(LoopStep) /\ WF_vars(Tick) /\ SF_vars(EndScript)

Spec == Init /\ [][Next]_vars /\ Fairness

-----------------------------------------------------------------------------
IdsOf(entries) == {a.id : a \in entries}
InBatches      == UNION {stack[i].batch : i \in DOMAIN stack}

(* Every registered script is in one place exactly: waiting in the registry,  *)
(* in the batch of one loop, handed over, or cancelled.  So none is lost,     *)
(* none runs twice, and none runs after a cancel that found it.               *)
InOnePlace ==
  /\ \A a, b \in queue \cup InBatches : a.id = b.id => a = b
  /\ \A i, j \in DOMAIN stack :
       i # j => stack[i].batch \cap stack[j].batch = {}
  /\ queue \cap InBatches = {}
  /\ (IdsOf(queue) \cup IdsOf(InBatches)) \cap (started \cup cancelled) = {}
  /\ started \cap cancelled = {}
  /\ IdsOf(queue) \cup IdsOf(InBatches) \cup started \cup cancelled
       = 0 .. next_id - 1

(* `a` is to be serviced before `b` in a pass that may run timers.            *)
Precedes(a, b) ==
  \/ /\ a.due = Idle /\ b.due = Idle
     /\ a.id < b.id
  \/ /\ a.due # Idle /\ b.due = Idle
     /\ a.due <= now /\ top.op # "idletasks"
  \/ /\ a.due # Idle /\ b.due # Idle
     /\ a.due < b.due \/ (a.due = b.due /\ a.id < b.id)

(* The entry a step hands over, if any.                                       *)
HandedOver == {a \in queue \cup InBatches : a.id \in started' \ started}

(* A script is not started while one that precedes it waits in the registry   *)
(* or in the batch it was taken with: timers by deadline and age, idle        *)
(* handlers by age and after the timers that are due, whatever the scripts    *)
(* registered or cancelled in the meantime and however deep loops nest.       *)
ServiceOrder ==
  [][\A a \in HandedOver :
       \A b \in queue \cup top.batch : ~Precedes(b, a)]_vars

(* A loop ends: everything it was entered for has run, its variable changed,  *)
(* or nothing is left that could change it.                                   *)
LoopsEnd == stack # <<>> ~> stack = <<>>
=============================================================================
