-------------------------------- MODULE Traces --------------------------------
(***************************************************************************)
(* The traces of src/cmd_trace.rs on variables, commands and the execution *)
(* of commands.  A callback is a script: it may add and remove traces,     *)
(* touch the variable or the command it was called for, and fail.  So the  *)
(* state holds the scripts under way, the outermost first, and between two *)
(* of them the list of callbacks that the lower one's command goes through.*)
(*                                                                         *)
(* Values of variables are left out: a trace is called before a read and   *)
(* after a write or unset, whatever the value.                             *)
(***************************************************************************)
EXTENDS Naturals, Sequences, FiniteSets, SequencesExt

CONSTANTS
  Variables,  (* the global variables                                         *)
  Commands,   (* names that commands may have                                 *)
  Limit,      (* the recursion limit                                          *)
  OpLists,    (* bound: the operation lists given to `trace add`              *)
  MaxTraces,  (* bound: traces at a time                                      *)
  Departures  (* {"qualified", "failure", "deletion"}: see the uses           *)

ASSUME TracesAssumption ==
  /\ IsFiniteSet(Variables) /\ IsFiniteSet(Commands)
  /\ Limit \in Nat /\ MaxTraces \in Nat
  /\ Departures \subseteq {"qualified", "failure", "deletion"}

VARIABLES
  traces,   (* how many Traces.vars, commands and execs hold of each trace    *)
  events,   (* Traces.events                                                  *)
  active,   (* Traces.active                                                  *)
  set,      (* the variables that have a value                                *)
  commands, (* Registry.commands: those that a name is looked up in           *)
  procs,    (* State.commands: the procedures, those that are left over too   *)
  work      (* what is under way, outermost first                             *)

vars == <<traces, events, active, set, commands, procs, work>>

-----------------------------------------------------------------------------
VARIABLE_OPS  == {"read", "unset", "write"}
COMMAND_OPS   == {"delete", "rename"}
EXECUTION_OPS == {"enter", "leave"}

(* A trace: what its script does when called is not part of it.               *)
Trace ==
  [kind : {"variable"}, name : Variables, ops : SUBSET VARIABLE_OPS]
    \cup [kind : {"command"}, name : Commands, ops : SUBSET COMMAND_OPS]
    \cup [kind : {"execution"}, name : Commands, ops : SUBSET EXECUTION_OPS]
NewTraces == {t \in Trace : t.ops \in OpLists}

(* A variable as an access spells it: with `::` or without.                   *)
Spelling == [of : Variables, qualified : BOOLEAN]
Spelled(v) ==
  {s \in Spelling : s.of = v /\ (s.qualified => "qualified" \in Departures)}

(* What is under way: a script; the callbacks of an access to a variable      *)
(* (`fire_variable`), of a call before and after it, with those for after it  *)
(* at hand, the call itself; or the events a command left (`run_events`).     *)
Script            == [what |-> "script"]
Fire(s, op, left) == [what |-> "fire", name |-> s, op |-> op, left |-> left]
Enter(left, after) == [what |-> "enter", left |-> left, after |-> after]
Calling(after)    == [what |-> "calling", after |-> after]
Leave(left)       == [what |-> "leave", left |-> left]
RunEvents         == [what |-> "events"]
Entry ==
  {Script, RunEvents}
    \cup [what : {"fire"}, name : Spelling, op : VARIABLE_OPS, left : Nat]
    \cup [what : {"enter"}, left : Nat, after : Nat]
    \cup [what : {"calling"}, after : Nat] \cup [what : {"leave"}, left : Nat]

Init ==
  /\ traces = [t \in NewTraces |-> 0] /\ events = <<>> /\ active = {} /\ set = {}
  /\ commands = {} /\ procs = {} /\ work = <<Script>>

now       == Last(work)
Scripting == now.what = "script"
Evals     == Cardinality({i \in DOMAIN work : work[i].what = "script"})
HasLevel  == Evals <= Limit

(* How many traces match: which ones they are, and in what order, shows in    *)
(* nothing that follows.                                                      *)
HowMany(some) == Cardinality({c \in some \X (1 .. MaxTraces) : c[2] <= traces[c[1]]})
Matching(kind, name, op) ==
  HowMany({t \in NewTraces : t.kind = kind /\ t.name = name /\ op \in t.ops})

-----------------------------------------------------------------------------
(* Commands of a script.                                                      *)

(* What the tables know: also a procedure that the registry has lost.         *)
Known(t) ==
  \/ t.kind = "variable" \/ t.name \in commands
  \/ t.name \in procs /\ "deletion" \in Departures

(* `trace add`, which refuses a command that is not there.                    *)
trace_add(t) ==
  /\ Scripting /\ HowMany(NewTraces) < MaxTraces
  /\ Known(t)
  /\ traces' = [traces EXCEPT ![t] = @ + 1]
  /\ UNCHANGED <<events, active, set, commands, procs, work>>

(* `trace remove`: one of those that are the same.                            *)
trace_remove(t) ==
  /\ Scripting /\ traces[t] > 0 /\ Known(t)
  /\ traces' = [traces EXCEPT ![t] = @ - 1]
  /\ UNCHANGED <<events, active, set, commands, procs, work>>

(* `proc`: a definition leaves the traces of the name as they are.            *)
Define(c) ==
  /\ Scripting /\ c \notin commands \cap procs
  /\ commands' = commands \cup {c} /\ procs' = procs \cup {c}
  /\ UNCHANGED <<traces, events, active, set, work>>

(* A command that is no procedure: `namespace import`, a new object.          *)
Arises(c) ==
  /\ Scripting /\ c \notin commands
  /\ commands' = commands \cup {c}
  /\ UNCHANGED <<traces, events, active, set, procs, work>>

(* fire_variable: nothing runs for a variable whose traces are running.       *)
(* (Or for any.)                                                              *)
Unguarded(s) == FALSE
Guarded(s)   == s \in active

Due(s, op) == IF Guarded(s) THEN 0 ELSE Matching("variable", s.of, op)
Fires(s, op) ==
  IF Due(s, op) = 0 THEN UNCHANGED <<active, work>>
  ELSE /\ active' = active \cup {s}
       /\ work' = Append(work, Fire(s, op, Due(s, op)))

forget_variable(v) ==
  [t \in NewTraces |-> IF t.kind = "variable" /\ t.name = v THEN 0 ELSE traces[t]]

Read(s) ==
  /\ Scripting /\ Fires(s, "read")
  /\ UNCHANGED <<traces, events, set, commands, procs>>

Write(s) ==
  /\ Scripting /\ Fires(s, "write")
  /\ set' = set \cup {s.of}
  /\ UNCHANGED <<traces, events, commands, procs>>

(* The traces of a variable end with it, once they have run.                  *)
Unset(s) ==
  /\ Scripting /\ s.of \in set
  /\ set' = set \ {s.of}
  /\ Fires(s, "unset")
  /\ traces' = IF Due(s, "unset") = 0 THEN forget_variable(s.of) ELSE traces
  /\ UNCHANGED <<events, commands, procs>>

(* queue_command_events: the callbacks wait, and the traces go where the      *)
(* command goes (or stay), or with it.                                        *)
Staying(old, new) == traces
Following(old, new) ==
  [t \in NewTraces |->
     IF t.kind = "variable" THEN traces[t]
     ELSE IF t.name = old THEN 0
     ELSE IF new = <<t.name>> THEN traces[t] + traces[[t EXCEPT !.name = old]]
     ELSE traces[t]]

Event(old, new) == [old |-> old, new |-> new]
Events == [old : Commands, new : {<<>>} \cup {<<c>> : c \in Commands}]
Queued(old, new, op) ==
  events \o [i \in 1 .. Matching("command", old, op) |-> Event(old, new)]

(* What `rename` and `namespace` end with: they run the events there are.     *)
Tells ==
  /\ HasLevel \/ "failure" \in Departures
  /\ work' = Append(work, RunEvents)

(* `rename old new`, and `rename old {}` with `new` empty.                    *)
rename(old, new) ==
  /\ Scripting /\ old \in commands
  /\ new # <<>> => new[1] \notin commands
  /\ Tells
  /\ commands' = (commands \ {old}) \cup ToSet(new)
  /\ procs' = (procs \ {old}) \cup (IF old \in procs THEN ToSet(new) ELSE {})
  /\ traces' = Following(old, new)
  /\ events' = Queued(old, new, IF new = <<>> THEN "delete" ELSE "rename")
  /\ UNCHANGED <<active, set>>

(* The deletions that tell the traces nothing: the registry loses the names,  *)
(* and that is all.  With "deletion", of commands that have traces too.       *)
TakenAway(gone) ==
  /\ Scripting /\ gone \subseteq commands
  /\ \/ "deletion" \in Departures
     \/ \A t \in NewTraces : t.kind # "variable" /\ t.name \in gone => traces[t] = 0
  /\ commands' = commands \ gone
  /\ UNCHANGED <<traces, events, active, set, procs>>

(* `namespace delete`, `namespace forget`, and with nothing gone any other.   *)
namespace(gone) == TakenAway(gone) /\ Tells

(* An object ends, its namespace with it, by `destroy` or `rename obj {}`.    *)
ObjectEnds(gone) == gone # {} /\ TakenAway(gone) /\ UNCHANGED work

(* A call of a name that has execution traces: both lists are taken first.    *)
Call(c) ==
  LET enters == Matching("execution", c, "enter")
      leaves == Matching("execution", c, "leave")
  IN  /\ Scripting /\ enters + leaves > 0
      /\ work' = Append(work, Enter(enters, leaves))
      /\ UNCHANGED <<traces, events, active, set, commands, procs>>

-----------------------------------------------------------------------------
(* The lists.                                                                 *)

(* A list of callbacks is through, or one of them failed (`failed`).  The     *)
(* call that follows `enter` may be refused: no such command, too few words.  *)
Finished(failed) ==
  LET below == Front(work)
  IN CASE now.what = "fire" ->
            /\ active' = active \ {now.name}
            /\ traces' = IF now.op = "unset" THEN forget_variable(now.name.of)
                         ELSE traces
            /\ work' = below
       [] now.what = "enter" ->
            /\ \/ failed /\ work' = below
               \/ ~failed /\ work' = Append(below, Leave(now.after))
               \/ /\ ~failed /\ HasLevel
                  /\ work' = Append(Append(below, Calling(now.after)), Script)
            /\ UNCHANGED <<active, traces>>
       [] OTHER -> work' = below /\ UNCHANGED <<active, traces>>

(* The next of a list starts, or is refused by the recursion limit.           *)
NextCallback ==
  /\ now.what \in {"fire", "enter", "leave"}
  /\ IF now.left = 0 THEN Finished(FALSE)
     ELSE IF HasLevel
     THEN /\ work' = Append(Append(Front(work), [now EXCEPT !.left = @ - 1]), Script)
          /\ UNCHANGED <<traces, active>>
     ELSE Finished(TRUE)
  /\ UNCHANGED <<events, set, commands, procs>>

(* run_events: the first of the queue, whoever left it there.  (Only one.)    *)
OneEvent ==
  /\ now.what = "events"
  /\ IF events = <<>> \/ ~HasLevel
     THEN work' = Front(work) /\ UNCHANGED events
     ELSE work' = Append(Front(work), Script) /\ events' = Tail(events)
  /\ UNCHANGED <<traces, active, set, commands, procs>>

run_events ==
  /\ now.what = "events"
  /\ IF events = <<>> THEN work' = Front(work) /\ UNCHANGED events
     ELSE /\ events' = Tail(events)
          /\ work' = IF HasLevel THEN Append(work, Script) ELSE Front(work)
  /\ UNCHANGED <<traces, active, set, commands, procs>>

Inner == Scripting /\ Len(work) > 1
Under == work[Len(work) - 1]

(* A script that a list or a call waits for ends.                             *)
ScriptDone ==
  /\ Inner
  /\ work' = IF Under.what = "calling"
             THEN Append(SubSeq(work, 1, Len(work) - 2), Leave(Under.after))
             ELSE Front(work)
  /\ UNCHANGED <<traces, events, active, set, commands, procs>>

(* It fails: the rest of the list is not run.                                 *)
ScriptFails ==
  /\ Inner
  /\ Under.what = "events" => "failure" \in Departures
  /\ IF Under.what = "calling"
     THEN /\ work' = Append(SubSeq(work, 1, Len(work) - 2), Leave(Under.after))
          /\ UNCHANGED <<traces, active>>
     ELSE LET stack == Front(work)
              list  == Last(stack)
          IN  /\ work' = Front(stack)
              /\ active' = IF list.what = "fire" THEN active \ {list.name} ELSE active
              /\ traces' = IF list.what = "fire" /\ list.op = "unset"
                           THEN forget_variable(list.name.of) ELSE traces
  /\ UNCHANGED <<events, set, commands, procs>>

Ends == ScriptDone \/ ScriptFails
Walks == NextCallback \/ run_events

Next ==
  \/ \E t \in NewTraces : trace_add(t) \/ trace_remove(t)
  \/ \E v \in Variables : \E s \in Spelled(v) : Read(s) \/ Write(s) \/ Unset(s)
  \/ \E c \in Commands : Define(c) \/ Arises(c) \/ Call(c) \/ rename(c, <<>>)
  \/ \E c, d \in Commands : rename(c, <<d>>)
  \/ \E gone \in SUBSET Commands : namespace(gone) \/ ObjectEnds(gone)
  \/ Walks \/ Ends

Spec == Init /\ [][Next]_vars

-----------------------------------------------------------------------------
(* Properties.                                                                *)

TypeOK ==
  /\ traces \in [NewTraces -> Nat]
  /\ active \subseteq Spelling /\ set \subseteq Variables
  /\ commands \subseteq Commands /\ procs \subseteq Commands
  /\ events \in Seq(Events) /\ work \in Seq(Entry)
  /\ Evals \in 1 .. Limit + 1 /\ work[1] = Script

Firing == {i \in DOMAIN work : work[i].what = "fire"}

(* "A trace that touches its own variable does not fire itself again": of one *)
(* variable no two accesses run their callbacks inside one another, however   *)
(* many variables the callbacks touch on the way.  And a variable is on       *)
(* `active` just while its callbacks run: left there after an error it would  *)
(* never be traced again.                                                     *)
NotInsideItself ==
  /\ TypeOK
  /\ \A i, j \in Firing : work[i].name.of = work[j].name.of => i = j
  /\ active = {work[i].name : i \in Firing}

(* Callbacks that a `rename` queued wait for no other command than those that *)
(* are running: nothing is left for a later, unrelated one to set off.        *)
NothingLeftQueued ==
  (\A i \in DOMAIN work : work[i].what # "events") => events = <<>>

(* Traces go where `rename` puts their command, or with it, through every     *)
(* chain of renames and `rename c {}`, those of callbacks too, with commands  *)
(* made and untraced ones deleted any other way in between: none is left on a *)
(* name no command has, where the next command of that name would have it.    *)
(* With "deletion" it does not hold: `namespace delete`, `namespace forget`   *)
(* and the end of an object leave the traces of what they delete.             *)
TracesOfCommands ==
  \A t \in NewTraces : t.kind # "variable" /\ traces[t] > 0 => t.name \in commands
===============================================================================
