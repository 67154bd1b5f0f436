-------------------------------- MODULE Unwind --------------------------------
(***************************************************************************)
(* How src/runtime.rs unwinds: the regions `catch`, `try`, `dict update`   *)
(* and loops open while they run, the call frames of one VM, the contexts  *)
(* of one Machine (a coroutine is one), and the Machines that nested       *)
(* evaluations and calls into another chunk start; `raise` and the places  *)
(* where an error passes from a Machine to the one that started it.        *)
(*                                                                         *)
(* Scripts are left open.  In place of an op index a frame has the list of *)
(* the commands whose bodies its position is inside of, which is all that  *)
(* the lowering of `break`, `return` and `tailcall` (compiler.rs,          *)
(* procs.rs, control.rs) and the bounds kept in a loop region look at.     *)
(***************************************************************************)
EXTENDS Naturals, Sequences, FiniteSets, SequencesExt

CONSTANTS
  MaxLevel,   (* bound: the levels of a `return`                              *)
  MaxEntries, (* bound: commands, calls and nested scripts a script is inside *)
  Departures, (* the ways off the rule of CodeTravel scripts may take: see    *)
              (* Keeps                                                        *)
  Nothing     (* no code is travelling, no outcome is pending                 *)

ASSUME UnwindAssumption ==
  /\ MaxLevel \in Nat \ {0} /\ MaxEntries \in Nat
  /\ Departures \subseteq {"return", "loop code", "coroutine", "lambda",
                           "tailcall"}

VARIABLES
  machines,   (* the Machines running, innermost last                         *)
  raised      (* the TclError on its way out of the innermost one             *)

vars == <<machines, raised>>

-----------------------------------------------------------------------------
(* TclError: its code and level.  `depth` is the local of `raise`: how many   *)
(* call frames it is still to unwind past.                                    *)
Codes      == {"ok", "error", "break", "continue"}
Exceptions == [code : Codes, level : 0 .. MaxLevel]
                \ {[code |-> "ok", level |-> 0]}
visible_code(e) == IF e.level > 0 THEN "return" ELSE e.code
Failure         == [code |-> "error", level |-> 0]

(* A level is spent, if there is one.                                         *)
descend(e) == IF e.level > 0 THEN [e EXCEPT !.level = @ - 1] ELSE e

(* A `break` or `continue` that reaches the end of a procedure as itself is   *)
(* an error.  (It stays what it is.)                                          *)
leave_quietly(e)   == descend(e)
leave_procedure(e) ==
  IF e.level = 0 /\ e.code \in {"break", "continue"}
  THEN [e EXCEPT !.code = "error"] ELSE descend(e)
Done(e) == visible_code(e) = "ok"

(* A command a position is inside of, and which of its scripts runs.          *)
Guards    == {"catch", "try", "finally", "update"}
Pending   == [code : Codes, level : 0 .. MaxLevel] \cup {Nothing}
Construct == [what : Guards \cup {"loop"},
              part : {"body", "handler", "cleanup", "step", "test", "end"},
              pending : Pending]
Command(what, part) == [what |-> what, part |-> part, pending |-> Nothing]
CleanupAfter(e)     == [what |-> "finally", part |-> "cleanup", pending |-> e]

(* A VM call frame: `act` says it has an entry_ip, so is a procedure's; the   *)
(* base frame is not.  A region: the frames there were and the commands open  *)
(* in the last of them when it was entered.                                   *)
Frame   == [act : BOOLEAN, at : Seq(Construct)]
Region  == [kind : {"catch", "loop"}, frames : Nat, pos : Nat]
Context == [frames : Seq(Frame), catches : Seq(Region)]

(* `script` is the one the process, the REPL or the loop runs.  `call` is     *)
(* call_in_chunk's, `lambda` is apply's, whose script is one call.            *)
Kinds   == {"script", "call", "lambda", "eval", "source", "subst"}
Machine == [kind : Kinds, contexts : Seq(Context)]

base       == [act |-> FALSE, at |-> <<>>]
activation == [act |-> TRUE, at |-> <<>>]
Fresh(frames) == [frames |-> frames, catches |-> <<>>]
Started(kind) ==
  [kind |-> kind,
   contexts |-> <<Fresh(IF kind \in {"call", "lambda"}
                        THEN <<base, activation>> ELSE <<base>>)>>]

Init == machines = <<Started("script")>> /\ raised = Nothing

m   == Last(machines)
c   == Last(m.contexts)
top == Last(c.frames)

InCoroutine == Len(m.contexts) > 1

(* The context has run off its end: a call's body has returned to the end of  *)
(* the program, or a nested script is over.                                   *)
OnlyBase == Len(c.frames) = 1
AtEnd    == OnlyBase /\ (InCoroutine \/ m.kind \in {"call", "lambda"})
Running  == raised = Nothing /\ ~AtEnd

WithContext(x) ==
  [machines EXCEPT ![Len(machines)].contexts[Len(m.contexts)] = x]
WithPosition(at, catches) ==
  WithContext([c EXCEPT !.frames[Len(c.frames)].at = at, !.catches = catches])

Activations(x) == {i \in DOMAIN x.frames : x.frames[i].act}

(* What the bound counts.                                                     *)
Weight(x)  == FoldLeft(LAMBDA n, f : n + Len(f.at) + 1, 0, x.frames) - 1
Weights    == FoldLeft(LAMBDA n, x : n + FoldLeft(LAMBDA k, y : k + Weight(y),
                                                  1, x.contexts), 0, machines)
HasRoom == Weights <= MaxEntries

-----------------------------------------------------------------------------
(* What a script does.                                                        *)

opened(what) ==
  Append(c.catches, [kind   |-> IF what = "loop" THEN "loop" ELSE "catch",
                     frames |-> Len(c.frames), pos |-> Len(top.at)])
inside    == Last(top.at)
Within(S) == top.at # <<>> /\ inside.what \in S

(* `catch`, `try`, `dict update` open a region over the body; a loop opens    *)
(* one over body, step and test, and the test runs first.                     *)
Open(what) ==
  /\ Running /\ HasRoom
  /\ machines' = WithPosition(
       Append(top.at, Command(what, IF what = "loop" THEN "test" ELSE "body")),
       opened(what))
  /\ UNCHANGED raised

(* One script of a loop ends and the next one runs.                           *)
Turns == [body |-> "step", step |-> "test", test |-> "body"]
Turn ==
  /\ Running /\ Within({"loop"}) /\ inside.part # "end"
  /\ machines' = WithPosition(
       Append(Front(top.at), Command("loop", Turns[inside.part])), c.catches)
  /\ UNCHANGED raised

(* `break` and `continue` written in the body, `break` in the step, are       *)
(* jumps; elsewhere they are raised.                                          *)
LoopExit(code) ==
  /\ Running /\ Within({"loop"})
  /\ inside.part = "body" \/ (inside.part = "step" /\ code = "break")
  /\ machines' = WithPosition(
       Append(Front(top.at),
              Command("loop", IF code = "break" THEN "end" ELSE "step")),
       c.catches)
  /\ UNCHANGED raised

(* LOOP_LEAVE.                                                                *)
LeaveLoop ==
  /\ Running /\ Within({"loop"}) /\ inside.part \in {"test", "end"}
  /\ machines' = WithPosition(Front(top.at), Front(c.catches))
  /\ UNCHANGED raised

Sets(e)   == raised' = [code |-> e.code, level |-> e.level,
                        depth |-> Len(c.frames)]

(* CATCH_END: the guarded script ended well.  A `try` whose handler takes     *)
(* code 0 and a `finally` open a region over their next script; a `finally`   *)
(* script that ended well hands on the outcome it was entered with.           *)
Guarded == Running /\ Within(Guards)
NextScript(x) ==
  machines' = WithPosition(Append(Front(top.at), x), c.catches)

EndRegion ==
  /\ Guarded /\ inside # Command("finally", "body")
  /\ machines' = WithPosition(Front(top.at), Front(c.catches))
  /\ IF inside.pending = Nothing THEN UNCHANGED raised ELSE Sets(inside.pending)

Handles ==
  /\ Guarded /\ inside = Command("try", "body")
  /\ NextScript(Command("try", "handler"))
  /\ UNCHANGED raised

Cleans ==
  /\ Guarded /\ inside = Command("finally", "body")
  /\ NextScript(CleanupAfter(Nothing))
  /\ UNCHANGED raised

(* A procedure of the running chunk is a frame; one of another chunk, a       *)
(* lambda and a script are a Machine; a coroutine's body is a context.        *)
Call ==
  /\ Running /\ HasRoom
  /\ machines' = WithContext([c EXCEPT !.frames = Append(@, activation)])
  /\ UNCHANGED raised

Nest(kind) ==
  /\ Running /\ HasRoom
  /\ machines' = Append(machines, Started(kind))
  /\ UNCHANGED raised

Create ==
  /\ Running /\ HasRoom
  /\ machines' = [machines EXCEPT ![Len(machines)].contexts =
                    Append(@, Fresh(<<base, activation>>))]
  /\ UNCHANGED raised

(* `return` outside a guarded script, and the end of a body: a LOOP_LEAVE for *)
(* each loop of the body, then the frame goes.                                *)
InLoops == \A i \in DOMAIN top.at : top.at[i].what = "loop"
Closed  == SubSeq(c.catches, 1, Len(c.catches) - Len(top.at))
Popped  == [c EXCEPT !.frames = Front(@), !.catches = Closed]

ReturnValue ==
  /\ Running /\ top.act /\ InLoops
  /\ machines' = WithContext(Popped)
  /\ UNCHANGED raised

(* `tailcall` outside a guarded script drops the frame first.                 *)
TailCall ==
  /\ Running /\ top.act /\ InLoops
  /\ machines' = WithContext([Popped EXCEPT !.frames = Append(@, activation)])
  /\ UNCHANGED raised

(* A nested script or a body that ran to its end ends its Machine, or, in a   *)
(* coroutine, retires it.                                                     *)
Ends ==
  /\ raised = Nothing /\ OnlyBase /\ top.at = <<>>
  /\ IF InCoroutine
     THEN machines' = [machines EXCEPT ![Len(machines)].contexts = Front(@)]
     ELSE Len(machines) > 1 /\ machines' = Front(machines)
  /\ UNCHANGED raised

(* A procedure of another chunk, or a builtin, is entered from the frame      *)
(* below; there may be none in this Machine.                                  *)
TailNest(kind) ==
  /\ Running /\ top.act /\ InLoops
  /\ (InCoroutine \/ m.kind \in {"call", "lambda"}) /\ Len(c.frames) = 2
       => "tailcall" \in Departures
  /\ machines' = Append(WithContext(Popped), Started(kind))
  /\ UNCHANGED raised

-----------------------------------------------------------------------------
(* Which codes a script raises.  Where the program leaves the rule of         *)
(* CodeTravel, and an instance without the departure does not follow it:      *)
(* - a `return` that `raise` takes past a frame on its way to a region of a   *)
(*   caller: spent there, it does not end the call; not spent, the frame is   *)
(*   charged again once no region is left;                                    *)
(* - a `break` that meets no region of its context: the calls it leaves do    *)
(*   not turn it into an error;                                               *)
(* - a code that leaves a coroutine: the frames it is still to cross are      *)
(*   counted in the coroutine, not in the resumer;                            *)
(* - a `return` out of a lambda past the lambda's own level.                  *)
Contexts == UNION {ToSet(x.contexts) : x \in ToSet(machines)}
Converting(x, kind) ==
  \/ Activations(x.contexts[1]) = {} \/ kind \in {"call", "lambda"}
  \/ x.contexts[1].catches # <<>> /\ x.contexts[1].catches[1].frames = 1

Leaving ==
  [return |-> \E x \in Contexts : \E r \in ToSet(x.catches) :
                r.frames < Len(x.frames),
   stray  |-> \E x \in ToSet(machines) : ~Converting(x, x.kind)]

OneLevel(e) == e.level = 1 /\ e.code \in {"ok", "error"}
Keeps(e) ==
  /\ (e.code = "ok" \/ e.level > 1) /\ Leaving.return
       => "return" \in Departures
  /\ e.code \in {"break", "continue"} /\ Leaving.stray
       => "loop code" \in Departures
  /\ (\E x \in ToSet(machines) : Len(x.contexts) > 1)
       => e = Failure \/ OneLevel(e) \/ "coroutine" \in Departures
  /\ (\E x \in ToSet(machines) : x.kind = "lambda")
       => e.code = "error" \/ e.level = 0 \/ OneLevel(e)
            \/ "lambda" \in Departures

(* An error, a `return` the compiler could not lower to a frame's return, a   *)
(* `break` with no loop to jump in.                                           *)
Raise(e) ==
  /\ Running /\ Keeps(e)
  /\ Sets(e)
  /\ UNCHANGED machines

-----------------------------------------------------------------------------
(* `raise`, in the current context: its regions, innermost first.             *)

(* The code when it has unwound past the frames inside of the region's.       *)
Crossed(r, e) ==
  FoldRight(LAMBDA i, x : IF i \in Activations(c) THEN leave_procedure(x)
                                                  ELSE descend(x),
            [j \in 1 .. e.depth - r.frames |-> r.frames + j], e)

(* The command a region belongs to, at the position of its own frame.         *)
position(r) == c.frames[r.frames].at
command(r)  == position(r)[r.pos + 1]

Absorbs(r, e) ==
  \/ r.kind = "catch"
  \/ command(r).part = "body" /\ visible_code(e) \in {"break", "continue"}
  \/ command(r).part = "step" /\ visible_code(e) = "break"

(* The regions left, the last of which takes the code if `found`.             *)
seek(r, s) ==
  IF s.found THEN s
  ELSE LET e == [Crossed(r, s.e) EXCEPT !.depth = r.frames]
       IN  IF Absorbs(r, e) THEN [s EXCEPT !.found = TRUE, !.e = e]
           ELSE [s EXCEPT !.left = @ - 1, !.e = e]
search == FoldRight(seek, c.catches,
                    [found |-> FALSE, left |-> Len(c.catches), e |-> raised])

(* Frames and stack are cut back to the region's and the position set.        *)
Resumed(r, at, n) ==
  WithContext([frames  |-> Append(SubSeq(c.frames, 1, r.frames - 1),
                                  [c.frames[r.frames] EXCEPT !.at = at]),
               catches |-> SubSeq(c.catches, 1, n)])

(* A loop that takes a code stays open until its LOOP_LEAVE.  (It is closed.) *)
ClosedToo(n) == n - 1
StillOpen(n) == n

(* A handler ends the command, hands the code on with RERAISE, or runs the    *)
(* command's next script in a region of its own.                              *)
Before(r)        == SubSeq(position(r), 1, r.pos)
Leaves(r, f)     == /\ machines' = Resumed(r, Before(r), search.left - 1)
                    /\ raised' = f
RunsScript(r, x) == /\ machines' = Resumed(r, Append(Before(r), x), search.left)
                    /\ raised' = Nothing

Handler(r, e) ==
  LET x == command(r)
  IN  \/ x.what = "catch" /\ Leaves(r, Nothing)
      \/ /\ x = Command("try", "body")
         /\ \/ RunsScript(r, Command("try", "handler"))
            \/ Leaves(r, IF Done(e) THEN Nothing ELSE e)
      \/ /\ x = Command("finally", "body")
         /\ RunsScript(r, CleanupAfter([code |-> e.code, level |-> e.level]))
      \/ /\ x.what = "update" \/ x.part \in {"handler", "cleanup"}
         /\ Leaves(r, e)
      \/ /\ x.what = "update"
         /\ Leaves(r, [e EXCEPT !.code = "error", !.level = 0])

(* A loop jumps to its exit or its step.                                      *)
Loops(r, e) ==
  /\ machines' = Resumed(r, Append(Before(r), Command("loop",
       IF visible_code(e) = "break" THEN "end" ELSE "step")),
                         StillOpen(search.left))
  /\ raised' = Nothing

Land ==
  /\ raised # Nothing
  /\ search.found
  /\ LET r == c.catches[search.left]
     IN  IF r.kind = "catch" THEN Handler(r, search.e) ELSE Loops(r, search.e)

(* No region of the context takes the code: a `return` spends a level at the  *)
(* innermost call, except at the one the Machine was started for.             *)
Entered   == m.kind = "call" /\ ~InCoroutine
SpendsIn(x) == Activations(x) # {} /\ (Entered => Cardinality(Activations(x)) > 1)
Searched  == raised # Nothing /\ ~search.found
Spends    == search.e.level > 0 /\ SpendsIn(c)

spend_call_level ==
  /\ Searched /\ Spends
  /\ LET i == CHOOSE i \in Activations(c) : \A j \in Activations(c) : j <= i
         e == descend(search.e)
     IN  /\ machines' = WithContext(Fresh(SubSeq(c.frames, 1, i - 1)))
         /\ raised' = IF Done(e) THEN Nothing ELSE [e EXCEPT !.depth = i - 1]

(* A coroutine the code leaves is discarded and `raise` goes on in its        *)
(* resumer.  (It stays.)                                                      *)
Resumers == Front(m.contexts)
discard ==
  /\ Searched /\ ~Spends /\ InCoroutine
  /\ machines' = [machines EXCEPT ![Len(machines)].contexts = Resumers]
  /\ raised' = search.e

(* What is made of an error that leaves the Machine: at the end of a nested   *)
(* evaluation, of a sourced file, of a command substitution in `subst`, of a  *)
(* call into another chunk, of a lambda.                                      *)
Answer(kind, e) ==
  LET spent == IF Done(descend(e)) THEN Nothing ELSE descend(e)
  IN  CASE kind = "script" -> Nothing
        [] kind = "eval"   -> e
        [] kind = "source" -> IF e.level > 0 THEN spent ELSE e
        [] kind = "subst"  -> IF visible_code(e) = "error" THEN e ELSE Nothing
        [] kind = "call"   -> IF e.level > 0 THEN spent ELSE leave_procedure(e)
        [] kind = "lambda" ->
             IF e.code = "error" \/ (e.level = 0 /\ e.code # "ok")
             THEN [e EXCEPT !.code = "error"] ELSE Failure

DepthOf(x) == Len(Last(Last(x).contexts).frames)
LeaveMachine ==
  /\ Searched /\ ~Spends /\ ~InCoroutine
  /\ IF Len(machines) = 1
     THEN machines' = <<Started("script")>> /\ raised' = Nothing
     ELSE LET e == Answer(m.kind, search.e)
          IN  /\ machines' = Front(machines)
              /\ raised' = IF e = Nothing THEN Nothing
                           ELSE [code |-> e.code, level |-> e.level,
                                 depth |-> DepthOf(Front(machines))]

Next ==
  \/ \E what \in Guards \cup {"loop"} : Open(what)
  \/ Turn \/ LeaveLoop \/ EndRegion \/ Handles \/ Cleans
  \/ \E code \in {"break", "continue"} : LoopExit(code)
  \/ Call \/ Create \/ ReturnValue \/ TailCall \/ Ends
  \/ \E kind \in Kinds \ {"script"} : Nest(kind)
  \/ \E kind \in {"call", "eval"} : TailNest(kind)
  \/ \E e \in Exceptions : Raise(e)
  \/ Land \/ spend_call_level \/ discard \/ LeaveMachine

Spec == Init /\ [][Next]_vars

-----------------------------------------------------------------------------
TypeOK ==
  /\ machines \in Seq(Machine) /\ machines # <<>>
  /\ raised \in [code : Codes, level : 0 .. MaxLevel, depth : Nat]
                 \cup {Nothing}

(* The regions on record are those of the commands the frames' positions are  *)
(* inside of, in order: none outlives its command, none is missing.  Every    *)
(* lowering, jump and landing has to keep the two in step.                    *)
Regions(x) ==
  FlattenSeq([i \in DOMAIN x.frames |->
    [j \in DOMAIN x.frames[i].at |->
      [kind   |-> IF x.frames[i].at[j].what = "loop" THEN "loop" ELSE "catch",
       frames |-> i, pos |-> j - 1]]])
RegionsMatchText ==
  TypeOK /\ \A x \in Contexts : raised = Nothing => x.catches = Regions(x)

(* A return whose levels are spent and whose code is then `ok` ended a call   *)
(* or a file: it does not travel on.                                          *)
SpentReturnsEndTheCall ==
  raised # Nothing => raised.level > 0 \/ raised.code # "ok"

(* What the script is inside of, outermost first.                             *)
EntriesOf(x) ==
  (IF x.kind \in {"eval", "source", "subst"}
   THEN <<Command(x.kind, "script")>> ELSE <<>>)
  \o FlattenSeq([j \in DOMAIN x.contexts |->
       FlattenSeq([i \in DOMAIN x.contexts[j].frames |->
         LET f == x.contexts[j].frames[i]
         IN  (IF f.act THEN <<Command("call", "script")>> ELSE <<>>) \o f.at])])

Travel == INSTANCE CodeTravel WITH
  entries <- FlattenSeq([i \in DOMAIN machines |-> EntriesOf(machines[i])]),
  raised  <- IF raised = Nothing THEN Nothing
             ELSE [code |-> raised.code, level |-> raised.level]

(* Frames, regions, contexts and Machines implement the one stack of entries  *)
(* a code travels along by one rule for each: wherever a boundary between two *)
(* frames, chunks or evaluations falls, a code is taken by the same command.  *)
ImplementsTravel == Travel!Spec
=============================================================================
