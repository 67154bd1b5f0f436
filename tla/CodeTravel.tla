------------------------------ MODULE CodeTravel ------------------------------
(***************************************************************************)
(* What an interpreter promises of return codes: everything a script is    *)
(* inside of stands on one stack, outermost first - commands that guard a  *)
(* body, loops, procedure calls, nested scripts - and a code that leaves a *)
(* command travels outwards past them, one rule for each, until one takes  *)
(* it.  Bytecode regions, call frames and virtual machines are no part of  *)
(* it; Unwind is shown to implement it.                                    *)
(***************************************************************************)
EXTENDS Naturals, Sequences, SequencesExt

CONSTANTS
  MaxLevel,   (* bound: the call levels a `return` may ask to cross           *)
  Nothing     (* no code is travelling                                        *)

VARIABLES
  entries,    (* what the script is inside of, outermost first                *)
  raised      (* the code travelling outwards from the last entry             *)

vars == <<entries, raised>>

-----------------------------------------------------------------------------
(* `return -code c -level n` carries the code and the levels; an error, a     *)
(* `break` and a `continue` have none.  Code `ok` with none is no exception.  *)
Codes      == {"ok", "error", "break", "continue"}
Exceptions == [code : Codes, level : 0 .. MaxLevel]
                \ {[code |-> "ok", level |-> 0]}
Failure    == [code |-> "error", level |-> 0]

(* A `return` with levels left is code 2 to everything it meets.              *)
Visible(e)   == IF e.level > 0 THEN "return" ELSE e.code
LoopCode(e)  == Visible(e) \in {"break", "continue"}
Descended(e) == [e EXCEPT !.level = @ - 1]
IsSpent(e)   == e.level = 1 /\ e.code = "ok"

(* An entry: what it is, which of its scripts runs, and for a `finally`       *)
(* script the outcome it was entered with.                                    *)
Guards   == {"catch", "try", "finally", "update"}
Nested   == {"eval", "source", "subst"}
Entry(what, part)  == [what |-> what, part |-> part, pending |-> Nothing]
CleanupAfter(e)    == [what |-> "finally", part |-> "cleanup", pending |-> e]

(* The codes that leave an entry outwards when `e` reaches it from inside.    *)
Passing(x, e) ==
  CASE x.what = "catch"   -> {}
    [] x.what = "try"     -> {e}
    [] x.what = "finally" -> IF x.part = "body" THEN {} ELSE {e}
    [] x.what = "update"  -> {e, Failure}
    [] x.what = "eval"    -> {e}
    [] x.what = "subst"   -> IF Visible(e) = "error" THEN {e} ELSE {}
    [] x.what = "source"  -> IF e.level = 0 THEN {e}
                             ELSE IF IsSpent(e) THEN {} ELSE {Descended(e)}
    [] x.what = "call"    -> IF LoopCode(e) THEN {Failure}
                             ELSE IF e.level = 0 THEN {e}
                             ELSE IF IsSpent(e) THEN {} ELSE {Descended(e)}
    [] x.what = "loop"    ->
         IF \/ x.part = "body" /\ LoopCode(e)
            \/ x.part = "step" /\ Visible(e) = "break"
         THEN {} ELSE {e}

(* What is left of an entry that takes the code, and the script goes on.      *)
Landing(x, e) ==
  CASE x.what = "catch"   -> {<<>>}
    [] x.what = "try"     -> IF x.part = "body"
                             THEN {<<Entry("try", "handler")>>} ELSE {}
    [] x.what = "finally" -> IF x.part = "body"
                             THEN {<<CleanupAfter(e)>>} ELSE {}
    [] x.what = "loop"    ->
         IF Passing(x, e) # {} THEN {}
         ELSE {<<Entry("loop", IF Visible(e) = "break" THEN "end"
                                                       ELSE "step")>>}
    [] OTHER              -> IF Passing(x, e) = {} THEN {<<>>} ELSE {}

(* The codes `e` may have become when it has left all entries past the n-th.  *)
Outer(s, n)        == SubSeq(s, 1, n)
Travelled(s, n, e) ==
  FoldRight(LAMBDA x, S : UNION {Passing(x, f) : f \in S},
            SubSeq(s, n + 1, Len(s)), {e})

(* `e` leaves the last entry and travels some way: it is still on its way,    *)
(* or an entry took it, or it left the outermost script and that is over.     *)
Travels(e) ==
  LET s     == entries
      after == entries'
  IN  \E n \in 0 .. Len(s) :
        /\ Len(after) \in {n - 1, n}
        /\ \E f \in Travelled(s, n, e) :
             \/ after = Outer(s, n) /\ raised' = f
             \/ /\ n > 0 /\ raised' = Nothing
                /\ \E kept \in Landing(s[n], f) : after = Outer(s, n - 1) \o kept
             \/ n = 0 /\ after = <<>> /\ raised' = Nothing

-----------------------------------------------------------------------------
Init == entries = <<>> /\ raised = Nothing

innermost == Last(entries)

(* The next command is one that runs a script inside of it.                   *)
Openings == {Entry(what, "body") : what \in Guards}
              \cup {Entry(what, "script") : what \in Nested \cup {"call"}}
              \cup {Entry("loop", "test")}
Enter ==
  /\ raised = Nothing
  /\ entries' # <<>> /\ Last(entries') \in Openings
  /\ Front(entries') = entries
  /\ UNCHANGED raised

(* The innermost entry's script ends well.                                    *)
Completes ==
  /\ raised = Nothing /\ entries # <<>>
  /\ raised' = innermost.pending
  /\ entries' = Front(entries)

(* One of its scripts ends well and the next one runs.                        *)
Moves == {<<Entry("loop", "body"), Entry("loop", "step")>>,
          <<Entry("loop", "step"), Entry("loop", "test")>>,
          <<Entry("loop", "test"), Entry("loop", "body")>>,
          <<Entry("try", "body"), Entry("try", "handler")>>,
          <<Entry("finally", "body"), CleanupAfter(Nothing)>>}
MovesOn ==
  /\ raised = Nothing /\ entries # <<>> /\ entries' # <<>>
  /\ <<innermost, Last(entries')>> \in Moves
  /\ Front(entries') = Front(entries)
  /\ UNCHANGED raised

(* `tailcall`: the innermost call, and the loops it is in, make way for       *)
(* another call or for a script at the caller's level.                        *)
TailCall ==
  /\ raised = Nothing
  /\ entries' # <<>>
  /\ Last(entries') \in {Entry("call", "script"), Entry("eval", "script")}
  /\ LET s == entries
     IN  \E n \in DOMAIN s :
           /\ s[n].what = "call"
           /\ \A i \in n + 1 .. Len(s) : s[i].what = "loop"
           /\ Front(entries') = Outer(s, n - 1)
  /\ UNCHANGED raised

(* A command leaves with a code.  A `break`, a `continue` or a `return` may   *)
(* be taken in the same step.                                                 *)
Raise ==
  /\ raised = Nothing
  /\ raised' \in Exceptions
  /\ UNCHANGED entries
Jumps == {[code |-> "ok", level |-> 1], [code |-> "break", level |-> 0],
          [code |-> "continue", level |-> 0]}
Jump  == raised = Nothing /\ \E e \in Jumps : Travels(e)

(* A code on its way travels on.                                              *)
Carry == raised # Nothing /\ Travels(raised)

Next == \/ Carry
        \/ Raise \/ Enter \/ Completes \/ MovesOn \/ TailCall \/ Jump

Spec == Init /\ [][Next]_vars
=============================================================================
