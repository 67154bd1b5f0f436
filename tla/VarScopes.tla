----------------------------- MODULE VarScopes -----------------------------
(***************************************************************************)
(* What a script is promised of its variables, with nothing of how they    *)
(* are kept: the interpreter has one variable of each name, an activation  *)
(* of a procedure has locals of its own, and a script another one runs is  *)
(* either in the frame of an activation or at the global level.            *)
(***************************************************************************)
EXTENDS Naturals, Sequences

CONSTANTS Names, Links, Values, Undef

VARIABLES
  root,      (* the interpreter's variables                                  *)
  calls,     (* the activations of procedures, outermost first               *)
  where      (* the scripts and bodies in progress: whose frame each is in   *)

vars == <<root, calls, where>>

Cell    == Values \cup {Undef}
Top     == where[Len(where)]
Current == Top.call                     (* 0: the interpreter's own level    *)

(* A variable: the name it has, and the activation it belongs to, 0 when it  *)
(* is the interpreter's.                                                     *)
Var(c, n) == [call |-> c, name |-> n]
NoVar     == Var(0, "none")

(* `::n` and a name declared global are the interpreter's, and so is every   *)
(* name outside an activation; any other is a local.                         *)
Denotes(key) ==
  IF key.q \/ Current = 0 \/ key.n \in calls[Current].declared
    THEN Var(0, key.n) ELSE Var(Current, key.n)

Keys == [q : BOOLEAN, n : Names]

Init == /\ root = [n \in Names |-> Undef]
        /\ calls = <<>> /\ where = <<>>

Store(v, x) ==
  /\ IF v.call = 0
       THEN root' = [root EXCEPT ![v.name] = x] /\ UNCHANGED calls
       ELSE calls' = [calls EXCEPT ![v.call].locals[v.name] = x] /\ UNCHANGED root
  /\ UNCHANGED where

Assign(key, x) == where # <<>> /\ Store(Denotes(key), x)

(* `upvar`: the local name l of the current activation is v from now on.     *)
Upvar(l, v) ==
  /\ where # <<>> /\ Current # 0 /\ v.call < Current
  /\ calls' = [calls EXCEPT ![Current].links[l] = v]
  /\ UNCHANGED <<root, where>>

Linked(l) == where # <<>> /\ Current # 0 /\ calls[Current].links[l] # NoVar

AssignLink(l, x) == Linked(l) /\ Store(calls[Current].links[l], x)

(* A body begins, with no local and the names it declares global.            *)
Call(declared) ==
  /\ calls' = Append(calls, [locals   |-> [n \in Names |-> Undef],
                             declared |-> declared,
                             links    |-> [l \in Links |-> NoVar]])
  /\ where' = Append(where, [call |-> Len(calls) + 1, body |-> TRUE])
  /\ UNCHANGED root

(* A script begins, in the frame of activation c or at the global level.     *)
Nest(c) ==
  /\ where' = Append(where, [call |-> c, body |-> FALSE])
  /\ UNCHANGED <<root, calls>>

(* The innermost ends; a body takes its locals with it.                      *)
Leave ==
  /\ where # <<>>
  /\ where' = SubSeq(where, 1, Len(where) - 1)
  /\ calls' = IF Top.body THEN SubSeq(calls, 1, Len(calls) - 1) ELSE calls
  /\ UNCHANGED root

(* A variable or a link changes, or what runs does.                          *)
Next ==
  \/ /\ where' = where /\ <<root, calls>>' # <<root, calls>>
     /\ \/ \E key \in Keys, x \in Cell : Assign(key, x)
        \/ \E l \in Links, x \in Cell : AssignLink(l, x)
        \/ \E l \in Links, c \in 0..Len(calls), n \in Names : Upvar(l, Var(c, n))
  \/ /\ Len(where') > Len(where)
     /\ \/ \E declared \in SUBSET Names : Call(declared)
        \/ \E c \in 0..Len(calls) : Nest(c)
  \/ Len(where') < Len(where) /\ Leave

Spec == Init /\ [][Next]_vars
=============================================================================
