---------------------- MODULE VarProjectionRefinement ----------------------
(* The tables and slots of VarProjection keep the promise of VarScopes.       *)
EXTENDS VarProjection

(* The number of the activation that frame f of VM i is.                      *)
Before[i \in 0..Len(runs)] ==
  IF i = 0 THEN 0 ELSE Before[i - 1] + Len(runs[i].frames)
Call_(i, f) == Before[i - 1] + f

(* The activation whose variables the table of VM i holds, 0 for none.        *)
Whose[i \in 1..Len(runs)] ==
  CASE runs[i].op \in {"main", "uplevel"} -> 0
    [] runs[i].op = "frame"               -> Call_(i - 1, runs[i].frame)
    [] OTHER                              -> Whose[i - 1]

(* A frame's locals are in the projection of it while a script is in it.      *)
Shown(i, f)  == i < Len(runs) /\ runs[i + 1].op = "frame" /\ runs[i + 1].frame = f
Number(i)    == Len(SelectSeq(SubSeq(runs, 1, i), LAMBDA r : r.op = "frame"))
LocalsNow(i, f) ==
  LET locals == runs[i].frames[f].locals
      k      == Number(i + 1)
      held(shown) == [n \in Names |-> IF n \in projections[k].declared /\ locals[n] = Undef
                                        THEN Undef ELSE shown[n]]
  IN  IF Shown(i, f) THEN held(Now(k)) ELSE locals

VarOf(i, link) ==
  CASE link.home = "none"   -> [call |-> 0, name |-> "none"]
    [] link.home = "global" -> [call |-> 0, name |-> link.of]
    [] link.home = "slot"   -> [call |-> Call_(i, link.at), name |-> link.of]

CallsOf(i) ==
  [f \in 1..Len(runs[i].frames) |->
     [locals   |-> LocalsNow(i, f),
      declared |-> runs[i].frames[f].declared,
      links    |-> [l \in Links |-> VarOf(i, runs[i].frames[f].links[l])]]]

WhereOf(i) ==
  (IF runs[i].op = "call" THEN <<>> ELSE <<[call |-> Whose[i], body |-> FALSE]>>)
  \o [f \in 1..Len(runs[i].frames) |-> [call |-> Call_(i, f), body |-> TRUE]]

Calls[i \in 0..Len(runs)]  == IF i = 0 THEN <<>> ELSE Calls[i - 1] \o CallsOf(i)
Wheres[i \in 0..Len(runs)] == IF i = 0 THEN <<>> ELSE Wheres[i - 1] \o WhereOf(i)

Scopes == INSTANCE VarScopes
            WITH root  <- [n \in Names |-> RootNow(n)],
                 calls <- Calls[Len(runs)],
                 where <- Wheres[Len(runs)]

(* Whatever is copied between tables and slots, a script sees one variable of *)
(* each name of the interpreter, and every activation its own locals: each    *)
(* step of the projections is a step of VarScopes or changes no variable.     *)
ImplementsScopes == Scopes!Spec
=============================================================================
