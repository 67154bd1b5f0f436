------------------------------ MODULE Commands ------------------------------
(* What a script is promised of command names, with nothing of the tables    *)
(* that keep it: a name is bound to nothing, to a command of its own or to   *)
(* one it imports, and an import always leads to a command.                  *)
CONSTANTS Names, Commands, None

VARIABLE bound

Own(c) == [what |-> "own", command |-> c, of |-> None]
Free   == [what |-> "free", command |-> None, of |-> None]

(* A procedure or an ensemble is made, in place of what had the name; what   *)
(* imports it imports the new one.                                           *)
Make(now, then) == \E n \in Names : \E c \in Commands : then = [now EXCEPT ![n] = Own(c)]

(* `rename`: an import stays one, and no other command is replaced.          *)
Move(now, then) ==
  \E old \in Names : now[old] # Free /\ \E new \in Names :
     now[new] = Free /\ then = [now EXCEPT ![old] = Free, ![new] = now[old]]

(* Names are taken away, by a command for one or for a whole namespace.      *)
Drop(now, then) == \A n \in Names : then[n] \in {now[n], Free}

(* Some names become imports.                                                *)
Link(now, then) == \A n \in Names : then[n] = now[n] \/ then[n].what = "import"

Leads(then) == \A n \in Names : then[n].what = "import" => then[then[n].of].what = "own"

Init == bound = [n \in Names |-> Free]

Next ==
  \E now \in {bound}, then \in {bound'} :
     /\ Leads(then)
     /\ Drop(now, then) \/ Link(now, then) \/ Move(now, then) \/ Make(now, then)

Spec == Init /\ [][Next]_bound
=============================================================================
