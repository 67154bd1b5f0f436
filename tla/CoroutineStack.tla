--------------------------- MODULE CoroutineStack ---------------------------
(***************************************************************************)
(* What coroutines promise a script, with nothing of how the driver does   *)
(* it: the contexts that are running are a stack with the main script at   *)
(* its bottom and the one executing on top.  A coroutine is started or     *)
(* resumed on top of whoever asked, goes back by leaving the top, and may  *)
(* hand its place on the stack to a parked one.                            *)
(***************************************************************************)
EXTENDS Naturals, Sequences

CONSTANT MaxContexts      (* bound: coroutines one run makes *)

VARIABLES
  chain,    (* the running contexts, main script first                        *)
  parked,   (* the suspended coroutines                                       *)
  made,     (* coroutines made so far: the next one's identity is made + 1    *)
  over      (* the evaluation has ended                                       *)

vars == <<chain, parked, made, over>>

Top     == chain[Len(chain)]
Below   == SubSeq(chain, 1, Len(chain) - 1)
AtMain  == Len(chain) = 1

Init == chain = <<0>> /\ parked = {} /\ made = 0 /\ over = FALSE

(* A new coroutine runs on top; making one may retire a parked one.           *)
Start ==
  /\ ~over /\ AtMain /\ made < MaxContexts
  /\ made' = made + 1
  /\ chain' = Append(chain, made + 1)
  /\ \/ parked' = parked
     \/ \E c \in parked : parked' = parked \ {c}
  /\ UNCHANGED over

Resume(c) ==
  /\ ~over /\ c \in parked
  /\ chain' = Append(chain, c)
  /\ parked' = parked \ {c}
  /\ UNCHANGED <<made, over>>

Suspend ==
  /\ ~over /\ ~AtMain
  /\ chain' = Below
  /\ parked' = parked \cup {Top}
  /\ UNCHANGED <<made, over>>

(* The top gives its place, and so its return, to a parked coroutine.         *)
Transfer(c) ==
  /\ ~over /\ ~AtMain /\ c \in parked
  /\ chain' = Append(Below, c)
  /\ parked' = (parked \ {c}) \cup {Top}
  /\ UNCHANGED <<made, over>>

(* The top ended, with a value or with an error for the one below it.         *)
Leave ==
  /\ ~over /\ ~AtMain
  /\ chain' = Below
  /\ UNCHANGED <<parked, made, over>>

Stop ==
  /\ ~over /\ AtMain
  /\ over' = TRUE
  /\ UNCHANGED <<chain, parked, made>>

Next ==
  \/ Start \/ Suspend \/ Leave \/ Stop
  \/ \E c \in parked : Resume(c) \/ Transfer(c)

Spec == Init /\ [][Next]_vars
=============================================================================
