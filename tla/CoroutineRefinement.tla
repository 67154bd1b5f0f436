------------------------ MODULE CoroutineRefinement ------------------------
(* The driver of Coroutine implements the stack of CoroutineStack.            *)
EXTENDS Coroutine, Sequences

(* The contexts from the main script up to the current one, by resumer.       *)
Chain ==
  LET upto[c \in Ctx] ==
        IF resumer[c] = None THEN <<c>> ELSE Append(upto[resumer[c]], c)
  IN  upto[current]

Stack == INSTANCE CoroutineStack
           WITH chain  <- Chain,
                parked <- {c \in vm : park[c] # "Running"},
                made   <- contexts - 1,
                over   <- outcome # "running"

(* Every step of the driver is a step of the stack, or leaves it alone:       *)
(* yield goes back to whoever resumed, yieldto replaces the top with the      *)
(* target, an error or an end goes to the context below.                      *)
ImplementsStack == Stack!Spec
=============================================================================
