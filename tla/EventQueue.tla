----------------------------- MODULE EventQueue -----------------------------
(*************************************************************************)
(* What the queue of a Tcl notifier is: a sequence of events whose first *)
(* `front` ones are a part of their own, behind which the next event     *)
(* queued at the mark goes.  Notifier keeps it as a linked list with     *)
(* three pointers into it.                                               *)
(*************************************************************************)
EXTENDS Naturals, SequencesExt

VARIABLES
    queue,      \* the events, next to be looked at first
    front       \* how many of them, from the first on, the mark is behind

vars == <<queue, front>>

Init == queue = <<>> /\ front = 0

(* One comes: first of all, behind the front part and with it, or last.  *)
Put(e, position) ==
    LET q  == queue
        at == CASE position = "head" -> 1
                [] position = "mark" -> front + 1
                [] position = "tail" -> Len(q) + 1
    IN  /\ e \notin ToSet(q)
        /\ queue' = InsertAt(q, at, e)
        /\ front' = IF position = "mark" \/ (position = "head" /\ front > 0) THEN front + 1 ELSE front

(* Some leave; the others stay in order, and in the part they were in.   *)
Depart ==
    LET q == queue
        r == queue'
        f == front
        g == front'
    IN  /\ ToSet(r) \subseteq ToSet(q)
        /\ \A i, j \in 1 .. Len(r) : i < j => \E k, l \in 1 .. Len(q) : k < l /\ q[k] = r[i] /\ q[l] = r[j]
        /\ g \in 0 .. Len(r)
        /\ \A i \in 1 .. Len(r) : i <= g <=> \E k \in 1 .. f : q[k] = r[i]

Next ==
    \/ Depart
    \/ \E e \in ToSet(queue') \ ToSet(queue), p \in {"head", "mark", "tail"} : Put(e, p)

Spec == Init /\ [][Next]_vars
=============================================================================
