-------------------------------- MODULE Versions --------------------------------
(***************************************************************************)
(* Version numbers and requirements as `package` compares them.  A version *)
(* is the list of integers it is converted to: `.` is the piece 0 between  *)
(* two numbers, `a` is -2 and `b` is -1.                                   *)
(***************************************************************************)
EXTENDS Integers, Sequences, FiniteSetsExt

Piece(v, i)  == IF i \in DOMAIN v THEN v[i] ELSE 0
Differ(v, w) == {i \in (DOMAIN v \cup DOMAIN w) : Piece(v, i) # Piece(w, i)}

(* The first piece that differs decides; one that is missing counts as 0.     *)
compare_versions(v, w) ==
  IF Differ(v, w) = {} THEN 0
  ELSE LET i == Min(Differ(v, w)) IN IF Piece(v, i) < Piece(w, i) THEN -1 ELSE 1
this_is_major(v, w) == 1 \in Differ(v, w)

Stable(v) == \A i \in DOMAIN v : v[i] >= 0

(* A bound is lowered to the first alpha of its release.                      *)
Padded(v) == Append(v, -2)

(* Requirements: `version`, `min-`, and `min-max`, as which -exact comes.     *)
Requirement  == [form : {"plain", "from", "range"}, min : Seq(Int), max : Seq(Int)]
Plain(v)     == [form |-> "plain", min |-> v, max |-> v]
From(v)      == [form |-> "from", min |-> v, max |-> v]
Range_(v, w) == [form |-> "range", min |-> v, max |-> w]

requirement_satisfied(have, r) ==
  CASE r.form = "plain" ->
         LET c == compare_versions(have, Padded(r.min))
         IN  c = 0 \/ (c = 1 /\ ~this_is_major(have, Padded(r.min)))
    [] r.form = "from" -> compare_versions(have, Padded(r.min)) >= 0
    [] r.form = "range" /\ compare_versions(r.min, r.max) = 0 ->
         compare_versions(r.min, have) = 0
    [] OTHER -> /\ compare_versions(Padded(r.min), have) <= 0
                /\ compare_versions(have, Padded(r.max)) < 0

Satisfies(have, reqs) == reqs = {} \/ \E r \in reqs : requirement_satisfied(have, r)
=================================================================================
