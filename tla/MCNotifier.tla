----------------------------- MODULE MCNotifier -----------------------------
(* What the behaviours of the run are about: the queue and its mark with *)
(* three events, the timers and idle handlers, a descriptor beside them. *)
EXTENDS Notifier

Subjects ==
    {[slots |-> {"window"}, most |-> 3],
     [slots |-> {"timer", "idle", "redraw"}, most |-> 3],
     [slots |-> {"window", "timer"}, most |-> 2],
     [slots |-> {"file", "timer"}, most |-> 2]}
=============================================================================
