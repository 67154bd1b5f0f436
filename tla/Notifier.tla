------------------------------ MODULE Notifier ------------------------------
(*************************************************************************)
(* The event loop Tk is given (tk/notifier.rs): the queue of events, the *)
(* timers and idle handlers behind one source of events, the descriptors *)
(* that are watched, and Tcl_DoOneEvent and Tcl_ServiceAll, which call   *)
(* handlers that may do any of it again, the loops included.             *)
(*************************************************************************)
EXTENDS Integers, FiniteSets, SequencesExt

CONSTANTS
    Events,     \* storage of events
    Fds,        \* descriptors
    Dirs,       \* what a descriptor can be ready for
    Nil,        \* no event
    MaxLoops,   \* loops that run at a time
    MaxTime,    \* the clock ends here
    Uses,       \* what a behaviour is about: the slots it uses, and the most
                \* timers, idle handlers, window events and watches it makes
    Departures  \* what clients do against the rules, of {"reuse"}

ASSUME EventsAssumption == IsFiniteSet(Events) /\ Nil \notin Events
ASSUME BoundsAssumption ==
    /\ MaxLoops \in Nat /\ MaxTime \in Nat
    /\ \A u \in Uses : u.most \in Nat

VARIABLES
    event,          \* each place: free, or an event with its link and its proc
    first, last, marker, event_count,
    timers,         \* sorted by time
    last_timer_id, timer_pending,
    idles, idle_generation,
    files,          \* the handler of each descriptor, or Nil
    signalled,      \* the run loop's source of this notifier is signalled
    service_mode,
    stack,          \* the loops that run, innermost last
    made,           \* how many timers, idle handlers, window events and watches were made
    now,
    offered,        \* history: the window events that have had their turn
    uses            \* what this behaviour is about

queueVars == <<event, first, last, marker, event_count>>
timerVars == <<timers, last_timer_id, timer_pending>>
idleVars  == <<idles, idle_generation>>
fileVars  == <<files, signalled>>
vars == <<queueVars, timerVars, idleVars, fileVars, service_mode, stack, made, now, offered, uses>>

Slot(s) == s \in uses.slots

Kinds == {"window", "timer", "file", "idle"}
Free  == [kind |-> "free", fd |-> Nil, armed |-> FALSE, next |-> Nil]
Time  == 0 .. MaxTime

(* The flags callers pass: everything and wait, everything there is, and *)
(* the parts `update idletasks` and a redraw ask for.                    *)
Flags == {[of |-> Kinds, wait |-> TRUE], [of |-> Kinds, wait |-> FALSE],
          [of |-> {"idle"}, wait |-> FALSE], [of |-> {"window"}, wait |-> FALSE]}

(* A loop: what it was called for and where it is.  While it serves an   *)
(* event it has that event, the count kept for it, where to go on if the *)
(* event is refused, and what of the handler runs: the client's code, or *)
(* the drain of the timers or the pass over the idle handlers between    *)
(* two of them.  `limit` is what a drain or a pass stops at, `time` the  *)
(* clock when the drain began; `seen` is what had been made by then.     *)
Loop(call, flags, pc) ==
    [call |-> call, flags |-> flags, pc |-> pc, result |-> 0, mode |-> service_mode,
     until |-> 0, at |-> "first", ev |-> Nil, saved |-> 0, doing |-> "none",
     limit |-> 0, time |-> 0, seen |-> 0]

Running == stack # <<>>
Top     == Last(stack)
SetTop(f) == stack' = [stack EXCEPT ![Len(stack)] = f]

(* The client's code runs: in a handler, or around the outermost loop.   *)
Code == Running => Top.doing \in Kinds

Init ==
    /\ event = [e \in Events |-> Free]
    /\ first = Nil /\ last = Nil /\ marker = Nil /\ event_count = 0
    /\ timers = <<>> /\ last_timer_id = 0 /\ timer_pending = FALSE
    /\ idles = <<>> /\ idle_generation = 0
    /\ files = [d \in Fds |-> Nil] /\ signalled = FALSE
    /\ service_mode = "none"
    /\ stack = <<>> /\ made = 0 /\ now = 0
    /\ offered = {} /\ uses \in Uses

-----------------------------------------------------------------------------
(* The queue.                                                            *)

New(kind, fd) == [kind |-> kind, fd |-> fd, armed |-> TRUE, next |-> Nil]

QueueTail(e, v) ==
    /\ event' = [[event EXCEPT ![e] = v] EXCEPT
                   ![IF first = Nil THEN e ELSE last].next = IF first = Nil THEN Nil ELSE e]
    /\ first' = IF first = Nil THEN e ELSE first
    /\ last' = e
    /\ marker' = marker

(* A slip for the runs to find: in an empty queue `last` is forgotten.    *)
KeepsLast(e, v) ==
    /\ event' = [event EXCEPT ![e] = [v EXCEPT !.next = first]]
    /\ first' = e
    /\ UNCHANGED <<last, marker>>

QueueHead(e, v) ==
    /\ event' = [event EXCEPT ![e] = [v EXCEPT !.next = first]]
    /\ last' = IF first = Nil THEN e ELSE last
    /\ first' = e
    /\ marker' = marker

QueueMark(e, v) ==
    LET after == IF marker = Nil THEN first ELSE event[marker].next
        put   == [event EXCEPT ![e] = [v EXCEPT !.next = after]]
    IN  /\ event' = IF marker = Nil THEN put ELSE [put EXCEPT ![marker].next = e]
        /\ first' = IF marker = Nil THEN e ELSE first
        /\ last' = IF after = Nil THEN e ELSE last
        /\ marker' = e

(* Storage for an event: any that is free, and by the rules not what a   *)
(* handler that runs was called for.  There is some: Events is a bound.  *)
Unused(e) ==
    event[e] = Free /\ ("reuse" \in Departures \/ \A i \in DOMAIN stack : stack[i].ev # e)
Storage == CHOOSE e \in Events : Unused(e)

queue_event(v, position) ==
    /\ \E e \in Events : Unused(e)
    /\ CASE position = "tail" -> QueueTail(Storage, v)
         [] position = "head" -> QueueHead(Storage, v)
         [] position = "mark" -> QueueMark(Storage, v)
    /\ event_count' = event_count + 1

(* The events from one on, in the order of the links of a list.          *)
From(list, e) ==
    LET walk[q \in Seq(Events) \ {<<>>}] ==
            IF Len(q) < Cardinality(Events) /\ list[Last(q)].next # Nil
            THEN walk[Append(q, list[Last(q)].next)] ELSE q
    IN  IF e = Nil THEN <<>> ELSE walk[<<e>>]

Queue == From(event, first)

(* What of a sequence is in a set.                                       *)
Keeping(s, these) ==
    LET kept[i \in 0 .. Len(s)] ==
            IF i = 0 THEN <<>>
            ELSE IF s[i] \in these THEN Append(kept[i - 1], s[i]) ELSE kept[i - 1]
    IN  kept[Len(s)]

(* How many events the mark is behind.                                   *)
Marked == LET q == Queue IN IF marker = Nil THEN 0 ELSE CHOOSE i \in DOMAIN q : q[i] = marker

(* The mark, when an event leaves and the one before it is `prev`; and a *)
(* slip, with which the mark goes too.                                   *)
NoMark(e, prev) == IF marker = e THEN Nil ELSE marker
MarkWithout(e, prev) == IF marker = e THEN prev ELSE marker

(* The links without one event, and what the pointers become.  The walk  *)
(* finds the event before it from the front; an event that is not there  *)
(* any more is left alone.                                               *)
Unlink(e) ==
    IF e \notin ToSet(Queue) THEN UNCHANGED <<event, first, last, marker>>
    ELSE LET after == event[e].next
             prev  == IF e = first THEN Nil ELSE CHOOSE p \in ToSet(Queue) : event[p].next = e
         IN  /\ event' = IF prev = Nil THEN [event EXCEPT ![e] = Free]
                         ELSE [event EXCEPT ![e] = Free, ![prev].next = after]
             /\ first' = IF prev = Nil THEN after ELSE first
             /\ last' = IF after = Nil THEN prev ELSE last
             /\ marker' = MarkWithout(e, prev)

(* Tcl_DeleteEvents of what a filter names: one walk, which keeps the    *)
(* last event that stays.                                                *)
delete_events(gone) ==
    LET kept  == Keeping(Queue, Events \ gone)
        ahead == Keeping(SubSeq(Queue, 1, Marked), Events \ gone)
        follows(e) == IF e = Last(kept) THEN Nil ELSE kept[(CHOOSE i \in DOMAIN kept : kept[i] = e) + 1]
    IN  /\ event' = [e \in Events |->
                       IF e \in gone THEN Free
                       ELSE IF e \in ToSet(kept) THEN [event[e] EXCEPT !.next = follows(e)] ELSE event[e]]
        /\ first' = IF kept = <<>> THEN Nil ELSE kept[1]
        /\ last' = IF kept = <<>> THEN Nil ELSE Last(kept)
        /\ marker' = IF ahead = <<>> THEN Nil ELSE Last(ahead)
        /\ event_count' = event_count - Cardinality(gone)

-----------------------------------------------------------------------------
(* What the client's code does: the slots of the table.                  *)

QueueWindow(position) ==
    /\ made < uses.most
    /\ queue_event(New("window", Nil), position)
    /\ made' = made + 1
    /\ UNCHANGED <<timerVars, idleVars, fileVars, service_mode, stack, now>>

(* Tokens count up, and a timer goes behind every one of the same time.  *)
NewToken    == last_timer_id + 1
Later(time) == {i \in DOMAIN timers : time < timers[i].time}

CreateTimer(ms) ==
    LET t == [time |-> now + ms, token |-> NewToken, id |-> made + 1]
        pos == IF Later(t.time) = {} THEN Len(timers) + 1 ELSE Min(Later(t.time))
    IN  /\ made < uses.most /\ now + ms <= MaxTime
        /\ timers' = InsertAt(timers, pos, t)
        /\ last_timer_id' = NewToken
        /\ made' = made + 1
        /\ UNCHANGED <<queueVars, timer_pending, idleVars, fileVars, service_mode, stack, now>>

DeleteTimer(i) ==
    /\ timers' = RemoveAt(timers, i)
    /\ UNCHANGED <<queueVars, last_timer_id, timer_pending, idleVars, fileVars, service_mode, stack, made, now>>

DoWhenIdle ==
    /\ made < uses.most
    /\ idles' = Append(idles, [generation |-> idle_generation, id |-> made + 1])
    /\ made' = made + 1
    /\ UNCHANGED <<queueVars, timerVars, idle_generation, fileVars, service_mode, stack, now>>

(* Every registration of the same procedure and data goes.               *)
CancelIdle(same) ==
    /\ same # {}
    /\ idles' = Keeping(idles, {h \in ToSet(idles) : h.id \notin same})
    /\ UNCHANGED <<queueVars, timerVars, idle_generation, fileVars, service_mode, stack, made, now>>

(* A descriptor watched again keeps what it was ready for and the event  *)
(* that is queued for it; one that was let go and is watched anew has    *)
(* neither.                                                              *)
CreateFile(fd, mask) ==
    /\ IF files[fd] = Nil
       THEN /\ made < uses.most /\ made' = made + 1
            /\ files' = [files EXCEPT ![fd] =
                           [mask |-> mask, ready |-> {}, queued |-> FALSE, enabled |-> mask]]
       ELSE /\ files[fd].mask # mask /\ UNCHANGED made
            /\ files' = [files EXCEPT ![fd].mask = mask, ![fd].enabled = @ \cup mask]
    /\ UNCHANGED <<queueVars, timerVars, idleVars, signalled, service_mode, stack, now>>

DeleteFile(fd) ==
    /\ files[fd] # Nil
    /\ files' = [files EXCEPT ![fd] = Nil]
    /\ UNCHANGED <<queueVars, timerVars, idleVars, signalled, service_mode, stack, made, now>>

(* The events of a window that goes, the one being served among them.    *)
DeleteEvents(gone) ==
    /\ gone # {}
    /\ delete_events(gone)
    /\ UNCHANGED <<timerVars, idleVars, fileVars, service_mode, stack, made, now>>

(* Tcl_DoOneEvent: nothing else is serviced meanwhile.                   *)
DoOneEvent(flags) ==
    /\ Len(stack) < MaxLoops
    /\ stack' = Append(stack, Loop("one", flags, IF flags.of = {"idle"} THEN "idle" ELSE "serve"))
    /\ service_mode' = "none"
    /\ UNCHANGED <<queueVars, timerVars, idleVars, fileVars, made, now>>

(* Tcl_ServiceAll refuses in the mode `none`, so the client that calls   *)
(* it sets the mode before and sets the old one again afterwards.        *)
ServiceAll ==
    /\ Len(stack) < MaxLoops
    /\ stack' = Append(stack, Loop("all", [of |-> Kinds, wait |-> FALSE], "check"))
    /\ service_mode' = "none"
    /\ UNCHANGED <<queueVars, timerVars, idleVars, fileVars, made, now>>

Client ==
    /\ Code
    /\ \/ Slot("window") /\ \E p \in {"tail", "head", "mark"} : QueueWindow(p)
       \/ Slot("timer") /\ \E ms \in Time : CreateTimer(ms)
       \/ Slot("timer") /\ \E i \in DOMAIN timers : DeleteTimer(i)
       \/ Slot("idle") /\ DoWhenIdle
       \/ Slot("idle") /\ \E same \in SUBSET {h.id : h \in ToSet(idles)} : CancelIdle(same)
       \/ Slot("file") /\ \E fd \in Fds, mask \in SUBSET Dirs : CreateFile(fd, mask)
       \/ Slot("file") /\ \E fd \in Fds : DeleteFile(fd)
       \/ Slot("window") /\
             \E gone \in SUBSET {e \in ToSet(Queue) : event[e].kind = "window"} : DeleteEvents(gone)
       \/ \E flags \in Flags : (flags.of = {"window"} => Slot("redraw")) /\ DoOneEvent(flags)
       \/ ServiceAll

-----------------------------------------------------------------------------
(* The loops: each of these is a step of the innermost one.              *)

At(pc) == Running /\ Top.pc = pc /\ Top.doing = "none"

Left == UNCHANGED <<queueVars, timerVars, idleVars, fileVars, made, now>>

(* The loop returns, and the mode is what it was.                        *)
Leave ==
    /\ stack' = Front(stack)
    /\ service_mode' = Top.mode

(* The first event, from where the loop has got to, whose procedure is   *)
(* not running and takes what the flags ask for.  One that refuses at    *)
(* once is as it was.                                                    *)
Chosen ==
    LET takes == {e \in Events : event[e].armed /\ event[e].kind \in Top.flags.of}
        rest  == Keeping(From(event, IF Top.at = "first" THEN first ELSE Top.at), takes)
    IN  IF rest = <<>> THEN Nil ELSE rest[1]

Serving == Running /\ Top.pc \in {"serve", "again"} /\ Top.doing = "none"

Started(e, doing) == [Top EXCEPT !.ev = e, !.saved = event_count, !.doing = doing]

(* A slip: the event can be served again meanwhile.                      *)
StaysArmed(e) ==
    /\ event_count' = 0
    /\ UNCHANGED <<event, first, last, marker, idleVars, service_mode, made, now>>

Starts(e) ==
    /\ event' = [event EXCEPT ![e].armed = FALSE]
    /\ event_count' = 0
    /\ UNCHANGED <<first, last, marker, idleVars, service_mode, made, now>>

ServeWindow ==
    /\ Serving /\ Chosen # Nil /\ event[Chosen].kind = "window"
    /\ Starts(Chosen)
    /\ SetTop(Started(Chosen, "window"))
    /\ UNCHANGED <<timerVars, fileVars>>

(* The drain of the timers begins.                                       *)
ServeTimers ==
    /\ Serving /\ Chosen # Nil /\ event[Chosen].kind = "timer"
    /\ Starts(Chosen)
    /\ timer_pending' = FALSE
    /\ SetTop([Started(Chosen, "drain") EXCEPT !.limit = last_timer_id, !.time = now, !.seen = made])
    /\ UNCHANGED <<timers, last_timer_id, fileVars>>

(* The handler's record when its event is served: its callbacks are set  *)
(* again.                                                                *)
Told(f) == [f EXCEPT !.queued = FALSE, !.ready = {}, !.enabled = @ \cup f.mask]

(* The handler of the descriptor, if there is one and it still wants     *)
(* what has come.                                                        *)
ServeFile ==
    /\ Serving /\ Chosen # Nil /\ event[Chosen].kind = "file"
    /\ Starts(Chosen)
    /\ LET fd == event[Chosen].fd
           f  == files[fd]
           heard == f # Nil /\ f.ready \cap f.mask # {}
       IN  /\ files' = IF f = Nil THEN files ELSE [files EXCEPT ![fd] = Told(f)]
           /\ SetTop(Started(Chosen, IF heard THEN "file" ELSE "over"))
    /\ UNCHANGED <<timerVars, signalled>>

ServeNothing ==
    /\ Serving /\ Chosen = Nil
    /\ SetTop([Top EXCEPT !.at = "first", !.pc = IF Top.pc = "serve" THEN "setup" ELSE "idle"])
    /\ Left /\ UNCHANGED service_mode

(* A slip: timers made while the drain lasts run in it too.              *)
WhatIsDue == timers # <<>> /\ timers[1].time <= Top.time

(* One timer that was due when the drain began and was there by then,    *)
(* unlinked before it is called.                                         *)
Due == timers # <<>> /\ timers[1].time <= Top.time /\ timers[1].token <= Top.limit

RunTimer ==
    /\ Running /\ Top.doing = "drain" /\ Due
    /\ timers' = Tail(timers)
    /\ SetTop([Top EXCEPT !.doing = "timer"])
    /\ UNCHANGED <<queueVars, last_timer_id, timer_pending, idleVars, fileVars, service_mode, made, now>>

DrainEnds ==
    /\ Running /\ Top.doing = "drain" /\ ~Due
    /\ SetTop([Top EXCEPT !.doing = "over"])
    /\ Left /\ UNCHANGED service_mode

(* A handler of the client returns.                                      *)
CodeReturns ==
    /\ Running /\ Top.doing \in Kinds
    /\ SetTop([Top EXCEPT !.doing = CASE @ = "timer" -> "drain" [] @ = "idle" -> "pass"
                                      [] OTHER -> "over"])
    /\ Left /\ UNCHANGED service_mode

(* The handler of a window's event may leave it for another time: the    *)
(* loop goes on behind it.                                               *)
Refuse ==
    /\ Running /\ Top.doing = "window" /\ event[Top.ev] # Free
    /\ event' = [event EXCEPT ![Top.ev].armed = TRUE]
    /\ event_count' = event_count + Top.saved
    /\ SetTop([Top EXCEPT !.doing = "none", !.at = event[Top.ev].next, !.ev = Nil, !.saved = 0])
    /\ UNCHANGED <<first, last, marker, timerVars, idleVars, fileVars, service_mode, made, now>>

(* An event is over: it leaves the queue, whatever the queue has become. *)
(* Tcl_DoOneEvent returns, Tcl_ServiceAll starts again from the front.   *)
Handled ==
    /\ Running /\ Top.doing = "over"
    /\ Unlink(Top.ev)
    /\ event_count' = event_count + Top.saved - (IF Top.ev \in ToSet(Queue) THEN 1 ELSE 0)
    /\ IF Top.call = "one" THEN Leave
       ELSE /\ SetTop([Top EXCEPT !.doing = "none", !.at = "first", !.ev = Nil, !.saved = 0,
                                  !.limit = 0, !.time = 0, !.seen = 0])
            /\ UNCHANGED service_mode
    /\ UNCHANGED <<timerVars, idleVars, fileVars, made, now>>

Never == MaxTime + 1

(* A slip: idle handlers do not keep the wait short.                     *)
UntilTheTimer ==
    IF ~Top.flags.wait \/ timer_pending THEN 0
    ELSE IF timers # <<>> THEN timers[1].time ELSE Never

(* How long the wait may last: not at all if there is work, or until the *)
(* first timer.                                                          *)
Until ==
    IF \/ ~Top.flags.wait
       \/ "idle" \in Top.flags.of /\ idles # <<>>
       \/ "timer" \in Top.flags.of /\ timer_pending THEN 0
    ELSE IF "timer" \in Top.flags.of /\ timers # <<>> THEN timers[1].time
    ELSE Never

Setup ==
    /\ At("setup")
    /\ SetTop([Top EXCEPT !.pc = "wait", !.until = Until])
    /\ Left /\ UNCHANGED service_mode

(* The wait ends because its time is over or because the source of this  *)
(* notifier performs: the descriptors that are ready get their events.   *)
WaitEnds ==
    /\ At("wait")
    /\ \/ Top.until <= now /\ UNCHANGED signalled
       \/ signalled /\ signalled' = FALSE
    /\ SetTop([Top EXCEPT !.pc = "files", !.until = 0])
    /\ UNCHANGED <<queueVars, timerVars, idleVars, files, service_mode, made, now>>

(* Or because the run loop calls out for a descriptor, once for each     *)
(* time its callbacks are set; the notifier's own source comes before    *)
(* all others,                                                           *)
FileReady(fd, types) ==
    /\ At("wait") /\ ~signalled /\ types # {}
    /\ files[fd] # Nil /\ types \subseteq files[fd].enabled
    /\ files' = [files EXCEPT ![fd].ready = @ \cup (types \cap files[fd].mask),
                              ![fd].enabled = @ \ types]
    /\ signalled' = TRUE
    /\ SetTop([Top EXCEPT !.pc = "check", !.result = 1, !.until = 0])
    /\ UNCHANGED <<queueVars, timerVars, idleVars, service_mode, made, now>>

(* or for a source of Tk's, which queues an event.                       *)
Foreign ==
    /\ At("wait") /\ ~signalled /\ Slot("window") /\ made < uses.most
    /\ queue_event(New("window", Nil), "tail")
    /\ made' = made + 1
    /\ SetTop([Top EXCEPT !.pc = "check", !.result = 1, !.until = 0])
    /\ UNCHANGED <<timerVars, idleVars, fileVars, service_mode, now>>

(* One event for each descriptor that has none.                          *)
Ready == {fd \in Fds : files[fd] # Nil /\ files[fd].ready # {} /\ ~files[fd].queued}

QueueFile(fd) ==
    /\ At("files") /\ fd \in Ready
    /\ queue_event(New("file", fd), "tail")
    /\ files' = [files EXCEPT ![fd].queued = TRUE]
    /\ UNCHANGED <<timerVars, idleVars, signalled, service_mode, stack, made, now>>

FilesQueued ==
    /\ At("files") /\ Ready = {}
    /\ SetTop([Top EXCEPT !.pc = "check"])
    /\ Left /\ UNCHANGED service_mode

(* One event for all timers that are due.                                *)
TimersDue == "timer" \in Top.flags.of /\ timers # <<>> /\ timers[1].time <= now /\ ~timer_pending

CheckQueues ==
    /\ At("check") /\ TimersDue
    /\ queue_event(New("timer", Nil), "tail")
    /\ timer_pending' = TRUE
    /\ SetTop([Top EXCEPT !.pc = "again"])
    /\ UNCHANGED <<timers, last_timer_id, idleVars, fileVars, service_mode, made, now>>

CheckQueuesNothing ==
    /\ At("check") /\ ~TimersDue
    /\ SetTop([Top EXCEPT !.pc = "again"])
    /\ Left /\ UNCHANGED service_mode

(* A pass over the idle handlers there are; those made while it lasts    *)
(* are of a later generation.                                            *)
BeginPass ==
    /\ At("idle") /\ "idle" \in Top.flags.of /\ idles # <<>>
    /\ idle_generation' = idle_generation + 1
    /\ SetTop([Top EXCEPT !.doing = "pass", !.limit = idle_generation, !.seen = made])
    /\ UNCHANGED <<queueVars, timerVars, idles, fileVars, service_mode, made, now>>

There == idles # <<>> /\ idles[1].generation <= Top.limit

RunIdle ==
    /\ Running /\ Top.doing = "pass" /\ There
    /\ idles' = Tail(idles)
    /\ SetTop([Top EXCEPT !.doing = "idle"])
    /\ UNCHANGED <<queueVars, timerVars, idle_generation, fileVars, service_mode, made, now>>

PassEnds ==
    /\ Running /\ Top.doing = "pass" /\ ~There
    /\ Leave
    /\ Left

(* Without idle handlers the loop returns if it may not wait or if       *)
(* something of Tk's was dispatched, and goes round again otherwise.     *)
NoPass ==
    /\ At("idle") /\ ("idle" \notin Top.flags.of \/ idles = <<>>)
    /\ IF Top.flags.wait /\ Top.result = 0
       THEN SetTop([Top EXCEPT !.pc = "serve"]) /\ UNCHANGED service_mode
       ELSE Leave
    /\ Left

Tick ==
    /\ Slot("timer") /\ now < MaxTime /\ (Code \/ At("wait"))
    /\ now' = now + 1
    /\ UNCHANGED <<queueVars, timerVars, idleVars, fileVars, service_mode, stack, made>>

LoopStep ==
    \/ ServeWindow \/ ServeTimers \/ ServeFile \/ ServeNothing
    \/ RunTimer \/ DrainEnds \/ Handled
    \/ Setup \/ WaitEnds \/ FilesQueued \/ CheckQueuesNothing
    \/ CheckQueues \/ \E fd \in Fds : QueueFile(fd)
    \/ BeginPass \/ RunIdle \/ PassEnds \/ NoPass

(* A window's event has had its turn when its handler has had it, or     *)
(* when a handler refused another one that it was in front of: the loop  *)
(* goes on behind that.  What is queued in its place later is new.       *)
Refused == {e \in Events : event[e].kind = "window" /\ ~event[e].armed /\ event'[e].armed}

Remember ==
    /\ UNCHANGED uses
    /\ offered' = {e \in Events : /\ event'[e].kind = "window"
                                  /\ \/ e \in offered \/ ~event'[e].armed
                                     \/ \E r \in Refused : e \notin ToSet(From(event, r))}

Next ==
    /\ \/ Client \/ LoopStep \/ CodeReturns \/ Refuse \/ Tick
       \/ \E fd \in Fds, types \in SUBSET Dirs : FileReady(fd, types)
       \/ Foreign
    /\ Remember

(* The thread goes on, time passes, handlers return, and the program     *)
(* calls Tcl_DoOneEvent for everything again and again.                  *)
Fairness ==
    /\ WF_vars(LoopStep /\ Remember) /\ SF_vars(Tick /\ Remember)
    /\ SF_vars(CodeReturns /\ Remember)
    /\ SF_vars(~Running /\ DoOneEvent([of |-> Kinds, wait |-> TRUE]) /\ Remember)

Spec == Init /\ [][Next]_vars /\ Fairness

-----------------------------------------------------------------------------
(* Types and ranges.                                                     *)
TypeOK ==
    /\ event \in [Events -> [kind : Kinds \cup {"free"}, fd : Fds \cup {Nil},
                            armed : BOOLEAN, next : Events \cup {Nil}]]
    /\ {first, last, marker} \subseteq Events \cup {Nil}
    /\ event_count \in Int
    /\ \A t \in ToSet(timers) : t.time \in Time /\ t.token \in 1 .. last_timer_id
    /\ timer_pending \in BOOLEAN /\ signalled \in BOOLEAN
    /\ \A h \in ToSet(idles) : h.generation \in 0 .. idle_generation
    /\ \A fd \in Fds : files[fd] = Nil \/ files[fd] \in
           [mask : SUBSET Dirs, ready : SUBSET Dirs, queued : BOOLEAN, enabled : SUBSET Dirs]
    /\ service_mode \in {"none", "all"}
    /\ Len(stack) <= MaxLoops
    /\ made \in 0 .. uses.most /\ now \in Time

(* What the loops have put aside of the count of events.                 *)
PutAside(loops) ==
    LET sum[i \in 0 .. Len(loops)] == IF i = 0 THEN 0 ELSE sum[i - 1] + loops[i].saved
    IN  sum[Len(loops)]

(* The links and the pointers into them describe one list: what is on it *)
(* is what was queued and is not freed, `last` is where the next one     *)
(* goes, and the mark is behind an event that is there.  The count of    *)
(* events and what the loops have put aside of it are its length,        *)
(* however the handlers have changed it.  And the flag that keeps timers *)
(* from queueing a second event stands for one that will be served, also *)
(* while another one is being served; so does the one of a descriptor.   *)
ListAgrees ==
    /\ TypeOK
    /\ ToSet(Queue) = {e \in Events : event[e] # Free}
    /\ last = IF Queue = <<>> THEN Nil ELSE Last(Queue)
    /\ marker \in ToSet(Queue) \cup {Nil}
    /\ event_count + PutAside(stack) = Len(Queue)
    /\ timer_pending <=> \E e \in ToSet(Queue) : event[e].kind = "timer" /\ event[e].armed
    /\ \A fd \in Fds : files[fd] # Nil /\ files[fd].queued =>
          \E e \in ToSet(Queue) : event[e].kind = "file" /\ event[e].fd = fd /\ event[e].armed

(* No event's handler is called again by a loop it enters itself.        *)
NotInsideItself ==
    \A i, j \in DOMAIN stack : i # j /\ stack[i].ev # Nil => stack[i].ev # stack[j].ev

(* Timers run by time, and by age at the same time, whoever drains them  *)
(* and from whichever loop; and a drain or a pass runs what was there    *)
(* when it began and nothing made since, though loops inside it have     *)
(* begun others.                                                         *)
ServedInTurn ==
    [][/\ RunTimer => \A t \in ToSet(timers') :
             \/ timers[1].time < t.time
             \/ timers[1].time = t.time /\ timers[1].id < t.id
       /\ RunTimer => timers[1].id <= Top.seen
       /\ RunIdle => idles[1].id <= Top.seen]_vars

(* The list of events is the queue with a front part it stands for.      *)
Abstract == INSTANCE EventQueue
    WITH queue <- Queue, front <- Marked
ImplementsQueue == Abstract!Spec

(* Every timer and idle handler runs or is taken away, and every event   *)
(* of a window comes to its handler or goes: however often loops inside  *)
(* loops are entered, there comes a time with none left to run and none  *)
(* left unoffered (a behaviour makes a bounded number).  What a          *)
(* descriptor became ready for is told to its handler, or the handler    *)
(* does not want it or goes.  None waits for ever behind a loop that     *)
(* blocks, a flag that was not cleared, an event that was passed over or *)
(* refused.  Two things the code does not promise, and this does not     *)
(* say: that an event its handler refused is offered again, and that one *)
(* queued in front of an event that is then refused is seen before the   *)
(* loop waits; both may stay as long as nothing new comes.               *)
HandlersRun ==
    /\ []<>(timers = <<>> /\ idles = <<>>)
    /\ []<>\A e \in Events : event[e].kind = "window" => e \in offered
    /\ \A fd \in Fds : []<>(files[fd] = Nil \/ files[fd].ready = {})
=============================================================================
