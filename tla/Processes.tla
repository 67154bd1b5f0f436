------------------------------ MODULE Processes ------------------------------
(***************************************************************************)
(* `exec` (cmd_process.rs): a pipeline of commands that run beside the     *)
(* interpreter, with a thread that feeds the first one and threads that    *)
(* drain what is captured, over pipes that hold little.  The interpreter   *)
(* starts the commands, waits for each and puts the answer together.       *)
(***************************************************************************)
EXTENDS Integers, SequencesExt

CONSTANTS
  MaxStages,   (* bound: commands in a pipeline                              *)
  MaxWrites,   (* bound: how often the commands write, all of them           *)
  Text,        (* how much there is to be fed                                *)
  Capacity,    (* of a pipe                                                  *)
  Stdouts,     (* bound: what plans say of the output, and                   *)
  Stderrs,     (*   of the error stream                                      *)
  Departures   (* words that do not do what they say: see Plans and Told     *)

ASSUME ProcessesAssumption ==
  /\ MaxStages \in Nat \ {0} /\ MaxWrites \in Nat /\ Text \in Nat /\ Capacity \in Nat \ {0}
  /\ Stdouts \subseteq {"capture", "inherit", "file", "channel"}
  /\ Stderrs \subseteq {"capture", "inherit", "file", "channel", "stdout"}
  /\ Departures \subseteq {"background", "merge", "status", "descriptors"}

(* Places output goes to.  Pipes have ends, which the interpreter, its       *)
(* threads and the commands hold; a command is its stage.                    *)
Stages     == 1 .. MaxStages
In         == <<"in", 0>>
Out        == <<"out", 0>>
Err        == <<"err", 0>>
Between(i) == <<"between", i>>
Own(name)  == <<name, 0>>                \* a stream, file or channel
Pipes      == {In, Out, Err} \cup {Between(i) : i \in Stages}
Places     == Pipes \cup {Own(name) : name \in {"stdout", "stderr", "file", "errfile", "channel", "errchannel"}}

Exec == 0   Writer == -1   OutReader == -2   ErrReader == -3
Threads == {Writer, OutReader, ErrReader}

VARIABLES
  plan,        (* what was asked for                                         *)
  pc,          (* what the interpreter does                                  *)
  held,        (* the ends of pipes, by who holds them                       *)
  pipe,        (* what is in each pipe                                       *)
  text,        (* how much of the text was not fed yet                       *)
  child,       (* the commands that were started                             *)
  left,        (* how often they may still write                             *)
  arrived,     (* what came out at each place                                *)
  answer,      (* what `exec` answers                                        *)
  meant        (* history: what was written, by where it was to go           *)

vars == <<plan, pc, held, pipe, text, child, left, arrived, answer, meant>>

----------------------------------------------------------------------------
(* A plan: the last stage, redirections, the stages before a `|&`, and `&`.  *)
Plan == [last : Stages, stdin : {"inherit", "text"},
         stdout : Stdouts, stderr : Stderrs,
         joined : SUBSET (Stages \ {MaxStages}), background : BOOLEAN]

Captures(p, sink) == sink = "channel" \/ (sink = "capture" /\ ~p.background)
Redirected(p)     == p.stdout = "file" \/ Captures(p, p.stdout)

(* Where a plan departs from its words, and an instance without the          *)
(* departure leaves it out:                                                  *)
(* - background: with `&`, text is never fed and channels are not drained;   *)
(* - merge: `2>@1` and `>&` are for the last command only, and not for the   *)
(*   interpreter's own output.                                               *)
Plans ==
  {p \in Plan :
     /\ \A i \in p.joined : i < p.last
     /\ p.background /\ "background" \notin Departures =>
           p.stdin # "text" /\ "channel" \notin {p.stdout, p.stderr}
     /\ p.stderr = "stdout" /\ "merge" \notin Departures =>
           Redirected(p) /\ p.joined = 1 .. p.last - 1}

StdinOf(i) ==
  IF i > 1 THEN Between(i - 1) ELSE IF plan.stdin = "text" THEN In ELSE Own("stdin")

StdoutOf(i) ==
  IF i < plan.last THEN Between(i)
  ELSE IF Captures(plan, plan.stdout) THEN Out
  ELSE IF plan.stdout = "file" THEN Own("file") ELSE Own("stdout")

StderrOf(i) ==
  IF i \in plan.joined THEN Between(i)
  ELSE IF Captures(plan, plan.stderr) THEN Err
  ELSE IF plan.stderr = "file" THEN Own("errfile")
  ELSE IF plan.stderr = "stdout" /\ i = plan.last /\ Redirected(plan) THEN StdoutOf(i)
  ELSE Own("stderr")

(* Where the words say that it goes.                                         *)
Named(sink, answered, own, file, channel) ==
  CASE sink = "capture" -> IF plan.background THEN own ELSE answered
    [] sink = "inherit" -> own [] sink = "file" -> file [] sink = "channel" -> channel

MeantFor(i, stream) ==
  IF (i < plan.last /\ stream = "out") \/ (i \in plan.joined /\ stream = "err") THEN Between(i)
  ELSE IF stream = "out" \/ plan.stderr = "stdout"
       THEN Named(plan.stdout, Out, Own("stdout"), Own("file"), Own("channel"))
       ELSE Named(plan.stderr, Err, Own("stderr"), Own("errfile"), Own("errchannel"))

----------------------------------------------------------------------------
(* Ends of pipes.                                                            *)
End(place, side, holder) == ({place} \cap Pipes) \X {side} \X {holder}
HeldBy(holder) == {e \in held : e[3] = holder}
Has(place, side) == \E e \in held : e[1] = place /\ e[2] = side

(* The pipes there are before the first command is started.                  *)
Opened(p) ==
  {x \in {In, Out, Err} : \/ x = In /\ p.stdin = "text"
                          \/ x = Out /\ Captures(p, p.stdout)
                          \/ x = Err /\ Captures(p, p.stderr)}

(* A command does one thing at a time, and does not look whether it can: when*)
(* it cannot, it is stuck `at` it until it can.                              *)
Command == [at : {"free", "read", "out", "err", "ended", "reaped"}, eof : BOOLEAN,
            status : {"ok", "failed", "killed", "broken"}]
Running(i) == i \in DOMAIN child /\ child[i].at \notin {"ended", "reaped"}

----------------------------------------------------------------------------
(* The interpreter starts the next command; its copies of the ends it gives  *)
(* away close.                                                               *)
Spawn ==
  LET i     == Len(child) + 1
      taken == End(StdinOf(i), "read", i) \cup End(StdoutOf(i), "write", i) \cup End(StderrOf(i), "write", i)
      ahead == IF i < plan.last THEN End(Between(i), "read", Exec) ELSE {}
  IN  /\ pc = "spawn" /\ i <= plan.last
      /\ held' = (held \ End(StdinOf(i), "read", Exec)) \cup taken \cup ahead
      /\ child' = Append(child, [at |-> "free", eof |-> StdinOf(i) = Own("stdin"), status |-> "ok"])
      /\ UNCHANGED <<plan, pc, pipe, text, left, arrived, answer, meant>>

(* What is held once the interpreter closes its ends.  (Or keeps them.)      *)
KeptAll == held
Kept    == held \ HeldBy(Exec)

Ended(c, at) ==
  [c EXCEPT !.at = at, !.status = IF c.at = "ended" THEN @ ELSE "killed"]

(* Those that run are killed and waited for.  (Or only killed.)              *)
Killed == [i \in DOMAIN child |-> Ended(child[i], "ended")]
Reaped == [i \in DOMAIN child |-> Ended(child[i], "reaped")]

(* Where a pipe cannot be made it gives up then and there: an instance       *)
(* without the departure has enough descriptors.                             *)
GivenUp ==
  {[held |-> {}, child |-> Reaped]}
    \cup {[held |-> Kept, child |-> child] : d \in Departures \cap {"descriptors"}}

(* The next command cannot be started.                                       *)
SpawnFails ==
  /\ pc = "spawn" /\ Len(child) < plan.last
  /\ pc' = "done" /\ answer' = [kind |-> "refused", text |-> <<>>]
  /\ \E end \in GivenUp : held' = end.held /\ child' = end.child
  /\ UNCHANGED <<plan, pipe, text, left, arrived, meant>>

(* All were started: the interpreter closes its ends, those it has a use for *)
(* are a thread's; in the background it waits for nobody.                   *)
Handed ==
  {<<e[1], e[2], CASE e[1] = In -> Writer [] e[1] = Out -> OutReader [] e[1] = Err -> ErrReader>> :
     e \in {h \in HeldBy(Exec) : h[1] = In <=> h[2] = "write"}}

Release ==
  /\ pc = "spawn" /\ Len(child) = plan.last
  /\ IF plan.background
     THEN pc' = "done" /\ held' = Kept /\ answer' = [kind |-> "value", text |-> <<>>]
     ELSE pc' = "wait" /\ held' = Kept \cup Handed /\ UNCHANGED answer
  /\ UNCHANGED <<plan, pipe, text, child, left, arrived, meant>>

(* It waits for each in turn, then for the threads; channels get theirs now. *)
Wait ==
  /\ pc = "wait"
  /\ \/ /\ \A i \in DOMAIN child : child[i].at = "reaped"
        /\ pc' = "join" /\ UNCHANGED child
     \/ \E i \in DOMAIN child :
          /\ child[i].at = "ended" /\ \A j \in 1 .. i - 1 : child[j].at = "reaped"
          /\ child' = [child EXCEPT ![i].at = "reaped"] /\ UNCHANGED pc
  /\ UNCHANGED <<plan, held, pipe, text, left, arrived, answer, meant>>

AllButErr == HeldBy(Writer) \cup HeldBy(OutReader) = {}
Joined    == UNION {HeldBy(t) : t \in Threads} = {}

Collected ==
  [arrived EXCEPT
     ![Own("channel")]    = IF plan.stdout = "channel" THEN arrived[Out] ELSE @,
     ![Out]               = IF plan.stdout = "channel" THEN <<>> ELSE @,
     ![Own("errchannel")] = IF plan.stderr = "channel" THEN arrived[Err] ELSE @,
     ![Err]               = IF plan.stderr = "channel" THEN <<>> ELSE @]

Failed == \E i \in DOMAIN child : child[i].status # "ok"

Answer ==
  /\ pc = "join" /\ Joined
  /\ pc' = "done"
  /\ arrived' = Collected
  /\ LET result == Collected[Out]  errors == Collected[Err]
     IN  answer' = IF errors # <<>> THEN [kind |-> "error", text |-> result \o errors]
                   ELSE IF Failed THEN [kind |-> "error", text |-> <<>>]
                   ELSE [kind |-> "value", text |-> result]
  /\ UNCHANGED <<plan, held, pipe, text, child, left, meant>>

ExecStep == Spawn \/ SpawnFails \/ Release \/ Wait \/ Answer

----------------------------------------------------------------------------
(* The threads.  A write without readers fails, and the writer ends.         *)
WriterStep ==
  /\ HeldBy(Writer) # {}
  /\ IF text > 0 /\ Has(In, "read")
     THEN /\ Len(pipe[In]) < Capacity
          /\ pipe' = [pipe EXCEPT ![In] = Append(@, <<0, "text">>)]
          /\ text' = text - 1 /\ UNCHANGED held
     ELSE held' = held \ HeldBy(Writer) /\ UNCHANGED <<pipe, text>>
  /\ UNCHANGED <<plan, pc, child, left, arrived, answer, meant>>

(* Reads until nobody is left who writes.                                    *)
ReaderStep(thread, place) ==
  /\ HeldBy(thread) # {}
  /\ IF pipe[place] # <<>>
     THEN /\ arrived' = [arrived EXCEPT ![place] = Append(@, Head(pipe[place]))]
          /\ pipe' = [pipe EXCEPT ![place] = Tail(@)] /\ UNCHANGED held
     ELSE ~Has(place, "write") /\ held' = held \ HeldBy(thread) /\ UNCHANGED <<pipe, arrived>>
  /\ UNCHANGED <<plan, pc, text, child, left, answer, meant>>

----------------------------------------------------------------------------
(* The commands: each reads to the end of its input, writes what it has and  *)
(* ends, in any order.                                                       *)
Exits(i) ==
  /\ child[i].at = "free"
  /\ \E status \in {"ok", "failed"} : child' = [child EXCEPT ![i].at = "ended", ![i].status = status]
  /\ held' = held \ HeldBy(i)
  /\ UNCHANGED <<plan, pc, pipe, text, left, arrived, answer, meant>>

Stuck(i, what, place) ==
  /\ child[i].at = "free" /\ place \in Pipes
  /\ IF what = "read" THEN ~child[i].eof /\ pipe[place] = <<>> /\ Has(place, "write") /\ UNCHANGED left
     ELSE left > 0 /\ Len(pipe[place]) = Capacity /\ Has(place, "read") /\ left' = left - 1
  /\ child' = [child EXCEPT ![i].at = what]
  /\ UNCHANGED <<plan, pc, held, pipe, text, arrived, answer, meant>>

ReadsFrom(i, place) ==
  /\ child[i].at \in {"free", "read"} /\ ~child[i].eof
  /\ IF pipe[place] # <<>>
     THEN pipe' = [pipe EXCEPT ![place] = Tail(@)] /\ child' = [child EXCEPT ![i].at = "free"]
     ELSE /\ ~Has(place, "write") /\ UNCHANGED pipe
          /\ child' = [child EXCEPT ![i].at = "free", ![i].eof = TRUE]
  /\ UNCHANGED <<plan, pc, held, text, left, arrived, answer, meant>>

(* With no reader left it is killed.                                         *)
WritesTo(i, stream, place) ==
  /\ child[i].at = stream \/ (child[i].at = "free" /\ left > 0)
  /\ IF place \in Pipes /\ ~Has(place, "read")
     THEN /\ child' = [child EXCEPT ![i].at = "ended", ![i].status = "broken"]
          /\ held' = held \ HeldBy(i) /\ UNCHANGED <<pipe, left, arrived, meant>>
     ELSE /\ child' = [child EXCEPT ![i].at = "free"]
          /\ left' = IF child[i].at = "free" THEN left - 1 ELSE left
          /\ meant' = [meant EXCEPT ![MeantFor(i, stream)] = Append(@, <<i, stream>>)]
          /\ IF place \in Pipes
             THEN /\ Len(pipe[place]) < Capacity
                  /\ pipe' = [pipe EXCEPT ![place] = Append(@, <<i, stream>>)] /\ UNCHANGED arrived
             ELSE arrived' = [arrived EXCEPT ![place] = Append(@, <<i, stream>>)] /\ UNCHANGED pipe
          /\ UNCHANGED held
  /\ UNCHANGED <<plan, pc, text, answer>>

ChildStep(i) ==
  /\ Running(i)
  /\ \/ Exits(i)
     \/ ReadsFrom(i, StdinOf(i)) \/ Stuck(i, "read", StdinOf(i))
     \/ WritesTo(i, "out", StdoutOf(i)) \/ Stuck(i, "out", StdoutOf(i))
     \/ WritesTo(i, "err", StderrOf(i)) \/ Stuck(i, "err", StderrOf(i))

----------------------------------------------------------------------------
Init ==
  /\ plan \in Plans /\ pc = "spawn"
  /\ held = Opened(plan) \X {"read", "write"} \X {Exec}
  /\ pipe = [p \in Pipes |-> <<>>] /\ text = Text /\ child = <<>> /\ left = MaxWrites
  /\ arrived = [p \in Places |-> <<>>] /\ meant = [p \in Places |-> <<>>]
  /\ answer = [kind |-> "none", text |-> <<>>]

Next ==
  \/ ExecStep \/ WriterStep
  \/ ReaderStep(OutReader, Out) \/ ReaderStep(ErrReader, Err)
  \/ \E i \in Stages : ChildStep(i)

Fairness ==
  /\ WF_vars(ExecStep) /\ WF_vars(WriterStep)
  /\ WF_vars(ReaderStep(OutReader, Out)) /\ WF_vars(ReaderStep(ErrReader, Err))
  /\ \A i \in Stages : WF_vars(ChildStep(i))

Spec == Init /\ [][Next]_vars /\ Fairness

----------------------------------------------------------------------------
TypeOK ==
  /\ plan \in Plans /\ pc \in {"spawn", "wait", "join", "done"}
  /\ held \subseteq Pipes \X {"read", "write"} \X (Stages \cup Threads \cup {Exec})
  /\ \A p \in Pipes : Len(pipe[p]) <= Capacity
  /\ text \in 0 .. Text /\ left \in 0 .. MaxWrites
  /\ \A i \in DOMAIN child : child[i] \in Command
  /\ DOMAIN arrived = Places /\ DOMAIN meant = Places

Finished == pc = "done" /\ ~plan.background /\ answer.kind # "refused"

(* A command that failed and wrote no error: the answer is a message that    *)
(* stands in the place of what was written.                                  *)
Silent == Failed /\ arrived[Err] = <<>> /\ "status" \notin Departures

(* What the commands write comes to the place their redirections name, all   *)
(* of it and in the order it was written, whoever ends first: at once for    *)
(* files and the interpreter's streams, in the answer and the channels when  *)
(* `exec` answers.  The last command is not killed for want of a reader, and *)
(* the first finds the end of its input only after the whole text.           *)
Told ==
  /\ TypeOK
  /\ \A p \in Places \ (Pipes \cup {Own("channel"), Own("errchannel")}) : arrived[p] = meant[p]
  /\ \A p \in {Own("channel"), Own("errchannel")} : Finished => arrived[p] = meant[p]
  /\ Finished => Silent \/ answer.text = meant[Out] \o meant[Err]
  /\ Len(child) = plan.last /\ pc # "spawn" => child[plan.last].status # "broken"
  /\ \A i \in DOMAIN child : child[i].eof /\ StdinOf(i) = In => text = 0 /\ pipe[In] = <<>>

(* When `exec` answers, or gives up, all it started were waited for, and no  *)
(* end of a pipe is held by anybody.                                         *)
NobodyLeft ==
  pc = "done" /\ ~plan.background =>
    held = {} /\ \A i \in DOMAIN child : child[i].at = "reaped"

(* `exec` answers, if commands end that get their input and are rid of their *)
(* output: no pipe fills up that only somebody drains who waits.             *)
ExecAnswers == <>(pc = "done")
=============================================================================
