---------------------------- MODULE ProcessesProofs ----------------------------
(***************************************************************************)
(* Proofs about Processes, for any number of commands, writes and text and *)
(* pipes of any capacity, in whatever order commands and threads run.      *)
(***************************************************************************)
EXTENDS Processes, SequenceTheorems, TLAPS

-----------------------------------------------------------------------------
(* Places, plans and who holds which end.                                     *)
Holders == Stages \cup Threads \cup {Exec}
Direct  == {Own("stdout"), Own("stderr"), Own("file"), Own("errfile")}

LEMMA PlacesDiffer ==
  /\ In # Out /\ In # Err /\ Out # Err
  /\ \A i : Between(i) \notin {In, Out, Err}
  /\ \A i, j : Between(i) = Between(j) => i = j
  /\ \A name \in {"stdout", "stderr", "stdin", "file", "errfile", "channel", "errchannel"} : Own(name) \notin Pipes
  /\ Own("channel") # Own("errchannel")
  /\ Own("channel") \notin Direct /\ Own("errchannel") \notin Direct
  /\ In \in Pipes /\ Out \in Pipes /\ Err \in Pipes
  /\ Pipes \subseteq Places /\ Direct \subseteq Places /\ Direct \cap Pipes = {}
  /\ Own("channel") \in Places /\ Own("errchannel") \in Places
  /\ \A i \in Stages : Between(i) \in Pipes
BY DEF In, Out, Err, Between, Own, Pipes, Places, Direct

LEMMA HoldersDiffer ==
  /\ Writer # OutReader /\ Writer # ErrReader /\ OutReader # ErrReader
  /\ Exec \notin Threads /\ Exec \notin Stages /\ Stages \cap Threads = {}
  /\ Threads = {Writer, OutReader, ErrReader} /\ Stages \subseteq Nat \ {0} /\ Exec = 0
BY DEF Writer, OutReader, ErrReader, Exec, Threads, Stages

Holds(x, side, h) == <<x, side, h>> \in held

LEMMA Dropped ==
  ASSUME NEW k, NEW x, NEW side, NEW h
  PROVE  <<x, side, h>> \in held \ HeldBy(k) <=> Holds(x, side, h) /\ h # k
BY DEF HeldBy, Holds

LEMMA HasEnd ==
  ASSUME held \subseteq Pipes \X {"read", "write"} \X Holders, NEW x, NEW side
  PROVE  Has(x, side) <=> \E h \in Holders : Holds(x, side, h)
<1>1. ASSUME NEW e \in held PROVE e = <<e[1], e[2], e[3]>> /\ e[3] \in Holders
  BY <1>1
<1>2. ASSUME Has(x, side) PROVE \E h \in Holders : Holds(x, side, h)
  BY <1>1, <1>2 DEF Has, Holds
<1>3. ASSUME NEW h \in Holders, Holds(x, side, h) PROVE Has(x, side)
  <2>1. <<x, side, h>>[1] = x /\ <<x, side, h>>[2] = side
    OBVIOUS
  <2> QED BY <1>3, <2>1 DEF Has, Holds
<1> QED BY <1>2, <1>3

LEMMA EndOf ==
  ASSUME NEW x, NEW side, NEW k, NEW y, NEW s, NEW h
  PROVE  <<y, s, h>> \in End(x, side, k) <=> y = x /\ x \in Pipes /\ s = side /\ h = k
BY DEF End
-----------------------------------------------------------------------------
(* Who holds what: what runs, its ends; the threads, theirs; the interpreter, *)
(* while it starts commands, those it opened and the next command's input.    *)
EndsTyped ==
  /\ plan \in Plans /\ pc \in {"spawn", "wait", "join", "done"}
  /\ held \subseteq Pipes \X {"read", "write"} \X Holders
  /\ child \in Seq(Command) /\ Len(child) <= plan.last
  /\ pc \in {"wait", "join"} => Len(child) = plan.last

Gives(x, side, i) ==
  \/ x = StdinOf(i) /\ side = "read"
  \/ x = StdoutOf(i) /\ side = "write"
  \/ x = StderrOf(i) /\ side = "write"

HeldByCommands ==
  /\ \A x, side : \A i \in Stages : Holds(x, side, i) => Running(i) /\ Gives(x, side, i)
  /\ \A x \in Pipes : \A side : \A i \in Stages : Running(i) /\ Gives(x, side, i) => Holds(x, side, i)

HeldByThreads ==
  /\ \A x, side : /\ Holds(x, side, Writer)    => x = In /\ side = "write"
                  /\ Holds(x, side, OutReader) => x = Out /\ side = "read"
                  /\ Holds(x, side, ErrReader) => x = Err /\ side = "read"
  /\ pc = "spawn" => \A x, side : \A t \in Threads : ~Holds(x, side, t)

HeldByExec ==
  /\ pc # "spawn" => \A x, side : ~Holds(x, side, Exec)
  /\ pc = "spawn" =>
       /\ \A x, side : Holds(x, side, Exec) =>
            \/ x \in Opened(plan) /\ (x = In /\ side = "read" => child = <<>>)
            \/ x = Between(Len(child)) /\ side = "read" /\ Len(child) < plan.last /\ Len(child) > 0
       /\ \A x \in Opened(plan), side \in {"read", "write"} : x # In \/ side = "write" => Holds(x, side, Exec)

WaitedFor ==
  /\ pc = "join" => \A i \in DOMAIN child : child[i].at = "reaped"
  /\ NobodyLeft

Ends == EndsTyped /\ HeldByCommands /\ HeldByThreads /\ HeldByExec /\ WaitedFor

LEMMA Planned ==
  ASSUME EndsTyped
  PROVE  /\ plan \in Plan /\ plan.last \in Stages /\ Opened(plan) \subseteq {In, Out, Err}
         /\ Len(child) \in Nat /\ DOMAIN child = 1 .. Len(child) /\ DOMAIN child \subseteq Stages
         /\ \A i \in DOMAIN child : child[i] \in Command
<1>1. plan \in Plan /\ plan.last \in Stages
  BY DEF EndsTyped, Plans, Plan
<1>2. Len(child) \in Nat /\ DOMAIN child = 1 .. Len(child) /\ \A i \in DOMAIN child : child[i] \in Command
  BY DEF EndsTyped
<1>3. DOMAIN child \subseteq Stages
  BY <1>1, <1>2, ProcessesAssumption DEF EndsTyped, Stages
<1> QED BY <1>1, <1>2, <1>3 DEF Opened

LEMMA InitEnds == Init => Ends
<1> SUFFICES ASSUME Init PROVE Ends
  OBVIOUS
<1>1. plan \in Plans /\ plan.last \in Stages /\ Opened(plan) \subseteq {In, Out, Err}
  BY DEF Init, Plans, Plan, Opened
<1>2. child = <<>> /\ child \in Seq(Command) /\ Len(child) = 0 /\ pc = "spawn"
  BY DEF Init
<1>3. held = Opened(plan) \X {"read", "write"} \X {Exec}
  BY DEF Init
<1>4. \A x, side, h : Holds(x, side, h) <=> x \in Opened(plan) /\ side \in {"read", "write"} /\ h = Exec
  BY <1>3 DEF Holds
<1>5. EndsTyped
  <2>1. held \subseteq Pipes \X {"read", "write"} \X Holders
    BY <1>1, <1>3, PlacesDiffer DEF Holders
  <2>2. Len(child) <= plan.last
    <3>1. plan.last \in Nat
      BY <1>1, HoldersDiffer
    <3> QED BY <1>2, <3>1
  <2> QED BY <1>1, <1>2, <2>1, <2>2 DEF EndsTyped
<1>6. HeldByCommands
  BY <1>2, <1>4, HoldersDiffer DEF HeldByCommands, Running
<1>7. HeldByThreads
  BY <1>4, HoldersDiffer DEF HeldByThreads
<1>8. HeldByExec
  BY <1>2, <1>4 DEF HeldByExec
<1>9. WaitedFor
  BY <1>2 DEF WaitedFor, NobodyLeft
<1> QED BY <1>5, <1>6, <1>7, <1>8, <1>9 DEF Ends

LEMMA SpawnEnds ==
  ASSUME Ends, Spawn
  PROVE  Ends'
<1> DEFINE n == Len(child)
           i == n + 1
           c == [at |-> "free", eof |-> StdinOf(i) = Own("stdin"), status |-> "ok"]
<1>1. /\ plan \in Plan /\ plan.last \in Stages /\ Opened(plan) \subseteq {In, Out, Err}
      /\ n \in Nat /\ DOMAIN child = 1 .. n /\ DOMAIN child \subseteq Stages
  BY Planned DEF Ends
<1>2. i \in Stages /\ i \in Nat /\ i <= plan.last /\ i > 0
  BY <1>1, ProcessesAssumption DEF Spawn, Stages
<1>3. c \in Command /\ c.at = "free"
  BY DEF Command
<1>4. child' = Append(child, c) /\ UNCHANGED <<plan, pc>> /\ pc = "spawn"
  BY DEF Spawn
<1>5. /\ child' \in Seq(Command) /\ Len(child') = i /\ DOMAIN child' = 1 .. i /\ child'[i] = c
      /\ \A j \in 1 .. n : child'[j] = child[j]
  <2> HIDE DEF c
  <2> QED BY <1>1, <1>3, <1>4 DEF Ends, EndsTyped
<1>6. \A j \in Stages : Running(j)' <=> Running(j) \/ j = i
  <2>1. \A j \in Stages : j \in DOMAIN child' <=> j \in DOMAIN child \/ j = i
    BY <1>1, <1>2, <1>5, HoldersDiffer
  <2>2. i \notin DOMAIN child
    BY <1>1
  <2> QED BY <1>1, <1>3, <1>5, <2>1, <2>2 DEF Running
<1>7. \A j : UNCHANGED <<StdinOf(j), StdoutOf(j), StderrOf(j)>>
  BY <1>4 DEF StdinOf, StdoutOf, StderrOf
<1>8. \A x, side, h :
        Holds(x, side, h)' <=>
          \/ Holds(x, side, h) /\ ~(x = StdinOf(i) /\ StdinOf(i) \in Pipes /\ side = "read" /\ h = Exec)
          \/ x \in Pipes /\ Gives(x, side, i) /\ h = i
          \/ i < plan.last /\ x = Between(i) /\ x \in Pipes /\ side = "read" /\ h = Exec
  <2> DEFINE taken == End(StdinOf(i), "read", i) \cup End(StdoutOf(i), "write", i) \cup End(StderrOf(i), "write", i)
             ahead == IF i < plan.last THEN End(Between(i), "read", Exec) ELSE {}
  <2>1. held' = (held \ End(StdinOf(i), "read", Exec)) \cup taken \cup ahead
    BY DEF Spawn
  <2> HIDE DEF i
  <2> SUFFICES ASSUME NEW x, NEW side, NEW h
               PROVE  Holds(x, side, h)' <=>
                        \/ Holds(x, side, h) /\ ~(x = StdinOf(i) /\ StdinOf(i) \in Pipes /\ side = "read" /\ h = Exec)
                        \/ x \in Pipes /\ Gives(x, side, i) /\ h = i
                        \/ i < plan.last /\ x = Between(i) /\ x \in Pipes /\ side = "read" /\ h = Exec
    OBVIOUS
  <2> DEFINE e == <<x, side, h>>
  <2>2. /\ e \in End(StdinOf(i), "read", i) <=> x = StdinOf(i) /\ StdinOf(i) \in Pipes /\ side = "read" /\ h = i
        /\ e \in End(StdoutOf(i), "write", i) <=> x = StdoutOf(i) /\ StdoutOf(i) \in Pipes /\ side = "write" /\ h = i
        /\ e \in End(StderrOf(i), "write", i) <=> x = StderrOf(i) /\ StderrOf(i) \in Pipes /\ side = "write" /\ h = i
        /\ e \in End(StdinOf(i), "read", Exec) <=> x = StdinOf(i) /\ StdinOf(i) \in Pipes /\ side = "read" /\ h = Exec
        /\ e \in End(Between(i), "read", Exec) <=> x = Between(i) /\ Between(i) \in Pipes /\ side = "read" /\ h = Exec
    BY EndOf
  <2> HIDE DEF e
  <2>3. e \in taken <=> x \in Pipes /\ Gives(x, side, i) /\ h = i
    BY <2>2 DEF Gives
  <2>4. e \in ahead <=> i < plan.last /\ x = Between(i) /\ x \in Pipes /\ side = "read" /\ h = Exec
    BY <2>2
  <2> HIDE DEF taken, ahead
  <2>5. e \in held' <=> \/ e \in held /\ ~(e \in End(StdinOf(i), "read", Exec))
                       \/ e \in taken \/ e \in ahead
    BY <2>1
  <2> QED BY <2>2, <2>3, <2>4, <2>5 DEF Holds, e
<1>9. \A side : side \in {"read", "write"} \/ ~\E x : Gives(x, side, i)
  BY DEF Gives
<1> HIDE DEF i, c
<1>10. EndsTyped'
  <2>1. held' \subseteq Pipes \X {"read", "write"} \X Holders
    <3>1. \A e \in held' : e = <<e[1], e[2], e[3]>>
      BY DEF Ends, EndsTyped, Spawn, End
    <3>2. \A x, side, h : Holds(x, side, h)' => x \in Pipes /\ side \in {"read", "write"} /\ h \in Holders
      <4>1. \A x, side, h : Holds(x, side, h) => x \in Pipes /\ side \in {"read", "write"} /\ h \in Holders
        BY DEF Ends, EndsTyped, Holds
      <4> QED BY <1>2, <1>8, <1>9, <4>1 DEF Holders
    <3> QED BY <3>1, <3>2 DEF Holds
  <2> QED BY <1>2, <1>4, <1>5, <2>1 DEF Ends, EndsTyped
<1>11. HeldByCommands'
  BY <1>2, <1>6, <1>7, <1>8, HoldersDiffer DEF Ends, HeldByCommands, Gives
<1>12. HeldByThreads'
  BY <1>2, <1>4, <1>8, HoldersDiffer DEF Ends, HeldByThreads
<1>13. HeldByExec'
  <2>1. StdinOf(i) = IF n > 0 THEN Between(n) ELSE IF plan.stdin = "text" THEN In ELSE Own("stdin")
    BY <1>1 DEF StdinOf, i
  <2>2. In \in Opened(plan) => plan.stdin = "text"
    BY PlacesDiffer DEF Opened
  <2>3. child = <<>> <=> n = 0
    BY <1>1 DEF Ends, EndsTyped
  <2>4. ASSUME NEW x, NEW side, Holds(x, side, Exec)'
        PROVE  \/ x \in Opened(plan) /\ (x = In /\ side = "read" => child' = <<>>)
               \/ x = Between(Len(child')) /\ side = "read" /\ Len(child') < plan.last /\ Len(child') > 0
    <3>1. CASE i < plan.last /\ x = Between(i) /\ side = "read"
      BY <1>2, <1>5, <3>1
    <3>2. CASE Holds(x, side, Exec) /\ ~(x = StdinOf(i) /\ StdinOf(i) \in Pipes /\ side = "read")
      <4>1. x \in Pipes
        BY <3>2 DEF Ends, EndsTyped, Holds
      <4>2. ~(x = StdinOf(i) /\ side = "read")
        BY <3>2, <4>1
      <4>3. \/ x \in Opened(plan) /\ (x = In /\ side = "read" => child = <<>>)
            \/ x = Between(n) /\ side = "read" /\ n > 0
        BY <1>4, <3>2 DEF Ends, HeldByExec
      <4>4. ~(x = In /\ side = "read" /\ x \in Opened(plan) /\ n = 0)
        BY <2>1, <2>2, <4>2
      <4> QED BY <2>1, <2>3, <4>2, <4>3, <4>4
    <3> QED BY <1>2, <1>8, <2>4, <3>1, <3>2, HoldersDiffer
  <2>5. ASSUME NEW x \in Opened(plan), NEW side \in {"read", "write"}, x # In \/ side = "write"
        PROVE  Holds(x, side, Exec)'
    <3>1. Holds(x, side, Exec)
      BY <1>4, <2>5 DEF Ends, HeldByExec
    <3>2. ~(x = StdinOf(i) /\ side = "read" /\ StdinOf(i) \in Pipes)
      BY <1>1, <2>1, <2>5, PlacesDiffer
    <3> QED BY <1>8, <3>1, <3>2
  <2> QED BY <1>4, <2>4, <2>5 DEF HeldByExec
<1>14. WaitedFor'
  BY <1>4 DEF WaitedFor, NobodyLeft
<1> QED BY <1>10, <1>11, <1>12, <1>13, <1>14 DEF Ends

(* A step that leaves plan and phase alone, by which `gone` let go of their   *)
(* ends and which lets nobody else stop to run.                               *)
LEMMA StepEnds ==
  ASSUME Ends, UNCHANGED <<plan, pc>>, NEW gone \in SUBSET (Stages \cup Threads),
         held' = {e \in held : e[3] \notin gone},
         child' \in Seq(Command), Len(child') = Len(child),
         \A j \in Stages : Running(j)' <=> Running(j) /\ j \notin gone,
         \A j \in DOMAIN child : child[j].at = "reaped" => child'[j].at = "reaped"
  PROVE  Ends'
<1>1. \A x, side, h : Holds(x, side, h)' <=> Holds(x, side, h) /\ h \notin gone
  BY DEF Holds
<1>2. \A j : UNCHANGED <<StdinOf(j), StdoutOf(j), StderrOf(j)>>
  BY DEF StdinOf, StdoutOf, StderrOf
<1>3. DOMAIN child' = DOMAIN child
  BY Planned DEF Ends, EndsTyped
<1>4. EndsTyped'
  BY DEF Ends, EndsTyped
<1>5. HeldByCommands'
  BY <1>1, <1>2 DEF Ends, HeldByCommands, Gives
<1>6. HeldByThreads'
  BY <1>1 DEF Ends, HeldByThreads
<1>7. child' = <<>> <=> child = <<>>
  BY <1>3, <1>4 DEF Ends, EndsTyped
<1>8. HeldByExec'
  BY <1>1, <1>7, HoldersDiffer DEF Ends, HeldByExec
<1>9. WaitedFor'
  BY <1>3 DEF Ends, WaitedFor, NobodyLeft
<1> QED BY <1>4, <1>5, <1>6, <1>8, <1>9 DEF Ends

(* What a step makes of one command.                                          *)
LEMMA Changed ==
  ASSUME EndsTyped, NEW i \in Stages, NEW c, child' = [child EXCEPT ![i] = c],
         i \in DOMAIN child => c \in Command
  PROVE  /\ child' \in Seq(Command) /\ Len(child') = Len(child) /\ DOMAIN child' = DOMAIN child
         /\ i \in DOMAIN child => child'[i] = c
         /\ \A j \in DOMAIN child : j # i => child'[j] = child[j]
<1>1. child \in Seq(Command)
  BY DEF EndsTyped
<1>2. DOMAIN child' = DOMAIN child /\ \A j \in DOMAIN child : child'[j] = IF j = i THEN c ELSE child[j]
  OBVIOUS
<1>3. CASE i \in DOMAIN child
  <2>1. child' \in Seq(Command) /\ Len(child') = Len(child)
    BY <1>1, <1>3
  <2> QED BY <1>2, <1>3, <2>1
<1>4. CASE i \notin DOMAIN child
  <2>1. child' = child
    BY <1>1, <1>4
  <2> QED BY <1>1, <1>2, <1>4, <2>1
<1> QED BY <1>3, <1>4

LEMMA SpawnFailsEnds ==
  ASSUME "descriptors" \notin Departures, Ends, SpawnFails
  PROVE  Ends'
<1>1. /\ held' = {} /\ child' = Reaped /\ UNCHANGED plan /\ pc' = "done"
  BY DEF SpawnFails, GivenUp
<1>2. /\ plan.last \in Nat /\ DOMAIN child = 1 .. Len(child) /\ Len(child) \in Nat
      /\ \A i \in DOMAIN child : child[i] \in Command
  BY Planned, HoldersDiffer DEF Ends
<1>3. ASSUME NEW i \in DOMAIN child
      PROVE  Ended(child[i], "reaped") \in Command /\ Ended(child[i], "reaped").at = "reaped"
  BY <1>2 DEF Ended, Command
<1>4. child' \in Seq(Command) /\ DOMAIN child' = DOMAIN child /\ Len(child') = Len(child)
  BY <1>1, <1>2, <1>3 DEF Reaped
<1>5. \A i \in DOMAIN child' : child'[i].at = "reaped"
  BY <1>1, <1>3, <1>4 DEF Reaped
<1>6. \A x, side, h : ~Holds(x, side, h)'
  BY <1>1 DEF Holds
<1>7. EndsTyped'
  BY <1>1, <1>4 DEF Ends, EndsTyped
<1>8. HeldByCommands'
  BY <1>5, <1>6 DEF HeldByCommands, Running
<1> QED BY <1>1, <1>5, <1>6, <1>7, <1>8 DEF Ends, HeldByThreads, HeldByExec, WaitedFor, NobodyLeft

LEMMA WaitEnds ==
  ASSUME Ends, Wait
  PROVE  Ends'
<1>1. UNCHANGED <<plan, held>> /\ pc = "wait"
  BY DEF Wait
<1>2. /\ DOMAIN child = 1 .. Len(child) /\ Len(child) \in Nat
      /\ DOMAIN child \subseteq Stages /\ \A j \in DOMAIN child : child[j] \in Command
  BY Planned DEF Ends
<1>6. CASE (\A j \in DOMAIN child : child[j].at = "reaped") /\ pc' = "join" /\ UNCHANGED child
  <2>2. /\ \A x, side, h : Holds(x, side, h)' <=> Holds(x, side, h)
        /\ \A j : UNCHANGED <<StdinOf(j), StdoutOf(j), StderrOf(j), Running(j)>>
    BY <1>1, <1>6 DEF Holds, StdinOf, StdoutOf, StderrOf, Running
  <2>3. EndsTyped'
    BY <1>1, <1>6 DEF Ends, EndsTyped
  <2>4. HeldByCommands'
    BY <2>2 DEF Ends, HeldByCommands, Gives
  <2> QED BY <1>1, <1>6, <2>2, <2>3, <2>4 DEF Ends, HeldByThreads, HeldByExec, WaitedFor, NobodyLeft
<1>7. ASSUME NEW i \in DOMAIN child, child[i].at = "ended", UNCHANGED pc,
             child' = [child EXCEPT ![i].at = "reaped"]
      PROVE  Ends'
  <2>1. i \in DOMAIN child /\ i \in Stages
    BY <1>2
  <2> DEFINE c == [child[i] EXCEPT !.at = "reaped"]
  <2>2. c \in Command /\ c.at = "reaped"
    BY <1>2, <2>1 DEF Command
  <2>3. child' = [child EXCEPT ![i] = c]
    BY <1>7
  <2> HIDE DEF c
  <2>4. /\ child' \in Seq(Command) /\ Len(child') = Len(child) /\ DOMAIN child' = DOMAIN child
        /\ child'[i] = c /\ \A j \in DOMAIN child : j # i => child'[j] = child[j]
    BY <2>1, <2>2, <2>3, Changed DEF Ends
  <2>5. \A j \in Stages : Running(j)' <=> Running(j) /\ j \notin {}
    BY <1>7, <2>2, <2>4 DEF Running
  <2>6. \A j \in DOMAIN child : child[j].at = "reaped" => child'[j].at = "reaped"
    BY <2>2, <2>4
  <2>7. held' = {e \in held : e[3] \notin {}}
    BY <1>1
  <2>8. UNCHANGED <<plan, pc>> /\ {} \in SUBSET (Stages \cup Threads)
    BY <1>1, <1>7
  <2> QED BY <2>4, <2>5, <2>6, <2>7, <2>8, StepEnds
<1> QED BY <1>6, <1>7 DEF Wait

(* Everybody let go: nobody runs and the threads are through.                 *)
LEMMA NobodyHolds ==
  ASSUME Ends, pc = "join", Joined
  PROVE  held = {} /\ \A i \in DOMAIN child : child[i].at = "reaped"
<1>1. \A i \in DOMAIN child : child[i].at = "reaped"
  BY DEF Ends, WaitedFor
<1>2. ASSUME NEW x, NEW side, NEW h \in Holders, Holds(x, side, h) PROVE FALSE
  <2>1. CASE h \in Stages
    BY <1>1, <1>2, <2>1 DEF Ends, HeldByCommands, Running
  <2>2. CASE h \in Threads
    <3>1. <<x, side, h>> \in HeldBy(h)
      BY <1>2 DEF HeldBy, Holds
    <3> QED BY <2>2, <3>1 DEF Joined
  <2>3. CASE h = Exec
    BY <1>2, <2>3 DEF Ends, HeldByExec
  <2> QED BY <2>1, <2>2, <2>3 DEF Holders
<1>3. held = {}
  BY <1>2 DEF Ends, EndsTyped, Holds
<1> QED BY <1>1, <1>3

LEMMA AnswerEnds ==
  ASSUME Ends, Answer
  PROVE  Ends'
<1>1. pc = "join" /\ pc' = "done" /\ UNCHANGED <<plan, held, child>>
  BY DEF Answer
<1>2. held = {} /\ \A i \in DOMAIN child : child[i].at = "reaped"
  BY NobodyHolds DEF Answer
<1>3. \A x, side, h : ~Holds(x, side, h)'
  BY <1>1, <1>2 DEF Holds
<1>4. EndsTyped'
  BY <1>1 DEF Ends, EndsTyped
<1>5. HeldByCommands'
  BY <1>1, <1>2, <1>3 DEF HeldByCommands, Running
<1> QED BY <1>1, <1>2, <1>3, <1>4, <1>5 DEF Ends, HeldByThreads, HeldByExec, WaitedFor, NobodyLeft

LEMMA HandedOver ==
  ASSUME Ends, NEW x, NEW side, NEW h
  PROVE  <<x, side, h>> \in Handed <=>
           /\ Holds(x, side, Exec) /\ (x = In <=> side = "write")
           /\ h = CASE x = In -> Writer [] x = Out -> OutReader [] x = Err -> ErrReader
<1> DEFINE who(e) == CASE e[1] = In -> Writer [] e[1] = Out -> OutReader [] e[1] = Err -> ErrReader
           mine == {e \in HeldBy(Exec) : e[1] = In <=> e[2] = "write"}
<1>1. Handed = {<<e[1], e[2], who(e)>> : e \in mine}
  BY DEF Handed
<1>2. ASSUME NEW e \in mine PROVE e = <<e[1], e[2], Exec>>
  BY DEF HeldBy, Ends, EndsTyped
<1>3. <<x, side, Exec>> \in mine <=> Holds(x, side, Exec) /\ (x = In <=> side = "write")
  BY DEF HeldBy, Holds
<1>4. who(<<x, side, Exec>>) = CASE x = In -> Writer [] x = Out -> OutReader [] x = Err -> ErrReader
  OBVIOUS
<1> HIDE DEF mine
<1>5. ASSUME <<x, side, h>> \in Handed
      PROVE  <<x, side, Exec>> \in mine /\ h = who(<<x, side, Exec>>)
  <2>1. PICK e \in mine : <<x, side, h>> = <<e[1], e[2], who(e)>>
    BY <1>1, <1>5
  <2>2. x = e[1] /\ side = e[2] /\ h = who(e)
    <3> HIDE DEF who
    <3> QED BY <2>1
  <2> QED BY <1>2, <2>2
<1>6. ASSUME <<x, side, Exec>> \in mine, h = who(<<x, side, Exec>>)
      PROVE  <<x, side, h>> \in Handed
  <2> DEFINE e == <<x, side, Exec>>
  <2>1. e \in mine /\ h = who(e) /\ e[1] = x /\ e[2] = side
    BY <1>6
  <2> HIDE DEF e, who
  <2> QED BY <1>1, <2>1
<1> QED BY <1>3, <1>4, <1>5, <1>6

LEMMA ReleaseEnds ==
  ASSUME Ends, Release
  PROVE  Ends'
<1>1. /\ pc = "spawn" /\ Len(child) = plan.last /\ UNCHANGED <<plan, child>>
      /\ pc' \in {"wait", "done"} /\ (pc' = "done" => plan.background)
      /\ held' = Kept \/ held' = Kept \cup Handed
  BY DEF Release
<1>2. /\ plan.last \in Nat \ {0} /\ Opened(plan) \subseteq {In, Out, Err} /\ child # <<>>
  BY <1>1, Planned, HoldersDiffer DEF Ends
<1>3. \A x, side, h : <<x, side, h>> \in Kept <=> Holds(x, side, h) /\ h # Exec
  BY Dropped DEF Kept
<1>4. ASSUME NEW x, NEW side, NEW h, <<x, side, h>> \in Handed
      PROVE  /\ x \in Pipes /\ side \in {"read", "write"}
             /\ \/ x = In /\ side = "write" /\ h = Writer
                \/ x = Out /\ side = "read" /\ h = OutReader
                \/ x = Err /\ side = "read" /\ h = ErrReader
  <2>1. /\ Holds(x, side, Exec) /\ (x = In <=> side = "write")
        /\ h = CASE x = In -> Writer [] x = Out -> OutReader [] x = Err -> ErrReader
    BY <1>4, HandedOver
  <2>2. x \in Pipes /\ side \in {"read", "write"}
    BY <2>1 DEF Ends, EndsTyped, Holds
  <2>3. x \in Opened(plan)
    BY <1>1, <2>1, <1>2 DEF Ends, HeldByExec
  <2> QED BY <1>2, <2>1, <2>2, <2>3, PlacesDiffer
<1>5. ASSUME NEW x, NEW side, NEW h, Holds(x, side, h)'
      PROVE  \/ Holds(x, side, h) /\ h # Exec
             \/ x = In /\ side = "write" /\ h = Writer
             \/ x = Out /\ side = "read" /\ h = OutReader
             \/ x = Err /\ side = "read" /\ h = ErrReader
  <2>1. <<x, side, h>> \in Kept \/ <<x, side, h>> \in Handed
    BY <1>1, <1>5 DEF Holds
  <2>2. CASE <<x, side, h>> \in Kept
    BY <1>3, <2>2
  <2>3. CASE <<x, side, h>> \in Handed
    BY <1>4, <2>3
  <2> QED BY <2>1, <2>2, <2>3
<1>6. \A x, side, h : Holds(x, side, h) /\ h # Exec => Holds(x, side, h)'
  BY <1>1, <1>3 DEF Holds
<1>7. \A j : UNCHANGED <<StdinOf(j), StdoutOf(j), StderrOf(j), Running(j)>>
  BY <1>1 DEF StdinOf, StdoutOf, StderrOf, Running
<1>8. EndsTyped'
  <2>1. \A e \in held' : e = <<e[1], e[2], e[3]>>
    BY <1>1 DEF Ends, EndsTyped, Kept, Handed
  <2>2. \A x, side, h : Holds(x, side, h)' => x \in Pipes /\ side \in {"read", "write"} /\ h \in Holders
    <3>1. \A x, side, h : Holds(x, side, h) => x \in Pipes /\ side \in {"read", "write"} /\ h \in Holders
      BY DEF Ends, EndsTyped, Holds
    <3> QED BY <1>5, <3>1, PlacesDiffer DEF Holders, Threads
  <2>3. held' \subseteq Pipes \X {"read", "write"} \X Holders
    BY <2>1, <2>2 DEF Holds
  <2> QED BY <1>1, <2>3 DEF Ends, EndsTyped
<1>9. HeldByCommands'
  <2>1. \A x, side : \A j \in Stages : Holds(x, side, j)' <=> Holds(x, side, j)
    BY <1>5, <1>6, HoldersDiffer
  <2> QED BY <1>7, <2>1 DEF Ends, HeldByCommands, Gives
<1>10. HeldByThreads'
  BY <1>1, <1>5, HoldersDiffer DEF Ends, HeldByThreads
<1>11. HeldByExec'
  BY <1>1, <1>5, HoldersDiffer DEF HeldByExec
<1>12. WaitedFor'
  BY <1>1 DEF WaitedFor, NobodyLeft
<1> QED BY <1>8, <1>9, <1>10, <1>11, <1>12 DEF Ends

LEMMA LetGo ==
  ASSUME NEW k, UNCHANGED held \/ held' = held \ HeldBy(k)
  PROVE  \E gone \in SUBSET {k} : held' = {e \in held : e[3] \notin gone}
<1>1. CASE UNCHANGED held
  <2>1. {} \in SUBSET {k} /\ held' = {e \in held : e[3] \notin {}}
    BY <1>1
  <2> DEFINE gone == {}
  <2>2. gone \in SUBSET {k} /\ held' = {e \in held : e[3] \notin gone}
    BY <2>1
  <2> HIDE DEF gone
  <2> QED BY <2>2
<1>2. CASE held' = held \ HeldBy(k)
  <2> DEFINE gone == {k}
  <2>1. gone \in SUBSET {k} /\ held' = {e \in held : e[3] \notin gone}
    BY <1>2 DEF HeldBy
  <2> HIDE DEF gone
  <2> QED BY <2>1
<1> QED BY <1>1, <1>2

LEMMA WriterEnds ==
  ASSUME Ends, WriterStep
  PROVE  Ends'
<1>1. UNCHANGED <<plan, pc>> /\ UNCHANGED child
  BY DEF WriterStep
<1>2. UNCHANGED held \/ held' = held \ HeldBy(Writer)
  BY DEF WriterStep
<1>3. PICK gone \in SUBSET {Writer} : held' = {e \in held : e[3] \notin gone}
  BY <1>2, LetGo
<1>4. gone \in SUBSET (Stages \cup Threads) /\ \A j \in Stages : j \notin gone
  BY HoldersDiffer
<1>5. \A j : Running(j)' <=> Running(j)
  BY <1>1 DEF Running
<1>6. child' \in Seq(Command) /\ Len(child') = Len(child)
  BY <1>1 DEF Ends, EndsTyped
<1> QED BY <1>1, <1>3, <1>4, <1>5, <1>6, StepEnds

LEMMA ReaderEnds ==
  ASSUME Ends, NEW thread \in Threads, NEW place, ReaderStep(thread, place)
  PROVE  Ends'
<1>1. UNCHANGED <<plan, pc>> /\ UNCHANGED child
  BY DEF ReaderStep
<1>2. UNCHANGED held \/ held' = held \ HeldBy(thread)
  BY DEF ReaderStep
<1>3. PICK gone \in SUBSET {thread} : held' = {e \in held : e[3] \notin gone}
  BY <1>2, LetGo
<1>4. gone \in SUBSET (Stages \cup Threads) /\ \A j \in Stages : j \notin gone
  BY HoldersDiffer
<1>5. \A j : Running(j)' <=> Running(j)
  BY <1>1 DEF Running
<1>6. child' \in Seq(Command) /\ Len(child') = Len(child)
  BY <1>1 DEF Ends, EndsTyped
<1> QED BY <1>1, <1>3, <1>4, <1>5, <1>6, StepEnds

(* A command that goes on, or gets stuck, or ends and with it its ends.       *)
LEMMA CommandEnds ==
  ASSUME Ends, NEW i \in Stages, Running(i), UNCHANGED <<plan, pc>>, NEW c \in Command,
         child' = [child EXCEPT ![i] = c],
         \/ UNCHANGED held /\ c.at \notin {"ended", "reaped"}
         \/ held' = held \ HeldBy(i) /\ c.at \in {"ended", "reaped"}
  PROVE  Ends'
<1> DEFINE gone == IF c.at \in {"ended", "reaped"} THEN {i} ELSE {}
<1>1. held' = {e \in held : e[3] \notin gone}
  BY DEF HeldBy
<1>2. gone \in SUBSET (Stages \cup Threads) /\ \A j : j \in gone <=> j = i /\ c.at \in {"ended", "reaped"}
  OBVIOUS
<1>3. /\ child' \in Seq(Command) /\ Len(child') = Len(child) /\ DOMAIN child' = DOMAIN child
      /\ i \in DOMAIN child => child'[i] = c
      /\ \A j \in DOMAIN child : j # i => child'[j] = child[j]
  BY Changed DEF Ends
<1> HIDE DEF gone
<1>4. \A j \in Stages : Running(j)' <=> Running(j) /\ j \notin gone
  BY <1>2, <1>3 DEF Running
<1>5. \A j \in DOMAIN child : child[j].at = "reaped" => child'[j].at = "reaped"
  BY <1>3 DEF Running
<1> QED BY <1>1, <1>2, <1>3, <1>4, <1>5, StepEnds

LEMMA ChildEnds ==
  ASSUME Ends, NEW i \in Stages, ChildStep(i)
  PROVE  Ends'
<1>1. Running(i) /\ child[i] \in Command
  BY Planned DEF ChildStep, Ends, Running
<1>2. CASE Exits(i)
  <2>1. PICK status \in {"ok", "failed"} : child' = [child EXCEPT ![i].at = "ended", ![i].status = status]
    BY <1>2 DEF Exits
  <2> DEFINE c == [child[i] EXCEPT !.at = "ended", !.status = status]
  <2>2. c \in Command /\ c.at = "ended" /\ child' = [child EXCEPT ![i] = c]
    BY <1>1, <2>1 DEF Command
  <2>3. UNCHANGED <<plan, pc>> /\ held' = held \ HeldBy(i)
    BY <1>2 DEF Exits
  <2> HIDE DEF c
  <2> QED BY <1>1, <2>2, <2>3, CommandEnds
<1>3. ASSUME NEW what \in {"read", "out", "err"}, NEW place, Stuck(i, what, place) PROVE Ends'
  <2> DEFINE c == [child[i] EXCEPT !.at = what]
  <2>1. c \in Command /\ c.at \notin {"ended", "reaped"} /\ child' = [child EXCEPT ![i] = c]
    BY <1>1, <1>3 DEF Command, Stuck
  <2>2. UNCHANGED <<plan, pc>> /\ UNCHANGED held
    BY <1>3 DEF Stuck
  <2> HIDE DEF c
  <2> QED BY <1>1, <2>1, <2>2, CommandEnds
<1>4. ASSUME NEW place, ReadsFrom(i, place) PROVE Ends'
  <2>1. PICK eof \in BOOLEAN : child' = [child EXCEPT ![i] = [child[i] EXCEPT !.at = "free", !.eof = eof]]
    <3>1. CASE child' = [child EXCEPT ![i].at = "free"]
      <4>1. [child[i] EXCEPT !.at = "free"] = [child[i] EXCEPT !.at = "free", !.eof = child[i].eof]
        BY <1>1 DEF Command
      <4>2. child[i].eof \in BOOLEAN
        BY <1>1 DEF Command
      <4> QED BY <3>1, <4>1, <4>2
    <3>2. CASE child' = [child EXCEPT ![i].at = "free", ![i].eof = TRUE]
      <4>1. child' = [child EXCEPT ![i] = [child[i] EXCEPT !.at = "free", !.eof = TRUE]]
        BY <3>2
      <4> QED BY <4>1
    <3> QED BY <1>4, <3>1, <3>2 DEF ReadsFrom
  <2> DEFINE c == [child[i] EXCEPT !.at = "free", !.eof = eof]
  <2>2. c \in Command /\ c.at = "free" /\ child' = [child EXCEPT ![i] = c]
    BY <1>1, <2>1 DEF Command
  <2>3. UNCHANGED <<plan, pc>> /\ UNCHANGED held
    BY <1>4 DEF ReadsFrom
  <2> HIDE DEF c
  <2> QED BY <1>1, <2>2, <2>3, CommandEnds
<1>5. ASSUME NEW stream, NEW place, WritesTo(i, stream, place) PROVE Ends'
  <2>1. CASE child' = [child EXCEPT ![i].at = "free"] /\ UNCHANGED held
    <3> DEFINE c == [child[i] EXCEPT !.at = "free"]
    <3>1. c \in Command /\ c.at = "free" /\ child' = [child EXCEPT ![i] = c]
      BY <1>1, <2>1 DEF Command
    <3>2. UNCHANGED <<plan, pc>> /\ UNCHANGED held
      BY <1>5, <2>1 DEF WritesTo
    <3> HIDE DEF c
    <3> QED BY <1>1, <3>1, <3>2, CommandEnds
  <2>2. CASE child' = [child EXCEPT ![i].at = "ended", ![i].status = "broken"] /\ held' = held \ HeldBy(i)
    <3> DEFINE c == [child[i] EXCEPT !.at = "ended", !.status = "broken"]
    <3>1. c \in Command /\ c.at = "ended" /\ child' = [child EXCEPT ![i] = c]
      BY <1>1, <2>2 DEF Command
    <3>2. UNCHANGED <<plan, pc>> /\ held' = held \ HeldBy(i)
      BY <1>5, <2>2 DEF WritesTo
    <3> HIDE DEF c
    <3> QED BY <1>1, <3>1, <3>2, CommandEnds
  <2> QED BY <1>5, <2>1, <2>2 DEF WritesTo
<1> QED BY <1>2, <1>3, <1>4, <1>5 DEF ChildStep

LEMMA NextEnds ==
  ASSUME "descriptors" \notin Departures, Ends, [Next]_vars
  PROVE  Ends'
<1>1. CASE ExecStep
  BY <1>1, SpawnEnds, SpawnFailsEnds, ReleaseEnds, WaitEnds, AnswerEnds DEF ExecStep
<1>2. CASE WriterStep
  BY <1>2, WriterEnds
<1>3. CASE ReaderStep(OutReader, Out) \/ ReaderStep(ErrReader, Err)
  BY <1>3, ReaderEnds DEF Threads
<1>4. ASSUME NEW i \in Stages, ChildStep(i) PROVE Ends'
  BY <1>4, ChildEnds
<1>5. CASE UNCHANGED vars
  BY <1>5 DEF vars, Ends, EndsTyped, HeldByCommands, HeldByThreads, HeldByExec, WaitedFor, NobodyLeft,
              Holds, Running, Gives, StdinOf, StdoutOf, StderrOf
<1> QED BY <1>1, <1>2, <1>3, <1>4, <1>5 DEF Next

(* When `exec` answers, or gives up, all it started were waited for and every *)
(* end of every pipe was closed, whatever the plan and however the commands   *)
(* end: unless it runs out of descriptors half-way.                           *)
THEOREM NobodyIsLeft ==
  ASSUME "descriptors" \notin Departures
  PROVE  Spec => []NobodyLeft
<1>1. Init => Ends
  BY InitEnds
<1>2. Ends /\ [Next]_vars => Ends'
  BY NextEnds
<1>3. Ends => NobodyLeft
  BY DEF Ends, WaitedFor
<1> QED BY <1>1, <1>2, <1>3, PTL DEF Spec

-----------------------------------------------------------------------------
(* What was written and where it is.                                          *)
Item == Nat \X {"text", "out", "err"}

DataTyped ==
  /\ pipe \in [Pipes -> Seq(Item)] /\ \A p \in Pipes : Len(pipe[p]) <= Capacity
  /\ text \in 0 .. Text /\ left \in 0 .. MaxWrites
  /\ arrived \in [Places -> Seq(Item)] /\ meant \in [Places -> Seq(Item)]

Straight == \A p \in Direct : arrived[p] = meant[p]

(* What is captured is on its way, in order; what is for a channel waits      *)
(* where an answer would.                                                     *)
Through(x, sink, channel) == IF sink = "channel" THEN channel ELSE x

Flow(x, sink, channel) ==
  /\ arrived[x] \o pipe[x] = meant[Through(x, sink, channel)]
  /\ \A y \in {x, channel} : y # Through(x, sink, channel) => meant[y] = <<>>
  /\ arrived[channel] = <<>>

Flows ==
  pc # "done" => Flow(Out, plan.stdout, Own("channel")) /\ Flow(Err, plan.stderr, Own("errchannel"))

Unopened == \A x \in {Out, Err} : x \notin Opened(plan) => pipe[x] = <<>>

(* A thread stays as long as there is something to read, or could be.         *)
Drains(x, thread) == Holds(x, "read", thread) \/ (pipe[x] = <<>> /\ ~Has(x, "write"))
Drained           == pc \in {"wait", "join"} => Drains(Out, OutReader) /\ Drains(Err, ErrReader)

(* And the writer as long as there is something to write, and a reader.       *)
Fed ==
  plan.stdin = "text" /\ pc # "spawn" => Holds(In, "write", Writer) \/ text = 0 \/ ~Has(In, "read")

ToTheEnd ==
  \A i \in DOMAIN child :
    /\ StdinOf(i) = Own("stdin") => child[i].eof
    /\ child[i].eof /\ StdinOf(i) = In => text = 0 /\ pipe[In] = <<>>

LastHeard == Len(child) = plan.last => child[plan.last].status # "broken"

Answered ==
  Finished => /\ \A p \in {Own("channel"), Own("errchannel")} : arrived[p] = meant[p]
              /\ Silent \/ answer.text = meant[Out] \o meant[Err]

Data ==
  DataTyped /\ Straight /\ Flows /\ Unopened /\ Drained /\ Fed /\ ToTheEnd /\ LastHeard /\ Answered

Target(i, stream) == IF stream = "out" THEN StdoutOf(i) ELSE StderrOf(i)

(* Where a command writes, and where that was to go.                          *)
LEMMA Where ==
  ASSUME EndsTyped, Departures = {}, NEW i \in Stages, i <= plan.last, NEW stream \in {"out", "err"}
  PROVE  \/ i < plan.last /\ Target(i, stream) = Between(i) /\ MeantFor(i, stream) = Between(i)
         \/ Target(i, stream) \in Direct /\ MeantFor(i, stream) = Target(i, stream)
         \/ /\ Target(i, stream) = Out /\ Captures(plan, plan.stdout)
            /\ MeantFor(i, stream) = Through(Out, plan.stdout, Own("channel"))
         \/ /\ Target(i, stream) = Err /\ Captures(plan, plan.stderr)
            /\ MeantFor(i, stream) = Through(Err, plan.stderr, Own("errchannel"))
<1> DEFINE o == plan.stdout
           r == plan.stderr
<1>1. /\ o \in {"capture", "inherit", "file", "channel"} /\ r \in {"capture", "inherit", "file", "channel", "stdout"}
      /\ plan.background \in BOOLEAN /\ plan.last \in Nat /\ i \in Nat
      /\ \A j \in plan.joined : j < plan.last
  BY ProcessesAssumption, HoldersDiffer DEF EndsTyped, Plans, Plan
<1>2. /\ plan.background => o # "channel" /\ r # "channel"
      /\ r = "stdout" => Redirected(plan) /\ plan.joined = 1 .. plan.last - 1
  BY DEF EndsTyped, Plans
<1>3. i = plan.last \/ i < plan.last
  BY <1>1
<1>4. {Own("stdout"), Own("stderr"), Own("file"), Own("errfile")} = Direct
  BY DEF Direct
<1>5. Captures(plan, o) <=> o = "channel" \/ (o = "capture" /\ ~plan.background)
  BY DEF Captures
<1>6. Captures(plan, r) <=> r = "channel" \/ (r = "capture" /\ ~plan.background)
  BY DEF Captures
<1>7. Redirected(plan) <=> o = "file" \/ Captures(plan, o)
  BY DEF Redirected
<1>8. Named(o, Out, Own("stdout"), Own("file"), Own("channel")) =
        IF o = "capture" THEN IF plan.background THEN Own("stdout") ELSE Out
        ELSE IF o = "inherit" THEN Own("stdout") ELSE IF o = "file" THEN Own("file") ELSE Own("channel")
  BY <1>1 DEF Named
<1>9. r # "stdout" =>
      Named(r, Err, Own("stderr"), Own("errfile"), Own("errchannel")) =
        IF r = "capture" THEN IF plan.background THEN Own("stderr") ELSE Err
        ELSE IF r = "inherit" THEN Own("stderr") ELSE IF r = "file" THEN Own("errfile") ELSE Own("errchannel")
  BY <1>1 DEF Named
<1>10. CASE i < plan.last /\ (stream = "out" \/ i \in plan.joined)
  BY <1>10 DEF Target, StdoutOf, StderrOf, MeantFor
<1>11. CASE i = plan.last /\ stream = "out"
  <2>1. /\ Target(i, stream) = IF Captures(plan, o) THEN Out ELSE IF o = "file" THEN Own("file") ELSE Own("stdout")
        /\ MeantFor(i, stream) = Named(o, Out, Own("stdout"), Own("file"), Own("channel"))
    BY <1>1, <1>11 DEF Target, StdoutOf, MeantFor
  <2> QED BY <1>1, <1>2, <1>4, <1>5, <1>8, <2>1 DEF Through
<1>12. CASE stream = "err" /\ i \notin plan.joined /\ r # "stdout"
  <2>1. /\ Target(i, stream) = IF Captures(plan, r) THEN Err ELSE IF r = "file" THEN Own("errfile") ELSE Own("stderr")
        /\ MeantFor(i, stream) = Named(r, Err, Own("stderr"), Own("errfile"), Own("errchannel"))
    BY <1>12 DEF Target, StderrOf, MeantFor
  <2> QED BY <1>1, <1>2, <1>4, <1>6, <1>9, <1>12, <2>1 DEF Through
<1>13. CASE i = plan.last /\ stream = "err" /\ i \notin plan.joined /\ r = "stdout"
  <2>1. ~Captures(plan, r)
    BY <1>6, <1>13
  <2>2. /\ Target(i, stream) = StdoutOf(i)
        /\ StdoutOf(i) = IF Captures(plan, o) THEN Out ELSE IF o = "file" THEN Own("file") ELSE Own("stdout")
        /\ MeantFor(i, stream) = Named(o, Out, Own("stdout"), Own("file"), Own("channel"))
    BY <1>1, <1>2, <1>13, <2>1 DEF Target, StderrOf, StdoutOf, MeantFor
  <2> QED BY <1>1, <1>2, <1>4, <1>5, <1>7, <1>8, <2>2 DEF Through
<1>14. i < plan.last /\ r = "stdout" => i \in plan.joined
  BY <1>1, <1>2, HoldersDiffer
<1>15. i = plan.last => i \notin plan.joined
  BY <1>1
<1> QED BY <1>3, <1>10, <1>11, <1>12, <1>13, <1>14, <1>15

LEMMA Inputs ==
  ASSUME NEW i
  PROVE  /\ StdinOf(i) = In => plan.stdin = "text"
         /\ StdinOf(i) \notin {Out, Err} /\ StdinOf(i) \notin Direct
         /\ StdinOf(i) = In \/ StdinOf(i) = Own("stdin") \/ StdinOf(i) = Between(i - 1)
<1>1. StdinOf(i) = IF i > 1 THEN Between(i - 1) ELSE IF plan.stdin = "text" THEN In ELSE Own("stdin")
  BY DEF StdinOf
<1>2. In # Own("stdin") /\ Own("stdin") \notin Direct /\ In \notin Direct /\ Between(i - 1) \notin Direct
  BY DEF In, Own, Between, Direct
<1> QED BY <1>1, <1>2, PlacesDiffer

(* Where the channels and the pipes that are captured stand apart.            *)
LEMMA Apart ==
  /\ \A x \in {Out, Err, Own("channel"), Own("errchannel")} : x \notin Direct /\ x \in Places
  /\ Out # Own("channel") /\ Out # Own("errchannel") /\ Err # Own("channel") /\ Err # Own("errchannel")
  /\ Out # Err /\ Own("channel") # Own("errchannel") /\ In \notin {Out, Err}
  /\ \A i : Between(i) \notin {Out, Err, Own("channel"), Own("errchannel")} \cup Direct
  /\ \A i \in Stages : Between(i) \in Pipes
BY DEF In, Out, Err, Between, Own, Pipes, Places, Direct

LEMMA Targets ==
  ASSUME EndsTyped, Departures = {}, NEW i \in Stages, i <= plan.last, NEW stream \in {"out", "err"}
  PROVE  Target(i, stream) \in Places /\ MeantFor(i, stream) \in Places /\ Target(i, stream) # In
<1>1. Direct \subseteq Places /\ Pipes \subseteq Places /\ In \notin Direct
  BY PlacesDiffer
<1> QED BY <1>1, Where, Apart, PlacesDiffer DEF Through

(* While anybody runs or a thread is not through, there is no answer yet.     *)
LEMMA Unfinished ==
  ASSUME Ends, (\E i \in Stages : Running(i)) \/ held # {}
  PROVE  ~Finished
BY DEF Ends, WaitedFor, NobodyLeft, Finished, Running

LEMMA HeldRunning ==
  ASSUME Ends, NEW i \in Stages, Running(i)
  PROVE  /\ StdinOf(i) \in Pipes => Holds(StdinOf(i), "read", i)
         /\ \A stream \in {"out", "err"} : Target(i, stream) \in Pipes => Holds(Target(i, stream), "write", i)
         /\ i \in DOMAIN child /\ i <= plan.last /\ child[i] \in Command
<1>1. i \in DOMAIN child /\ child[i] \in Command
  BY Planned DEF Running, Ends
<1>2. i <= plan.last
  BY <1>1, Planned, HoldersDiffer DEF Ends, EndsTyped
<1>3. /\ Gives(StdinOf(i), "read", i)
      /\ \A stream \in {"out", "err"} : Gives(Target(i, stream), "write", i)
  BY DEF Gives, Target
<1>4. \A x, side : x \in Pipes /\ Gives(x, side, i) => Holds(x, side, i)
  BY DEF Ends, HeldByCommands
<1> QED BY <1>1, <1>2, <1>3, <1>4

(* There is a reader for what is captured as long as anybody writes it.       *)
LEMMA HasReader ==
  ASSUME Ends, Departures = {}, Drained, NEW x \in {Out, Err}, NEW i \in Stages, Holds(x, "write", i),
         x \in Opened(plan)
  PROVE  Has(x, "read")
<1>1. Has(x, "write") /\ (\A h : Holds(x, "read", h) => Has(x, "read"))
  <2>1. <<x, "write", i>>[1] = x /\ <<x, "write", i>>[2] = "write"
    OBVIOUS
  <2>2. ASSUME NEW h, Holds(x, "read", h) PROVE Has(x, "read")
    <3>1. <<x, "read", h>>[1] = x /\ <<x, "read", h>>[2] = "read"
      OBVIOUS
    <3> QED BY <2>2, <3>1 DEF Has, Holds
  <2> QED BY <2>1, <2>2 DEF Has, Holds
<1>2. CASE pc = "spawn"
  <2>1. Holds(x, "read", Exec)
    BY <1>2, Apart DEF Ends, HeldByExec
  <2> QED BY <1>1, <2>1
<1>3. CASE pc \in {"wait", "join"}
  BY <1>1, <1>3, Apart DEF Drained, Drains
<1>4. CASE pc = "done"
  <2>1. ~plan.background
    BY Apart DEF Opened, Captures, Ends, EndsTyped, Plans, Plan
  <2>2. held = {}
    BY <1>4, <2>1 DEF Ends, WaitedFor, NobodyLeft
  <2> QED BY <2>2 DEF Holds
<1> QED BY <1>2, <1>3, <1>4 DEF Ends, EndsTyped

(* A step of the interpreter or of a command that moves no data.              *)
LEMMA QuietData ==
  ASSUME Ends, Data, ~Finished, UNCHANGED <<plan, pipe, text, arrived, meant, answer>>,
         pc' = pc \/ (pc = "wait" /\ pc' = "join"),
         NEW gone \in SUBSET Stages, held' = {e \in held : e[3] \notin gone},
         left' \in 0 .. MaxWrites, Len(child') = Len(child), DOMAIN child' = DOMAIN child,
         \A j \in DOMAIN child : child'[j].eof = child[j].eof,
         Len(child) = plan.last => child'[plan.last].status # "broken"
  PROVE  Data'
<1>1. \A x, side, h : Holds(x, side, h)' <=> Holds(x, side, h) /\ h \notin gone
  BY DEF Holds
<1>2. \A x, side : Has(x, side)' => Has(x, side)
  BY DEF Has
<1>3. \A j : UNCHANGED StdinOf(j)
  BY DEF StdinOf
<1>4. OutReader \notin gone /\ ErrReader \notin gone /\ Writer \notin gone
  BY HoldersDiffer
<1>5. (DataTyped /\ Straight /\ Unopened)'
  BY DEF Data, DataTyped, Straight, Unopened
<1>6. Flows'
  BY DEF Data, Flows, Flow
<1>7. Drained'
  BY <1>1, <1>2, <1>4 DEF Data, Drained, Drains
<1>8. Fed'
  BY <1>1, <1>2, <1>4 DEF Data, Fed
<1>9. ToTheEnd'
  BY <1>3 DEF Data, ToTheEnd
<1>10. LastHeard'
  BY DEF LastHeard
<1>11. Answered'
  BY DEF Answered, Finished
<1> QED BY <1>5, <1>6, <1>7, <1>8, <1>9, <1>10, <1>11 DEF Data

LEMMA InitData == Init => Data
<1> SUFFICES ASSUME Init PROVE Data
  OBVIOUS
<1>1. /\ pc = "spawn" /\ pipe = [p \in Pipes |-> <<>>] /\ child = <<>> /\ text = Text /\ left = MaxWrites
      /\ arrived = [p \in Places |-> <<>>] /\ meant = [p \in Places |-> <<>>]
  BY DEF Init
<1>2. <<>> \in Seq(Item) /\ Len(<<>>) = 0
  OBVIOUS
<1>3. DataTyped
  BY <1>1, <1>2, ProcessesAssumption DEF DataTyped
<1>4. Straight
  BY <1>1, PlacesDiffer DEF Straight
<1>5. <<>> \o <<>> = <<>>
  OBVIOUS
<1>6. \A x \in Pipes : arrived[x] = <<>> /\ pipe[x] = <<>>
  BY <1>1, PlacesDiffer
<1>7. \A x \in Places : arrived[x] = <<>> /\ meant[x] = <<>>
  BY <1>1
<1>8. ASSUME NEW x \in {Out, Err}, NEW sink, NEW channel \in {Own("channel"), Own("errchannel")}
      PROVE  Flow(x, sink, channel)
  BY <1>5, <1>6, <1>7, Apart, PlacesDiffer DEF Flow, Through
<1>9. Flows
  BY <1>8 DEF Flows
<1>10. LastHeard
  <2>1. plan.last \in Nat \ {0}
    BY HoldersDiffer DEF Init, Plans, Plan
  <2> QED BY <1>1, <2>1 DEF LastHeard
<1> QED BY <1>1, <1>3, <1>4, <1>6, <1>9, <1>10, PlacesDiffer
        DEF Data, Unopened, Drained, Fed, ToTheEnd, Answered, Finished

LEMMA SpawnData ==
  ASSUME Departures = {}, Ends, Data, Spawn
  PROVE  Data'
<1> DEFINE i == Len(child) + 1
           c == [at |-> "free", eof |-> StdinOf(i) = Own("stdin"), status |-> "ok"]
<1>1. /\ UNCHANGED <<plan, pc, pipe, text, left, arrived, answer, meant>> /\ pc = "spawn"
      /\ child' = Append(child, c) /\ i <= plan.last
  BY DEF Spawn
<1>2. /\ Len(child) \in Nat /\ DOMAIN child = 1 .. Len(child) /\ child \in Seq(Command) /\ plan.last \in Nat
  BY Planned, HoldersDiffer DEF Ends, EndsTyped
<1>3. c \in Command /\ c.status = "ok" /\ (c.eof <=> StdinOf(i) = Own("stdin"))
  BY DEF Command
<1>4. \A j : UNCHANGED StdinOf(j)
  BY <1>1 DEF StdinOf
<1> HIDE DEF c
<1>5. /\ Len(child') = i /\ DOMAIN child' = 1 .. i /\ child'[i] = c
      /\ \A j \in 1 .. Len(child) : child'[j] = child[j]
  BY <1>1, <1>2, <1>3
<1>6. (DataTyped /\ Straight /\ Unopened)'
  BY <1>1 DEF Data, DataTyped, Straight, Unopened
<1>7. Flows'
  BY <1>1 DEF Data, Flows, Flow
<1>8. ToTheEnd'
  <2>1. Own("stdin") # In
    BY DEF Own, In
  <2> QED BY <1>1, <1>2, <1>3, <1>4, <1>5, <2>1 DEF Data, ToTheEnd
<1>9. LastHeard'
  BY <1>1, <1>2, <1>3, <1>5 DEF LastHeard
<1> QED BY <1>1, <1>6, <1>7, <1>8, <1>9 DEF Data, Drained, Fed, Answered, Finished

LEMMA SpawnFailsData ==
  ASSUME Departures = {}, Ends, Data, SpawnFails
  PROVE  Data'
<1>1. /\ UNCHANGED <<plan, pipe, text, left, arrived, meant>> /\ pc' = "done"
      /\ held' = {} /\ child' = Reaped /\ answer' = [kind |-> "refused", text |-> <<>>] /\ Len(child) < plan.last
  BY DEF SpawnFails, GivenUp
<1>2. /\ Len(child) \in Nat /\ DOMAIN child = 1 .. Len(child) /\ plan.last \in Nat
      /\ \A j \in DOMAIN child : child[j] \in Command
  BY Planned, HoldersDiffer DEF Ends
<1>3. /\ DOMAIN child' = DOMAIN child /\ Len(child') = Len(child)
      /\ \A j \in DOMAIN child : child'[j].eof = child[j].eof
  <2>1. \A j \in DOMAIN child : Ended(child[j], "reaped").eof = child[j].eof
    BY <1>2 DEF Ended, Command
  <2> QED BY <1>1, <1>2, <2>1 DEF Reaped
<1>4. \A j : UNCHANGED StdinOf(j)
  BY <1>1 DEF StdinOf
<1>5. (DataTyped /\ Straight /\ Unopened)'
  BY <1>1 DEF Data, DataTyped, Straight, Unopened
<1>6. ToTheEnd'
  BY <1>1, <1>3, <1>4 DEF Data, ToTheEnd
<1>7. LastHeard'
  BY <1>1, <1>2, <1>3 DEF LastHeard
<1>8. Fed'
  BY <1>1 DEF Fed, Has
<1>9. Answered'
  BY <1>1 DEF Answered, Finished
<1> QED BY <1>1, <1>5, <1>6, <1>7, <1>8, <1>9 DEF Data, Flows, Drained

LEMMA NobodyWrites ==
  ASSUME Ends, Departures = {}, NEW x \in {Out, Err}, x \notin Opened(plan)
  PROVE  ~Has(x, "write")
<1>1. SUFFICES ASSUME NEW h \in Holders, Holds(x, "write", h) PROVE FALSE
  BY HasEnd DEF Ends, EndsTyped
<1>2. CASE h \in Stages
  <2>1. Running(h) /\ Gives(x, "write", h)
    BY <1>1, <1>2 DEF Ends, HeldByCommands
  <2>2. PICK stream \in {"out", "err"} : x = Target(h, stream)
    BY <2>1 DEF Gives, Target
  <2>3. h <= plan.last
    BY <1>2, <2>1, HeldRunning
  <2> QED BY <1>2, <2>2, <2>3, Where, Apart DEF Opened, Ends
<1>3. CASE h \in Threads
  BY <1>1, <1>3, HoldersDiffer, PlacesDiffer DEF Ends, HeldByThreads
<1>4. CASE h = Exec
  BY <1>1, <1>4, Apart DEF Ends, HeldByExec
<1> QED BY <1>2, <1>3, <1>4 DEF Holders

LEMMA Released ==
  ASSUME Ends, Release
  PROVE  /\ \A x, h : Holds(x, "write", h)' /\ x # In => Holds(x, "write", h)
         /\ \A h : Holds(In, "read", h)' => Holds(In, "read", h)
         /\ ~plan.background =>
              /\ Holds(Out, "read", Exec) => Holds(Out, "read", OutReader)'
              /\ Holds(Err, "read", Exec) => Holds(Err, "read", ErrReader)'
              /\ Holds(In, "write", Exec) => Holds(In, "write", Writer)'
<1>1. held' = (IF plan.background THEN Kept ELSE Kept \cup Handed)
  BY DEF Release
<1>2. \A x, side, h : <<x, side, h>> \in Kept => Holds(x, side, h)
  BY Dropped DEF Kept
<1>3. ASSUME NEW x, NEW side, NEW h, Holds(x, side, h)', x = In <=> side = "read"
      PROVE  Holds(x, side, h)
  <2>1. <<x, side, h>> \notin Handed \/ (side # "read" /\ side # "write")
    BY <1>3, HandedOver
  <2>2. <<x, side, h>> \in Kept \/ <<x, side, h>> \in Handed
    BY <1>1, <1>3 DEF Holds
  <2>3. <<x, side, h>> \in Handed => Holds(x, side, Exec)
    BY HandedOver
  <2>4. Holds(x, side, Exec) => side \in {"read", "write"}
    BY DEF Holds, Ends, EndsTyped
  <2> QED BY <1>2, <2>1, <2>2, <2>3, <2>4
<1>4. ASSUME ~plan.background
      PROVE  /\ Holds(Out, "read", Exec) => Holds(Out, "read", OutReader)'
             /\ Holds(Err, "read", Exec) => Holds(Err, "read", ErrReader)'
             /\ Holds(In, "write", Exec) => Holds(In, "write", Writer)'
  <2>1. /\ Holds(Out, "read", Exec) => <<Out, "read", OutReader>> \in Handed
        /\ Holds(Err, "read", Exec) => <<Err, "read", ErrReader>> \in Handed
        /\ Holds(In, "write", Exec) => <<In, "write", Writer>> \in Handed
    BY HandedOver, PlacesDiffer
  <2> QED BY <1>1, <1>4, <2>1 DEF Holds
<1> QED BY <1>3, <1>4

LEMMA ReleaseData ==
  ASSUME Departures = {}, Ends, Data, Release
  PROVE  Data'
<1>1. /\ UNCHANGED <<plan, pipe, text, child, left, arrived, meant>> /\ pc = "spawn"
      /\ IF plan.background THEN pc' = "done" ELSE pc' = "wait" /\ UNCHANGED answer
  BY DEF Release
<1>2. \A j : UNCHANGED StdinOf(j)
  BY <1>1 DEF StdinOf
<1>3. (DataTyped /\ Straight /\ Unopened /\ ToTheEnd /\ LastHeard)'
  BY <1>1, <1>2 DEF Data, DataTyped, Straight, Unopened, ToTheEnd, LastHeard
<1>4. Flows'
  BY <1>1 DEF Data, Flows, Flow
<1>5. plan.background \in BOOLEAN
  BY DEF Ends, EndsTyped, Plans, Plan
<1>6. ASSUME NEW x \in {Out, Err}, x \in Opened(plan) PROVE Holds(x, "read", Exec)
  BY <1>1, <1>6, Apart DEF Ends, HeldByExec
<1>7. ASSUME NEW x \in {Out, Err}, x \notin Opened(plan) PROVE pipe'[x] = <<>> /\ ~Has(x, "write")'
  <2>1. ~Has(x, "write")
    BY <1>7, NobodyWrites
  <2>2. \A h : Holds(x, "write", h)' => Holds(x, "write", h)
    BY Released, Apart
  <2>3. \A h : ~Holds(x, "write", h)
    <3>1. \A h : <<x, "write", h>>[1] = x /\ <<x, "write", h>>[2] = "write"
      OBVIOUS
    <3> QED BY <2>1, <3>1 DEF Has, Holds
  <2>4. \A e \in held' : e = <<e[1], e[2], e[3]>>
    BY ReleaseEnds DEF Ends, EndsTyped
  <2>5. ~Has(x, "write")'
    BY <2>2, <2>3, <2>4 DEF Has, Holds
  <2> QED BY <1>1, <1>7, <2>5 DEF Data, Unopened
<1>8. Drained'
  <2>1. CASE plan.background
    BY <1>1, <2>1 DEF Drained
  <2>2. CASE ~plan.background
    BY <1>6, <1>7, <2>2, Released DEF Drained, Drains
  <2> QED BY <2>1, <2>2
<1>9. Fed'
  <2>1. SUFFICES ASSUME plan.stdin = "text" PROVE Holds(In, "write", Writer)'
    BY <1>1 DEF Fed
  <2>2. ~plan.background
    BY <2>1 DEF Ends, EndsTyped, Plans
  <2>3. Holds(In, "write", Exec)
    BY <1>1, <2>1 DEF Ends, HeldByExec, Opened
  <2> QED BY <2>2, <2>3, Released
<1>10. Answered'
  BY <1>1 DEF Answered, Finished
<1> QED BY <1>3, <1>4, <1>8, <1>9, <1>10 DEF Data

LEMMA WaitData ==
  ASSUME Departures = {}, Ends, Data, Wait
  PROVE  Data'
<1>1. UNCHANGED <<plan, held, pipe, text, left, arrived, answer, meant>> /\ pc = "wait"
  BY DEF Wait
<1>2. pc' = pc \/ (pc = "wait" /\ pc' = "join")
  BY DEF Wait
<1>3. {} \in SUBSET Stages /\ held' = {e \in held : e[3] \notin {}} /\ left' \in 0 .. MaxWrites
  BY <1>1 DEF Data, DataTyped
<1>4. ~Finished
  BY <1>1 DEF Finished
<1>5. \A i \in DOMAIN child : child[i] \in Command
  BY Planned DEF Ends
<1>6. CASE UNCHANGED child
  <2>1. /\ Len(child') = Len(child) /\ DOMAIN child' = DOMAIN child
        /\ \A j \in DOMAIN child : child'[j].eof = child[j].eof
        /\ Len(child) = plan.last => child'[plan.last].status # "broken"
    BY <1>6 DEF Data, LastHeard
  <2> QED BY <1>1, <1>2, <1>3, <1>4, <2>1, QuietData
<1>7. ASSUME NEW i \in DOMAIN child, child' = [child EXCEPT ![i].at = "reaped"]
      PROVE  Data'
  <2> DEFINE c == [child[i] EXCEPT !.at = "reaped"]
  <2>1. c \in Command /\ c.eof = child[i].eof /\ c.status = child[i].status /\ child' = [child EXCEPT ![i] = c]
    BY <1>5, <1>7 DEF Command
  <2>2. i \in Stages
    BY Planned DEF Ends
  <2> HIDE DEF c
  <2>3. /\ Len(child') = Len(child) /\ DOMAIN child' = DOMAIN child
        /\ \A j \in DOMAIN child : child'[j].eof = child[j].eof /\ child'[j].status = child[j].status
    BY <2>1, <2>2, Changed DEF Ends
  <2>4. Len(child) = plan.last => child'[plan.last].status # "broken"
    BY <2>3, Planned, HoldersDiffer DEF Data, LastHeard, Ends
  <2> QED BY <1>1, <1>2, <1>3, <1>4, <2>3, <2>4, QuietData
<1> QED BY <1>6, <1>7 DEF Wait

LEMMA AnswerData ==
  ASSUME Departures = {}, Ends, Data, Answer
  PROVE  Data'
<1> DEFINE o == Own("channel")
           r == Own("errchannel")
<1>1. /\ UNCHANGED <<plan, held, pipe, text, child, left, meant>> /\ pc = "join" /\ pc' = "done" /\ Joined
      /\ arrived' = Collected
  BY DEF Answer
<1>2. held = {}
  BY <1>1, NobodyHolds
<1>3. pipe[Out] = <<>> /\ pipe[Err] = <<>>
  BY <1>1, <1>2 DEF Data, Drained, Drains, Holds
<1>4. /\ arrived \in [Places -> Seq(Item)] /\ meant \in [Places -> Seq(Item)]
      /\ o \in Places /\ r \in Places /\ Out \in Places /\ Err \in Places
  BY Apart DEF Data, DataTyped
<1>5. Flow(Out, plan.stdout, o) /\ Flow(Err, plan.stderr, r)
  BY <1>1 DEF Data, Flows
<1>6. arrived[Out] \o <<>> = arrived[Out] /\ arrived[Err] \o <<>> = arrived[Err]
  BY <1>4
<1>7. /\ arrived[Out] = meant[Through(Out, plan.stdout, o)] /\ arrived[o] = <<>>
      /\ plan.stdout = "channel" => meant[Out] = <<>>
      /\ plan.stdout # "channel" => meant[o] = <<>>
  BY <1>3, <1>5, <1>6, Apart DEF Flow, Through
<1>8. /\ arrived[Err] = meant[Through(Err, plan.stderr, r)] /\ arrived[r] = <<>>
      /\ plan.stderr = "channel" => meant[Err] = <<>>
      /\ plan.stderr # "channel" => meant[r] = <<>>
  BY <1>3, <1>5, <1>6, Apart DEF Flow, Through
<1>9. /\ Collected \in [Places -> Seq(Item)]
      /\ Collected[o] = IF plan.stdout = "channel" THEN arrived[Out] ELSE arrived[o]
      /\ Collected[Out] = IF plan.stdout = "channel" THEN <<>> ELSE arrived[Out]
      /\ Collected[r] = IF plan.stderr = "channel" THEN arrived[Err] ELSE arrived[r]
      /\ Collected[Err] = IF plan.stderr = "channel" THEN <<>> ELSE arrived[Err]
      /\ \A p \in Places \ {o, r, Out, Err} : Collected[p] = arrived[p]
  <2>1. <<>> \in Seq(Item)
    OBVIOUS
  <2> HIDE DEF o, r
  <2>2. o # r /\ Out # o /\ Out # r /\ Err # o /\ Err # r /\ Out # Err
    BY Apart DEF o, r
  <2>3. Collected = [arrived EXCEPT
                       ![o]   = IF plan.stdout = "channel" THEN arrived[Out] ELSE @,
                       ![Out] = IF plan.stdout = "channel" THEN <<>> ELSE @,
                       ![r]   = IF plan.stderr = "channel" THEN arrived[Err] ELSE @,
                       ![Err] = IF plan.stderr = "channel" THEN <<>> ELSE @]
    BY DEF Collected, o, r
  <2> QED BY <1>4, <2>1, <2>2, <2>3
<1>10. arrived'[Out] = meant[Out] /\ arrived'[o] = meant[o]
  BY <1>1, <1>7, <1>9 DEF Through
<1>11. arrived'[Err] = meant[Err] /\ arrived'[r] = meant[r]
  BY <1>1, <1>8, <1>9 DEF Through
<1>12. DataTyped'
  BY <1>1, <1>9 DEF Data, DataTyped
<1>13. Straight'
  BY <1>1, <1>9, Apart, PlacesDiffer DEF Data, Straight
<1>14. \A j : UNCHANGED StdinOf(j)
  BY <1>1 DEF StdinOf
<1>15. (Unopened /\ ToTheEnd /\ LastHeard)'
  BY <1>1, <1>14 DEF Data, Unopened, ToTheEnd, LastHeard
<1>16. Fed'
  BY <1>1, <1>2 DEF Fed, Has
<1>17. Silent' \/ answer'.text = meant'[Out] \o meant'[Err]
  <2> DEFINE result == Collected[Out]
             errors == Collected[Err]
  <2>1. answer' = IF errors # <<>> THEN [kind |-> "error", text |-> result \o errors]
                  ELSE IF Failed THEN [kind |-> "error", text |-> <<>>]
                  ELSE [kind |-> "value", text |-> result]
    BY DEF Answer
  <2>2. result = meant'[Out] /\ errors = meant'[Err] /\ errors = arrived'[Err] /\ result \in Seq(Item)
    BY <1>1, <1>4, <1>9, <1>10, <1>11
  <2>3. Failed' <=> Failed
    BY <1>1 DEF Failed
  <2> HIDE DEF result, errors
  <2>4. CASE errors # <<>>
    BY <2>1, <2>2, <2>4
  <2>5. CASE errors = <<>> /\ Failed
    BY <2>2, <2>3, <2>5 DEF Silent
  <2>6. CASE errors = <<>> /\ ~Failed
    <3>1. result \o errors = result
      BY <2>2, <2>6
    <3> QED BY <2>1, <2>2, <2>6, <3>1
  <2> QED BY <2>4, <2>5, <2>6
<1>18. Answered'
  BY <1>1, <1>10, <1>11, <1>17 DEF Answered
<1> QED BY <1>1, <1>12, <1>13, <1>15, <1>16, <1>18 DEF Data, Flows, Drained

LEMMA Moved ==
  ASSUME NEW S, NEW a \in Seq(S), NEW b \in Seq(S), b # <<>>
  PROVE  Append(a, Head(b)) \o Tail(b) = a \o b
OBVIOUS

LEMMA Added ==
  ASSUME NEW S, NEW a \in Seq(S), NEW b \in Seq(S), NEW x \in S
  PROVE  a \o Append(b, x) = Append(a \o b, x)
OBVIOUS

LEMMA WriterData ==
  ASSUME Departures = {}, Ends, Data, WriterStep
  PROVE  Data'
<1>1. UNCHANGED <<plan, pc, child, left, arrived, answer, meant>> /\ HeldBy(Writer) # {}
  BY DEF WriterStep
<1>2. ~Finished
  BY <1>1, Unfinished DEF HeldBy
<1>3. \A j : UNCHANGED StdinOf(j)
  BY <1>1 DEF StdinOf
<1>4. (Straight /\ LastHeard)'
  BY <1>1 DEF Data, Straight, LastHeard
<1>5. Answered'
  BY <1>1, <1>2 DEF Answered, Finished
<1>6. pipe \in [Pipes -> Seq(Item)] /\ In \in Pipes /\ text \in 0 .. Text
  BY PlacesDiffer DEF Data, DataTyped
<1>7. CASE text > 0 /\ Has(In, "read")
  <2>1. /\ Len(pipe[In]) < Capacity /\ text' = text - 1 /\ UNCHANGED held
        /\ pipe' = [pipe EXCEPT ![In] = Append(pipe[In], <<0, "text">>)]
    BY <1>7 DEF WriterStep
  <2>2. <<0, "text">> \in Item
    BY DEF Item
  <2> DEFINE w == <<0, "text">>
  <2> HIDE DEF w
  <2>3. Append(pipe[In], w) \in Seq(Item) /\ Len(Append(pipe[In], w)) <= Capacity
    BY <1>6, <2>1, <2>2, ProcessesAssumption DEF w
  <2>4. pipe' \in [Pipes -> Seq(Item)] /\ \A p \in Pipes : p # In => pipe'[p] = pipe[p]
    BY <1>6, <2>1, <2>3 DEF w
  <2>5. pipe'[In] = Append(pipe[In], w)
    BY <1>6, <2>1 DEF w
  <2>6. DataTyped'
    <3>1. text' \in 0 .. Text
      BY <1>6, <1>7, <2>1, ProcessesAssumption
    <3>2. \A p \in Pipes : Len(pipe'[p]) <= Capacity
      BY <2>3, <2>4, <2>5 DEF Data, DataTyped
    <3> QED BY <1>1, <2>4, <3>1, <3>2 DEF Data, DataTyped
  <2>7. pipe'[Out] = pipe[Out] /\ pipe'[Err] = pipe[Err]
    BY <2>4, PlacesDiffer
  <2>8. Flows'
    BY <1>1, <2>7 DEF Data, Flows, Flow
  <2>9. Unopened' /\ Drained'
    BY <1>1, <2>1, <2>7 DEF Data, Unopened, Drained, Drains, Holds, Has
  <2>10. Fed'
    <3>1. Holds(In, "write", Writer) \/ ~Has(In, "read") \/ plan.stdin # "text" \/ pc = "spawn"
      BY <1>6, <1>7 DEF Data, Fed
    <3> QED BY <1>1, <1>7, <2>1, <3>1 DEF Fed, Holds, Has
  <2>11. ToTheEnd'
    <3>1. \A j \in DOMAIN child : ~(child[j].eof /\ StdinOf(j) = In)
      BY <1>6, <1>7 DEF Data, ToTheEnd
    <3> QED BY <1>1, <1>3, <3>1 DEF Data, ToTheEnd
  <2> QED BY <1>4, <1>5, <2>6, <2>8, <2>9, <2>10, <2>11 DEF Data
<1>8. CASE ~(text > 0 /\ Has(In, "read"))
  <2>1. held' = held \ HeldBy(Writer) /\ UNCHANGED <<pipe, text>>
    BY <1>8 DEF WriterStep
  <2>2. \A x, side, h : Holds(x, side, h)' <=> Holds(x, side, h) /\ h # Writer
    BY <2>1, Dropped DEF Holds
  <2>3. \A x, side : Has(x, side)' => Has(x, side)
    BY <2>1 DEF Has
  <2>4. (DataTyped /\ Unopened)'
    BY <1>1, <2>1 DEF Data, DataTyped, Unopened
  <2>5. Flows'
    BY <1>1, <2>1 DEF Data, Flows, Flow
  <2>6. Drained'
    BY <1>1, <2>1, <2>2, <2>3, HoldersDiffer DEF Data, Drained, Drains
  <2>7. Fed'
    BY <1>6, <1>8, <2>1, <2>3 DEF Fed
  <2>8. ToTheEnd'
    BY <1>1, <1>3, <2>1 DEF Data, ToTheEnd
  <2> QED BY <1>4, <1>5, <2>4, <2>5, <2>6, <2>7, <2>8 DEF Data
<1> QED BY <1>7, <1>8

LEMMA ReaderData ==
  ASSUME Departures = {}, Ends, Data, NEW thread, NEW x,
         (thread = OutReader /\ x = Out) \/ (thread = ErrReader /\ x = Err),
         ReaderStep(thread, x)
  PROVE  Data'
<1>1. UNCHANGED <<plan, pc, text, child, left, answer, meant>> /\ HeldBy(thread) # {}
  BY DEF ReaderStep
<1>2. ~Finished
  BY <1>1, Unfinished DEF HeldBy
<1>3. \A j : UNCHANGED StdinOf(j)
  BY <1>1 DEF StdinOf
<1>4. LastHeard'
  BY <1>1 DEF Data, LastHeard
<1>5. Answered'
  BY <1>1, <1>2 DEF Answered, Finished
<1>6. /\ pipe \in [Pipes -> Seq(Item)] /\ x \in Pipes /\ x \in Places /\ arrived \in [Places -> Seq(Item)]
      /\ x # In /\ x \in {Out, Err}
  BY PlacesDiffer, Apart DEF Data, DataTyped
<1>7. Holds(x, "read", thread)
  <2>1. PICK e \in held : e[3] = thread
    BY <1>1 DEF HeldBy
  <2>2. e = <<e[1], e[2], thread>>
    BY <2>1 DEF Ends, EndsTyped
  <2>3. e[1] = x /\ e[2] = "read"
    BY <2>1, <2>2 DEF Ends, HeldByThreads, Holds
  <2> QED BY <2>1, <2>2, <2>3 DEF Holds
<1>8. CASE pipe[x] # <<>>
  <2>1. /\ arrived' = [arrived EXCEPT ![x] = Append(arrived[x], Head(pipe[x]))]
        /\ pipe' = [pipe EXCEPT ![x] = Tail(pipe[x])] /\ UNCHANGED held
    BY <1>8 DEF ReaderStep
  <2>2. Head(pipe[x]) \in Item /\ Tail(pipe[x]) \in Seq(Item) /\ Len(Tail(pipe[x])) <= Len(pipe[x])
    BY <1>6, <1>8
  <2>3. /\ pipe' \in [Pipes -> Seq(Item)] /\ arrived' \in [Places -> Seq(Item)]
        /\ pipe'[x] = Tail(pipe[x]) /\ arrived'[x] = Append(arrived[x], Head(pipe[x]))
        /\ \A p \in Pipes : p # x => pipe'[p] = pipe[p]
        /\ \A p \in Places : p # x => arrived'[p] = arrived[p]
    BY <1>6, <2>1, <2>2
  <2>4. DataTyped'
    <3>1. \A p \in Pipes : Len(pipe'[p]) <= Capacity
      <4>1. Len(pipe[x]) <= Capacity /\ Len(pipe[x]) \in Nat /\ Len(Tail(pipe[x])) \in Nat
        BY <1>6, <2>2 DEF Data, DataTyped
      <4>2. Len(Tail(pipe[x])) <= Capacity
        BY <2>2, <4>1, ProcessesAssumption
      <4>3. \A p \in Pipes : Len(pipe[p]) <= Capacity
        BY DEF Data, DataTyped
      <4> QED BY <2>3, <4>2, <4>3
    <3> QED BY <1>1, <2>3, <3>1 DEF Data, DataTyped
  <2>5. Straight'
    BY <1>1, <1>6, <2>3, Apart, PlacesDiffer DEF Data, Straight
  <2>6. arrived'[x] \o pipe'[x] = arrived[x] \o pipe[x]
    BY <1>6, <1>8, <2>3, Moved
  <2>7. Flows'
    <3>1. /\ \A y \in {Out, Err} : arrived'[y] \o pipe'[y] = arrived[y] \o pipe[y]
          /\ \A y \in {Own("channel"), Own("errchannel")} : arrived'[y] = arrived[y]
      BY <1>6, <2>3, <2>6, Apart, PlacesDiffer
    <3> QED BY <1>1, <3>1 DEF Data, Flows, Flow
  <2>8. Unopened'
    <3>1. x \in Opened(plan)
      BY <1>6, <1>8 DEF Data, Unopened
    <3> QED BY <1>1, <1>6, <2>3, <3>1, PlacesDiffer DEF Data, Unopened
  <2>9. Drained'
    <3>1. \A y \in {Out, Err} : y # x => pipe'[y] = pipe[y]
      BY <2>3, PlacesDiffer
    <3> QED BY <1>1, <1>6, <1>7, <2>1, <3>1, PlacesDiffer DEF Data, Drained, Drains, Holds, Has
  <2>10. Fed'
    BY <1>1, <2>1 DEF Data, Fed, Holds, Has
  <2>11. ToTheEnd'
    BY <1>1, <1>3, <1>6, <2>3, PlacesDiffer DEF Data, ToTheEnd
  <2> QED BY <1>4, <1>5, <2>4, <2>5, <2>7, <2>8, <2>9, <2>10, <2>11 DEF Data
<1>9. CASE pipe[x] = <<>>
  <2>1. ~Has(x, "write") /\ held' = held \ HeldBy(thread) /\ UNCHANGED <<pipe, arrived>>
    BY <1>9 DEF ReaderStep
  <2>2. \A y, side, h : Holds(y, side, h)' <=> Holds(y, side, h) /\ h # thread
    BY <2>1, Dropped DEF Holds
  <2>3. \A y, side : Has(y, side)' => Has(y, side)
    BY <2>1 DEF Has
  <2>4. (DataTyped /\ Unopened /\ Straight)'
    BY <1>1, <2>1 DEF Data, DataTyped, Unopened, Straight
  <2>5. Flows'
    BY <1>1, <2>1 DEF Data, Flows, Flow
  <2>6. Drained'
    BY <1>1, <1>9, <2>1, <2>2, <2>3, HoldersDiffer DEF Data, Drained, Drains
  <2>7. Fed'
    BY <1>1, <2>1, <2>2, <2>3, HoldersDiffer DEF Data, Fed
  <2>8. ToTheEnd'
    BY <1>1, <1>3, <2>1 DEF Data, ToTheEnd
  <2> QED BY <1>4, <1>5, <2>4, <2>5, <2>6, <2>7, <2>8 DEF Data
<1> QED BY <1>8, <1>9

(* A step of a command that moves no data.                                    *)
LEMMA CommandData ==
  ASSUME Departures = {}, Ends, Data, NEW i \in Stages, Running(i),
         NEW c \in Command, child' = [child EXCEPT ![i] = c], c.eof = child[i].eof,
         c.status \in {"ok", "failed", child[i].status} \/ i # plan.last,
         UNCHANGED <<plan, pc, pipe, text, arrived, meant, answer>>, left' \in 0 .. MaxWrites,
         UNCHANGED held \/ held' = held \ HeldBy(i)
  PROVE  Data'
<1>1. PICK gone \in SUBSET {i} : held' = {e \in held : e[3] \notin gone}
  BY LetGo
<1>2. /\ Len(child') = Len(child) /\ DOMAIN child' = DOMAIN child /\ i \in DOMAIN child => child'[i] = c
      /\ \A j \in DOMAIN child : j # i => child'[j] = child[j]
  BY Changed DEF Ends
<1>3. \A j \in DOMAIN child : child'[j].eof = child[j].eof
  BY <1>2
<1>4. Len(child) = plan.last => child'[plan.last].status # "broken"
  <2>1. SUFFICES ASSUME Len(child) = plan.last PROVE child'[plan.last].status # "broken"
    OBVIOUS
  <2>2. plan.last \in DOMAIN child /\ child[plan.last].status # "broken"
    BY <2>1, Planned, HoldersDiffer DEF Ends, Data, LastHeard
  <2> QED BY <1>2, <2>2
<1>5. gone \in SUBSET Stages
  OBVIOUS
<1>6. ~Finished
  BY Unfinished
<1>7. /\ pc' = pc /\ UNCHANGED <<plan, pipe, text, arrived, meant, answer>> /\ left' \in 0 .. MaxWrites
      /\ pc' = pc \/ (pc = "wait" /\ pc' = "join")
  OBVIOUS
<1>8. Len(child') = Len(child) /\ DOMAIN child' = DOMAIN child
  BY <1>2
<1> QED BY <1>1, <1>3, <1>4, <1>5, <1>6, <1>7, <1>8, QuietData

LEMMA WritesData ==
  ASSUME Departures = {}, Ends, Data, NEW i \in Stages, Running(i), NEW stream \in {"out", "err"},
         WritesTo(i, stream, Target(i, stream))
  PROVE  Data'
<1> DEFINE x == Target(i, stream)
           m == MeantFor(i, stream)
           w == <<i, stream>>
<1>1. /\ child[i] \in Command /\ i \in DOMAIN child /\ i <= plan.last /\ ~Finished /\ plan.last \in Nat /\ i \in Nat
      /\ x \in Pipes => Holds(x, "write", i)
  BY HeldRunning, Unfinished, Planned, HoldersDiffer DEF Ends
<1>2. /\ pipe \in [Pipes -> Seq(Item)] /\ text \in 0 .. Text /\ left \in 0 .. MaxWrites
      /\ arrived \in [Places -> Seq(Item)] /\ meant \in [Places -> Seq(Item)]
      /\ w \in Item /\ x \in Places /\ m \in Places /\ x # In
      /\ \A p \in Pipes : Len(pipe[p]) <= Capacity
  <2>1. w \in Item
    BY <1>1 DEF Item
  <2> QED BY <1>1, <2>1, Targets DEF Data, DataTyped, Ends
<1>3. \/ i < plan.last /\ x = Between(i) /\ m = Between(i)
      \/ x \in Direct /\ m = x
      \/ x = Out /\ Captures(plan, plan.stdout) /\ m = Through(Out, plan.stdout, Own("channel"))
      \/ x = Err /\ Captures(plan, plan.stderr) /\ m = Through(Err, plan.stderr, Own("errchannel"))
  BY <1>1, Where DEF Ends
<1>4. x \in {Out, Err} => x \in Opened(plan)
  BY <1>3, Apart DEF Opened
<1> HIDE DEF x, m, w
<1>5. CASE x \in Pipes /\ ~Has(x, "read")
  <2>1. i # plan.last
    BY <1>1, <1>3, <1>4, <1>5, HasReader, PlacesDiffer DEF Data
  <2> DEFINE c == [child[i] EXCEPT !.at = "ended", !.status = "broken"]
  <2>2. c \in Command /\ c.eof = child[i].eof /\ child' = [child EXCEPT ![i] = c]
    BY <1>1, <1>5 DEF Command, WritesTo, x
  <2>3. UNCHANGED <<plan, pc, pipe, text, arrived, meant, answer>> /\ left' \in 0 .. MaxWrites /\ held' = held \ HeldBy(i)
    BY <1>2, <1>5 DEF WritesTo, x
  <2> HIDE DEF c
  <2> QED BY <2>1, <2>2, <2>3, CommandData
<1>6. CASE ~(x \in Pipes /\ ~Has(x, "read"))
  <2>1. /\ UNCHANGED <<plan, pc, text, answer, held>>
        /\ child' = [child EXCEPT ![i].at = "free"]
        /\ left' = IF child[i].at = "free" THEN left - 1 ELSE left
        /\ meant' = [meant EXCEPT ![m] = Append(meant[m], w)]
        /\ IF x \in Pipes
           THEN Len(pipe[x]) < Capacity /\ pipe' = [pipe EXCEPT ![x] = Append(pipe[x], w)] /\ UNCHANGED arrived
           ELSE arrived' = [arrived EXCEPT ![x] = Append(arrived[x], w)] /\ UNCHANGED pipe
    BY <1>6 DEF WritesTo, x, m, w
  <2>2. child[i].at = "free" => left > 0
    BY <1>6 DEF WritesTo
  <2> DEFINE c == [child[i] EXCEPT !.at = "free"]
  <2>3. c \in Command /\ c.eof = child[i].eof /\ c.status = child[i].status /\ child' = [child EXCEPT ![i] = c]
    BY <1>1, <2>1 DEF Command
  <2> HIDE DEF c
  <2>4. /\ Len(child') = Len(child) /\ DOMAIN child' = DOMAIN child /\ child'[i] = c
        /\ \A j \in DOMAIN child : j # i => child'[j] = child[j]
    BY <1>1, <2>3, Changed DEF Ends
  <2>5. /\ meant' \in [Places -> Seq(Item)] /\ meant'[m] = Append(meant[m], w)
        /\ \A p \in Places : p # m => meant'[p] = meant[p]
    <3>1. Append(meant[m], w) \in Seq(Item)
      BY <1>2
    <3> QED BY <1>2, <2>1, <3>1
  <2>6. /\ pipe' \in [Pipes -> Seq(Item)] /\ \A p \in Pipes : Len(pipe'[p]) <= Capacity
        /\ x \in Pipes => pipe'[x] = Append(pipe[x], w)
        /\ \A p \in Pipes : p # x => pipe'[p] = pipe[p]
    <3>1. CASE x \in Pipes
      <4>1. Append(pipe[x], w) \in Seq(Item) /\ Len(Append(pipe[x], w)) <= Capacity
        BY <1>2, <2>1, <3>1, ProcessesAssumption
      <4> QED BY <1>2, <2>1, <3>1, <4>1
    <3>2. CASE x \notin Pipes
      BY <1>2, <2>1, <3>2
    <3> QED BY <3>1, <3>2
  <2>7. /\ arrived' \in [Places -> Seq(Item)]
        /\ x \notin Pipes => arrived'[x] = Append(arrived[x], w)
        /\ \A p \in Places : p # x \/ x \in Pipes => arrived'[p] = arrived[p]
    <3>1. Append(arrived[x], w) \in Seq(Item)
      BY <1>2
    <3> QED BY <1>2, <2>1, <3>1
  <2>8. DataTyped'
    <3>1. left' \in 0 .. MaxWrites
      BY <1>2, <2>1, <2>2, ProcessesAssumption
    <3> QED BY <1>2, <2>1, <2>5, <2>6, <2>7, <3>1 DEF DataTyped
  <2>9. Straight'
    <3>1. SUFFICES ASSUME NEW p \in Direct PROVE arrived'[p] = meant'[p]
      BY DEF Straight
    <3>2. arrived[p] = meant[p] /\ p \in Places /\ p \notin Pipes
      BY PlacesDiffer DEF Data, Straight
    <3>3. CASE x = p
      BY <1>3, <2>5, <2>7, <3>2, <3>3, Apart
    <3>4. CASE x # p
      <4>1. m # p
        BY <1>3, <3>4, Apart DEF Through
      <4> QED BY <2>5, <2>7, <3>2, <3>4, <4>1
    <3> QED BY <3>3, <3>4
  <2>10. ASSUME NEW y \in {Out, Err}, NEW sink, NEW channel \in {Own("channel"), Own("errchannel")},
                Flow(y, sink, channel),
                IF x = y THEN m = Through(y, sink, channel) ELSE m \notin {y, channel}
         PROVE  Flow(y, sink, channel)'
    <3>1. y \in Pipes /\ y \in Places /\ channel \in Places /\ channel # y /\ Through(y, sink, channel) \in {y, channel}
      BY Apart, PlacesDiffer DEF Through
    <3>2. arrived'[channel] = <<>> /\ arrived'[y] = arrived[y]
      <4>1. x # channel
        BY <1>3, Apart
      <4>2. x \in Pipes \/ x # y
        BY <3>1
      <4> QED BY <2>7, <2>10, <3>1, <4>1, <4>2 DEF Flow
    <3>3. \A z \in {y, channel} : z # Through(y, sink, channel) => meant'[z] = <<>>
      BY <2>5, <2>10, <3>1 DEF Flow
    <3>4. arrived'[y] \o pipe'[y] = meant'[Through(y, sink, channel)]
      <4>1. CASE x = y
        <5>1. arrived[y] \in Seq(Item) /\ pipe[y] \in Seq(Item) /\ w \in Item
          BY <1>2, <3>1
        <5> DEFINE a == arrived[y]
                   b == pipe[y]
        <5>2. a \o Append(b, w) = Append(a \o b, w)
          <6>1. a \in Seq(Item) /\ b \in Seq(Item)
            BY <5>1
          <6> HIDE DEF a, b
          <6> QED BY <5>1, <6>1, Added
        <5> QED BY <2>5, <2>6, <2>10, <3>1, <3>2, <4>1, <5>2 DEF Flow
      <4>2. CASE x # y
        BY <2>5, <2>6, <2>10, <3>1, <3>2, <4>2 DEF Flow
      <4> QED BY <4>1, <4>2
    <3> QED BY <3>2, <3>3, <3>4 DEF Flow, Through
  <2>11. Flows'
    <3>1. SUFFICES ASSUME pc # "done"
                   PROVE  Flow(Out, plan.stdout, Own("channel"))' /\ Flow(Err, plan.stderr, Own("errchannel"))'
      BY <2>1 DEF Flows, Flow
    <3>2. Flow(Out, plan.stdout, Own("channel")) /\ Flow(Err, plan.stderr, Own("errchannel"))
      BY <3>1 DEF Data, Flows
    <3>3. IF x = Out THEN m = Through(Out, plan.stdout, Own("channel")) ELSE m \notin {Out, Own("channel")}
      BY <1>3, Apart DEF Through
    <3>4. IF x = Err THEN m = Through(Err, plan.stderr, Own("errchannel")) ELSE m \notin {Err, Own("errchannel")}
      BY <1>3, Apart DEF Through
    <3>5. Flow(Out, plan.stdout, Own("channel"))'
      BY <2>1, <2>10, <3>2, <3>3 DEF Flow
    <3>6. Flow(Err, plan.stderr, Own("errchannel"))'
      BY <2>1, <2>10, <3>2, <3>4 DEF Flow
    <3> QED BY <3>5, <3>6
  <2>12. Unopened'
    <3>1. ASSUME NEW y \in {Out, Err}, y \notin Opened(plan) PROVE pipe'[y] = <<>>
      BY <1>4, <2>6, <3>1, PlacesDiffer DEF Data, Unopened
    <3> QED BY <2>1, <3>1 DEF Unopened
  <2>13. Drained'
    <3>1. ASSUME NEW y \in {Out, Err}, NEW thread, Drains(y, thread) PROVE Drains(y, thread)'
      <4>1. Holds(y, "read", thread)' <=> Holds(y, "read", thread)
        BY <2>1 DEF Holds
      <4>2. Has(y, "write")' <=> Has(y, "write")
        BY <2>1 DEF Has
      <4>3. x = y => Has(y, "write")
        BY <1>1, HasEnd, PlacesDiffer DEF Ends, EndsTyped, Holders
      <4>4. x # y => pipe'[y] = pipe[y]
        BY <2>6, PlacesDiffer
      <4> QED BY <3>1, <4>1, <4>2, <4>3, <4>4 DEF Drains
    <3> QED BY <2>1, <3>1 DEF Data, Drained
  <2>14. Fed'
    BY <2>1 DEF Data, Fed, Holds, Has
  <2>15. ToTheEnd'
    <3>1. pipe'[In] = pipe[In]
      BY <1>2, <2>6, PlacesDiffer
    <3>2. \A j : UNCHANGED StdinOf(j)
      BY <2>1 DEF StdinOf
    <3>3. \A j \in DOMAIN child : child'[j].eof = child[j].eof
      BY <2>3, <2>4
    <3> QED BY <2>1, <2>4, <3>1, <3>2, <3>3 DEF Data, ToTheEnd
  <2>16. LastHeard'
    <3>1. SUFFICES ASSUME Len(child) = plan.last PROVE child'[plan.last].status # "broken"
      BY <2>1, <2>4 DEF LastHeard
    <3>2. plan.last \in DOMAIN child /\ child[plan.last].status # "broken"
      BY <1>1, <3>1, Planned, HoldersDiffer DEF Ends, Data, LastHeard
    <3> QED BY <2>3, <2>4, <3>2
  <2>17. Answered'
    BY <1>1, <2>1 DEF Answered, Finished
  <2> QED BY <2>8, <2>9, <2>11, <2>12, <2>13, <2>14, <2>15, <2>16, <2>17 DEF Data
<1> QED BY <1>5, <1>6

LEMMA ChildData ==
  ASSUME Departures = {}, Ends, Data, NEW i \in Stages, ChildStep(i)
  PROVE  Data'
<1>1. /\ Running(i) /\ child[i] \in Command /\ i \in DOMAIN child /\ i <= plan.last
      /\ ~Finished /\ plan.last \in Nat
  BY HeldRunning, Unfinished, Planned, HoldersDiffer DEF ChildStep, Ends
<1>3. pipe \in [Pipes -> Seq(Item)] /\ text \in 0 .. Text /\ left \in 0 .. MaxWrites
  BY DEF Data, DataTyped
<1>5. CASE Exits(i)
  <2>1. PICK status \in {"ok", "failed"} : child' = [child EXCEPT ![i].at = "ended", ![i].status = status]
    BY <1>5 DEF Exits
  <2> DEFINE c == [child[i] EXCEPT !.at = "ended", !.status = status]
  <2>2. c \in Command /\ c.status = status /\ c.eof = child[i].eof /\ child' = [child EXCEPT ![i] = c]
    BY <1>1, <2>1 DEF Command
  <2>3. UNCHANGED <<plan, pc, pipe, text, arrived, meant, answer>> /\ left' \in 0 .. MaxWrites /\ held' = held \ HeldBy(i)
    BY <1>3, <1>5 DEF Exits
  <2> HIDE DEF c
  <2> QED BY <1>1, <2>2, <2>3, CommandData
<1>6. ASSUME NEW what \in {"read", "out", "err"}, NEW place, Stuck(i, what, place) PROVE Data'
  <2> DEFINE c == [child[i] EXCEPT !.at = what]
  <2>1. c \in Command /\ c.status = child[i].status /\ c.eof = child[i].eof /\ child' = [child EXCEPT ![i] = c]
    BY <1>1, <1>6 DEF Command, Stuck
  <2>2. UNCHANGED <<plan, pc, pipe, text, arrived, meant, answer>> /\ UNCHANGED held
    BY <1>6 DEF Stuck
  <2>3. left' \in 0 .. MaxWrites
    BY <1>3, <1>6, ProcessesAssumption DEF Stuck
  <2> HIDE DEF c
  <2> QED BY <1>1, <2>1, <2>2, <2>3, CommandData
<1>7. CASE ReadsFrom(i, StdinOf(i))
  <2> DEFINE x == StdinOf(i)
  <2>1. ~child[i].eof /\ UNCHANGED <<plan, pc, held, text, left, arrived, answer, meant>>
    BY <1>7 DEF ReadsFrom
  <2>2. x # Own("stdin") /\ x \notin {Out, Err}
    BY <1>1, <2>1, Inputs DEF Data, ToTheEnd
  <2>3. x \in Pipes
    <3>1. i > 1 => i - 1 \in Stages
      BY ProcessesAssumption DEF Stages
    <3> QED BY <2>2, <3>1, PlacesDiffer DEF StdinOf
  <2>4. Holds(x, "read", i) /\ Has(x, "read")
    <3>1. Holds(x, "read", i)
      BY <1>1, <2>3, HeldRunning
    <3> QED BY <3>1, HasEnd DEF Ends, EndsTyped, Holders
  <2> HIDE DEF x
  <2>5. \A j : UNCHANGED StdinOf(j)
    BY <2>1 DEF StdinOf
  <2>6. \/ pipe' = [pipe EXCEPT ![x] = Tail(pipe[x])] /\ pipe[x] # <<>>
        \/ UNCHANGED pipe
    BY <1>7 DEF ReadsFrom, x
  <2>7. /\ pipe' \in [Pipes -> Seq(Item)] /\ \A p \in Pipes : Len(pipe'[p]) <= Capacity
        /\ \A p \in Pipes : p # x => pipe'[p] = pipe[p]
        /\ pipe[x] = <<>> => UNCHANGED pipe
    <3>1. CASE UNCHANGED pipe
      BY <1>3, <3>1 DEF Data, DataTyped
    <3>2. CASE pipe' = [pipe EXCEPT ![x] = Tail(pipe[x])] /\ pipe[x] # <<>>
      <4>1. Tail(pipe[x]) \in Seq(Item) /\ Len(Tail(pipe[x])) \in Nat /\ Len(Tail(pipe[x])) <= Len(pipe[x])
            /\ Len(pipe[x]) \in Nat
        BY <1>3, <2>3, <3>2
      <4>2. \A p \in Pipes : Len(pipe[p]) <= Capacity
        BY DEF Data, DataTyped
      <4>3. Len(Tail(pipe[x])) <= Capacity
        BY <2>3, <4>1, <4>2, ProcessesAssumption
      <4> QED BY <1>3, <2>3, <3>2, <4>1, <4>2, <4>3
    <3> QED BY <2>6, <3>1, <3>2
  <2>8. pipe'[Out] = pipe[Out] /\ pipe'[Err] = pipe[Err]
    BY <2>2, <2>7, PlacesDiffer
  <2>9. PICK c \in Command :
          /\ child' = [child EXCEPT ![i] = c] /\ c.status = child[i].status
          /\ c.eof => pipe[x] = <<>> /\ ~Has(x, "write")
    <3>1. CASE pipe[x] # <<>>
      <4> DEFINE c == [child[i] EXCEPT !.at = "free"]
      <4>1. child' = [child EXCEPT ![i] = c] /\ c.status = child[i].status /\ ~c.eof /\ c \in Command
        BY <1>1, <1>7, <2>1, <3>1 DEF ReadsFrom, Command, x
      <4> HIDE DEF c
      <4> QED BY <4>1
    <3>2. CASE pipe[x] = <<>>
      <4> DEFINE c == [child[i] EXCEPT !.at = "free", !.eof = TRUE]
      <4>1. child' = [child EXCEPT ![i] = c] /\ c.status = child[i].status /\ c \in Command
        BY <1>1, <1>7, <3>2 DEF ReadsFrom, Command, x
      <4>2. ~Has(x, "write")
        BY <1>7, <3>2 DEF ReadsFrom, x
      <4> HIDE DEF c
      <4> QED BY <3>2, <4>1, <4>2
    <3> QED BY <3>1, <3>2
  <2>10. /\ Len(child') = Len(child) /\ DOMAIN child' = DOMAIN child /\ child'[i] = c
         /\ \A j \in DOMAIN child : j # i => child'[j] = child[j]
    BY <1>1, <2>9, Changed DEF Ends
  <2>11. DataTyped'
    BY <2>1, <2>7 DEF Data, DataTyped
  <2>12. (Straight /\ Unopened)'
    BY <2>1, <2>8 DEF Data, Straight, Unopened
  <2>13. Flows'
    BY <2>1, <2>8 DEF Data, Flows, Flow
  <2>14. (Drained /\ Fed)'
    BY <2>1, <2>8 DEF Data, Drained, Drains, Fed, Holds, Has
  <2>15. c.eof /\ x = In => text = 0 /\ pipe[In] = <<>>
    <3>1. SUFFICES ASSUME c.eof, x = In PROVE text = 0 /\ pipe[In] = <<>>
      OBVIOUS
    <3>2. pipe[In] = <<>> /\ ~Has(In, "write") /\ Has(In, "read") /\ plan.stdin = "text"
      BY <2>4, <2>9, <3>1, Inputs DEF x
    <3>3. \A h \in Holders : ~Holds(In, "write", h)
      BY <3>2, HasEnd DEF Ends, EndsTyped
    <3>4. pc # "spawn"
      <4>1. pc = "spawn" => Holds(In, "write", Exec)
        BY <3>2 DEF Ends, HeldByExec, Opened
      <4> QED BY <3>3, <4>1 DEF Holders
    <3>5. text = 0
      BY <3>2, <3>3, <3>4 DEF Data, Fed, Holders, Threads
    <3> QED BY <3>2, <3>5
  <2>16. ToTheEnd'
    <3>1. ASSUME NEW j \in DOMAIN child, child'[j].eof, StdinOf(j) = In PROVE text = 0 /\ pipe'[In] = <<>>
      <4>1. text = 0 /\ pipe[In] = <<>>
        BY <2>10, <2>15, <3>1 DEF Data, ToTheEnd, x
      <4>2. UNCHANGED pipe \/ (x # In /\ pipe'[In] = pipe[In])
        BY <2>7, <4>1, PlacesDiffer
      <4> QED BY <4>1, <4>2
    <3>2. ASSUME NEW j \in DOMAIN child, StdinOf(j) = Own("stdin") PROVE child'[j].eof
      <4>1. j # i
        BY <2>2, <3>2 DEF x
      <4> QED BY <2>10, <3>2, <4>1 DEF Data, ToTheEnd
    <3> QED BY <2>1, <2>5, <2>10, <3>1, <3>2 DEF ToTheEnd
  <2>17. LastHeard'
    <3>1. SUFFICES ASSUME Len(child) = plan.last PROVE child'[plan.last].status # "broken"
      BY <2>1, <2>10 DEF LastHeard
    <3>2. plan.last \in DOMAIN child /\ child[plan.last].status # "broken"
      BY <1>1, <3>1, Planned, HoldersDiffer DEF Ends, Data, LastHeard
    <3> QED BY <2>9, <2>10, <3>2
  <2>18. Answered'
    BY <1>1, <2>1 DEF Answered, Finished
  <2> QED BY <2>11, <2>12, <2>13, <2>14, <2>16, <2>17, <2>18 DEF Data
<1>8. ASSUME NEW stream \in {"out", "err"}, WritesTo(i, stream, Target(i, stream)) PROVE Data'
  BY <1>1, <1>8, WritesData
<1> QED BY <1>5, <1>6, <1>7, <1>8 DEF ChildStep, Target

LEMMA NextData ==
  ASSUME Departures = {}, Ends, Data, [Next]_vars
  PROVE  Data'
<1>1. CASE ExecStep
  BY <1>1, SpawnData, SpawnFailsData, ReleaseData, WaitData, AnswerData DEF ExecStep
<1>2. CASE WriterStep
  BY <1>2, WriterData
<1>3. CASE ReaderStep(OutReader, Out) \/ ReaderStep(ErrReader, Err)
  BY <1>3, ReaderData
<1>4. ASSUME NEW i \in Stages, ChildStep(i) PROVE Data'
  BY <1>4, ChildData
<1>5. CASE UNCHANGED vars
  <2>1. UNCHANGED <<plan, pc, held, pipe, text, child, left, arrived, answer, meant>>
    BY <1>5 DEF vars
  <2>2. (DataTyped /\ Straight /\ Flows /\ Unopened /\ Drained /\ Fed)'
    BY <2>1 DEF Data, DataTyped, Straight, Flows, Flow, Unopened, Drained, Drains, Fed, Holds, Has
  <2>3. (ToTheEnd /\ LastHeard)'
    BY <2>1 DEF Data, ToTheEnd, LastHeard, StdinOf
  <2>4. Answered'
    BY <2>1 DEF Data, Answered, Finished, Silent, Failed
  <2> QED BY <2>2, <2>3, <2>4 DEF Data
<1> QED BY <1>1, <1>2, <1>3, <1>4, <1>5 DEF Next

LEMMA DataTold ==
  ASSUME Ends, Data
  PROVE  Told
<1>1. TypeOK
  <2>1. Holders = Stages \cup Threads \cup {Exec}
    BY DEF Holders
  <2> QED BY <2>1, Planned DEF Ends, EndsTyped, Data, DataTyped, TypeOK
<1>2. Places \ (Pipes \cup {Own("channel"), Own("errchannel")}) = Direct
  <2>1. Places = Pipes \cup Direct \cup {Own("channel"), Own("errchannel")}
    BY DEF Places, Direct
  <2> QED BY <2>1, PlacesDiffer
<1> QED BY <1>1, <1>2 DEF Told, Data, Straight, Answered, LastHeard, ToTheEnd

(* What the commands write comes to the place their redirections name, all of *)
(* it and in order: whatever the plan, whichever command ends first, and      *)
(* whoever has to wait for room in a pipe.  The last command is never killed  *)
(* for want of a reader, and the first finds the end of its input only after  *)
(* the whole text.                                                            *)
THEOREM AllIsTold ==
  ASSUME Departures = {}
  PROVE  Spec => []Told
<1>1. Init => Ends /\ Data
  BY InitEnds, InitData
<1>2. Ends /\ Data /\ [Next]_vars => Ends' /\ Data'
  BY NextEnds, NextData
<1>3. Ends /\ Data => Told
  BY DataTold
<1> QED BY <1>1, <1>2, <1>3, PTL DEF Spec
================================================================================
