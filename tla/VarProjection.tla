--------------------------- MODULE VarProjection ---------------------------
(***************************************************************************)
(* Variables between evaluations.  The interpreter keeps one table; each   *)
(* VM that runs keeps a vector of slots, taken from the table when the VM  *)
(* starts, written back when it hands control to another evaluation, and   *)
(* taken again when it gets control back.  A name the chunk's own name     *)
(* table lacks is interned past its end, behind a directory that is itself *)
(* a slot.  A script that runs in the frame of a procedure sees a table    *)
(* made of that frame, and the interpreter's is displaced meanwhile.       *)
(***************************************************************************)
EXTENDS Naturals, Sequences, SequencesExt

CONSTANTS
  Names,        (* names of variables, without the `::`                      *)
  Links,        (* names that bodies bind with upvar                         *)
  Values, Undef,
  Mixes         (* what a behaviour is made of: see Mix                      *)

(* The commands that run another evaluation, and the uses of them that the   *)
(* code does not serve as its documents say.                                 *)
Features == {"eval", "uplevel", "apply", "frame", "call", "upvar"}
            \cup {"overflow", "viewcall", "viewuplevel", "spellings", "computed", "outward"}

(* The features scripts use and the names they touch, and the bounds on VMs  *)
(* at once, on activations in one VM and on names in the table of a chunk.   *)
Mix == [uses : SUBSET Features, names : SUBSET Names, runs : Nat, frames : Nat, known : Nat]

ASSUME MixesAssumption == Mixes \subseteq Mix
ASSUME UndefAssumption == Undef \notin Values

VARIABLES
  globals,      (* State.globals                                             *)
  projections,  (* State.projections, outermost first                        *)
  runs,         (* the VMs in progress, outermost first; the last one runs   *)
  mix           (* of Mixes, what this behaviour is made of                  *)

vars == <<globals, projections, runs, mix>>

Uses == mix.uses

Cell   == Values \cup {Undef}
Key    == [q : BOOLEAN, n : Names]      (* q: written with a `::`            *)
Bare(n) == [q |-> FALSE, n |-> n]
Qual(n) == [q |-> TRUE, n |-> n]

(* Link: a global by its index in the VM's slots, or a local of a frame.  of *)
(* is the variable the link was made for, which the descriptor does not hold.*)
Global(i, n)   == [home |-> "global", at |-> i, of |-> n]
Slot(f, n)     == [home |-> "slot", at |-> f, of |-> n]
NoLink         == [home |-> "none", at |-> 0, of |-> Undef]

Run       == runs[Len(runs)]
Level     == Len(Run.frames)            (* current_level                     *)
Frame     == Run.frames[Level]
Projected == projections # <<>>

----------------------------------------------------------------------------
(* The slot vector.                                                          *)

Base(names) == Len(names) + 1

Peek(slots, i) == IF i \in DOMAIN slots THEN slots[i] ELSE Undef

Grown(slots, i) ==
  slots \o [k \in 1..(IF i > Len(slots) THEN i - Len(slots) ELSE 0) |-> Undef]

overflow_names(names, slots) ==
  IF Peek(slots, Base(names)) = Undef THEN <<>> ELSE slots[Base(names)]

root_global(n) == IF Projected THEN projections[1].outer[n] ELSE globals[n]

(* Where a chunk's own name is in the table: a projection does not answer    *)
(* for a qualified one.                                                      *)
(* (The `::` of a name is not looked at.)                                    *)
FromTheView(names, table, root) == [i \in 1..Len(names) |-> table[names[i].n]]

seed(names, table, root) ==
  [i \in 1..Len(names) |-> IF names[i].q THEN root[names[i].n] ELSE table[names[i].n]]

(* (The directory is not kept.)                                              *)
WithoutDirectory(names, table, root, old) == seed(names, table, root)

reproject(names, table, root, old) ==
  LET over == overflow_names(names, old)
  IN  IF over = <<>> THEN seed(names, table, root)
      ELSE seed(names, table, root) \o <<over>> \o [k \in 1..Len(over) |-> table[over[k]]]

(* write_back at the end of a chunk, to the table in effect: a slot left     *)
(* Undef removes the variable.                                               *)
written(names, slots, table) ==
  LET over == overflow_names(names, slots)
      own(n)   == {i \in 1..Len(names) : names[i].n = n /\ ~(names[i].q /\ Projected)}
      extra(n) == {k \in 1..Len(over) : over[k] = n}
  IN  [n \in Names |->
        IF extra(n) # {} THEN Peek(slots, Base(names) + CHOOSE k \in extra(n) : TRUE)
        ELSE IF own(n) # {} THEN slots[CHOOSE i \in own(n) : \A j \in own(n) : j <= i]
        ELSE table[n]]

(* The same for the names a projection does not hold, which go past it.      *)
(* (They are dropped.)                                                       *)
NothingPast(names, slots, past) == past

writtenPast(names, slots, past) ==
  IF ~Projected THEN past
  ELSE [past EXCEPT ![1].outer =
         [n \in Names |-> IF \E i \in 1..Len(names) : names[i] = Qual(n)
                            THEN slots[CHOOSE i \in 1..Len(names) : names[i] = Qual(n)]
                            ELSE past[1].outer[n]]]

flushed     == written(Run.names, Run.slots, globals)
flushedPast == writtenPast(Run.names, Run.slots, projections)

RootOf(table, past) == IF past = <<>> THEN table ELSE past[1].outer

----------------------------------------------------------------------------
(* Where a name the running code uses is kept.                               *)

(* A local of the innermost activation, rather than a slot of the VM.        *)
IsLocal(key) == Level > 0 /\ ~key.q /\ key.n \notin Frame.declared

(* The name as the chunk's table has it: a chunk compiled outside projections*)
(* has one entry for both spellings.                                         *)
Spelled(key) == IF Run.projected THEN key ELSE Bare(key.n)

(* global_home and intern_overflow: the slot for a name settled at run time, *)
(* by the first entry of either spelling, and the slots with it in them.     *)
Named(n) == {i \in 1..Len(Run.names) : Run.names[i].n = n}

global_home(n) ==
  LET over == overflow_names(Run.names, Run.slots)
      base == Base(Run.names)
  IN  IF Named(n) # {}
        THEN [at |-> CHOOSE i \in Named(n) : \A j \in Named(n) : i <= j, slots |-> Run.slots]
      ELSE IF \E k \in 1..Len(over) : over[k] = n
        THEN [at |-> base + CHOOSE k \in 1..Len(over) : over[k] = n, slots |-> Run.slots]
      ELSE LET at == base + Len(over) + 1
           IN  [at |-> at,
                slots |-> [Grown(Run.slots, at) EXCEPT ![base] = Append(over, n),
                                                       ![at] = globals[n]]]

(* A written name's slot is settled when the chunk is compiled.              *)
Written(key) == \E i \in 1..Len(Run.names) : Run.names[i] = Spelled(key)

WrittenHome(key) ==
  [at |-> CHOOSE i \in 1..Len(Run.names) : Run.names[i] = Spelled(key), slots |-> Run.slots]

(* The names scripts compute and spell, as Uses allows: while a projection is*)
(* in effect one spelling per name, and a computed `::` only when written.   *)
Computes(key) ==
  \/ "computed" \in Uses
  \/ ~Projected
  \/ /\ key.q => key \in ToSet(Run.names)
     /\ [key EXCEPT !.q = ~@] \notin ToSet(Run.names)

Spells(names, past) ==
  \/ "spellings" \in Uses
  \/ \A i \in 1..Len(names), p \in ToSet(past) :
       names[i].q => names[i].n \notin p.declared

Homes(key) == (IF Written(key) THEN {WrittenHome(key)} ELSE {})
              \cup (IF Computes(key) THEN {global_home(key.n)} ELSE {})

----------------------------------------------------------------------------
(* Reading and assigning; an assignment of Undef is an unset.                *)

Put(run) == runs' = [runs EXCEPT ![Len(runs)] = run]

Assign(key, x) ==
  /\ runs # <<>>
  /\ IF IsLocal(key)
       THEN Put([Run EXCEPT !.frames[Level].locals[key.n] = x])
       ELSE \E h \in Homes(key) : Put([Run EXCEPT !.slots = [h.slots EXCEPT ![h.at] = x]])
  /\ UNCHANGED <<globals, projections>>

(* What a read answers, by each way the code may have to reach the name; a   *)
(* read of a computed name interns it.                                       *)
Answers(key) == IF IsLocal(key) THEN {Frame.locals[key.n]}
                ELSE {h.slots[h.at] : h \in Homes(key)}

Read(key) ==
  /\ runs # <<>> /\ ~IsLocal(key)
  /\ \E h \in Homes(key) : Put([Run EXCEPT !.slots = h.slots])
  /\ UNCHANGED <<globals, projections>>

(* upvar, its target in the interpreter's variables or in a frame of this VM.*)
UpvarGlobal(l, n) ==
  /\ "upvar" \in Uses /\ runs # <<>> /\ Level > 0 /\ Computes(Qual(n))
  /\ Named(n) = {} => "overflow" \in Uses
  /\ LET h == global_home(n)
     IN  Put([Run EXCEPT !.slots = h.slots, !.frames[Level].links[l] = Global(h.at, n)])
  /\ UNCHANGED <<globals, projections>>

UpvarFrame(l, f, n) ==
  /\ "upvar" \in Uses /\ runs # <<>> /\ f \in 1..(Level - 1)
  /\ n \notin Run.frames[f].declared \/ "outward" \in Uses
  /\ Put([Run EXCEPT !.frames[Level].links[l] = Slot(f, n)])
  /\ UNCHANGED <<globals, projections>>

Linked(l) == runs # <<>> /\ Level > 0 /\ Frame.links[l] # NoLink

(* read_link answers nothing past the end; write_link grows the vector.      *)
LinkAnswer(k) == IF k.home = "global" THEN Peek(Run.slots, k.at)
                 ELSE Run.frames[k.at].locals[k.of]

AssignLink(l, x) ==
  /\ Linked(l)
  /\ LET k == Frame.links[l]
     IN  Put(IF k.home = "global"
               THEN [Run EXCEPT !.slots = [Grown(@, k.at) EXCEPT ![k.at] = x]]
               ELSE [Run EXCEPT !.frames[k.at].locals[k.of] = x])
  /\ UNCHANGED <<globals, projections>>

----------------------------------------------------------------------------
(* Beginning and ending.                                                     *)

(* The name tables of chunks; only a script lowered for a projection tells   *)
(* the two spellings apart.                                                  *)
Tables(spellings) ==
  {t \in UNION {[1..k -> Key] : k \in 0..mix.known} :
     IsInjective(t) /\ \A i \in 1..Len(t) : t[i].q \in spellings /\ t[i].n \in mix.names}

Activation(declared) == [locals |-> [n \in Names |-> Undef], declared |-> declared,
                         links |-> [l \in Links |-> NoLink]]

(* The names the bodies of a chunk may declare: an entry of its table each.  *)
Declarable(names) ==
  SUBSET (IF Projected /\ "viewcall" \notin Uses THEN {}
          ELSE {n \in Names : Bare(n) \in ToSet(names)})

(* Machine::start, for the command op with the interpreter's tables as given.*)
Begin(op, frame, names, projected, frames, table, past) ==
  /\ Len(runs) < mix.runs
  /\ globals' = table /\ projections' = past
  /\ runs' = Append(runs, [op |-> op, frame |-> frame, names |-> names,
                           projected |-> projected, frames |-> frames,
                           slots |-> seed(names, table, RootOf(table, past))])

Start ==
  /\ runs = <<>>
  /\ \E t \in Tables({FALSE}) : Begin("main", 0, t, FALSE, <<>>, globals, projections)

(* eval at the level of the script, uplevel #0 and apply: the script runs    *)
(* against the table in effect.                                              *)
Script(op) ==
  /\ op \in Uses /\ runs # <<>>
  /\ op = "eval" => Level = 0
  /\ op = "uplevel" /\ Projected => "viewuplevel" \in Uses
  /\ \E t \in Tables(IF Projected THEN BOOLEAN ELSE {FALSE}) :
       Spells(t, projections) /\ Begin(op, 0, t, Projected, <<>>, flushed, flushedPast)

(* in_frame: eval in a body, and uplevel to frame f.  The names declared are *)
(* those of the body the command is in.                                      *)
ScriptInFrame(f) ==
  /\ "frame" \in Uses /\ runs # <<>> /\ f \in 1..Level
  /\ Run.frames[f].declared = Frame.declared \/ "outward" \in Uses
  /\ LET locals == Run.frames[f].locals
         view   == [n \in Names |->
                      IF locals[n] # Undef \/ n \notin Frame.declared THEN locals[n]
                      ELSE flushed[n]]
         past   == Append(flushedPast, [outer |-> flushed, declared |-> Frame.declared])
     IN  \E t \in Tables(BOOLEAN) :
           Spells(t, past) /\ Begin("frame", f, t, TRUE, <<>>, view, past)

(* call_in_chunk: a procedure of another chunk, on a VM of its own.          *)
CallElsewhere ==
  /\ "call" \in Uses /\ runs # <<>>
  /\ \E t \in Tables({FALSE}) : \E declared \in Declarable(t) :
       /\ Projected => "viewcall" \in Uses \/ t = <<>>
       /\ Begin("call", 0, t, FALSE, <<Activation(declared)>>, flushed, flushedPast)

(* A procedure of the running chunk is a frame of the same VM.               *)
Call ==
  /\ "call" \in Uses /\ runs # <<>> /\ Level < mix.frames
  /\ \E declared \in Declarable(Run.names) :
       Put([Run EXCEPT !.frames = Append(@, Activation(declared))])
  /\ UNCHANGED <<globals, projections>>

Bodies(run) == IF run.op = "call" THEN 1 ELSE 0     (* frames it began with  *)

ReturnFromBody ==
  /\ runs # <<>> /\ Level > Bodies(Run)
  /\ Put([Run EXCEPT !.frames = SubSeq(@, 1, Level - 1)])
  /\ UNCHANGED <<globals, projections>>

(* The VM ends: what it wrote goes to the table, and the VM that waits takes *)
(* its slots again.  After in_frame the frame gets its locals back first.    *)
Resumed(op, run, table, past) ==
  [run EXCEPT !.slots = IF op \in {"eval", "call"}
                          THEN reproject(run.names, table, RootOf(table, past), @)
                          ELSE seed(run.names, table, RootOf(table, past))]

(* What a script left in the view of a frame are the frame's locals, but for *)
(* the names declared.                       (Only what it had is read back.)*)
WithoutNew(locals, declared, after) ==
  [n \in Names |-> IF locals[n] = Undef THEN Undef ELSE after[n]]

harvest_locals(locals, declared, after) ==
  [n \in Names |-> IF n \in declared /\ locals[n] = Undef THEN Undef ELSE after[n]]

End ==
  /\ runs # <<>> /\ Level = Bodies(Run) /\ Run.op # "frame"
  /\ globals' = flushed /\ projections' = flushedPast
  /\ LET k == Len(runs) - 1
     IN  runs' = IF k = 0 THEN <<>>
                 ELSE [SubSeq(runs, 1, k) EXCEPT
                         ![k] = Resumed(Run.op, @, flushed, flushedPast)]

EndInFrame ==
  /\ runs # <<>> /\ Level = 0 /\ Run.op = "frame"
  /\ LET k        == Len(runs) - 1
         inner    == flushedPast[Len(flushedPast)]
         past     == SubSeq(flushedPast, 1, Len(flushedPast) - 1)
         table    == [n \in Names |-> IF n \in inner.declared THEN flushed[n]
                                      ELSE inner.outer[n]]
         caller   == [runs[k] EXCEPT !.frames[Run.frame].locals =
                        harvest_locals(@, inner.declared, flushed)]
     IN  /\ globals' = table /\ projections' = past
         /\ runs' = Append(SubSeq(runs, 1, k - 1), Resumed("frame", caller, table, past))

----------------------------------------------------------------------------
Init == /\ globals = [n \in Names |-> Undef]
        /\ projections = <<>> /\ runs = <<>> /\ mix \in Mixes

Next ==
  /\ \/ \E q \in BOOLEAN, n \in mix.names :
          LET key == [q |-> q, n |-> n]
          IN  Read(key) \/ \E x \in Cell : Assign(key, x)
     \/ \E l \in Links, x \in Cell : AssignLink(l, x)
     \/ \E l \in Links, n \in mix.names : UpvarGlobal(l, n)
     \/ \E l \in Links, n \in mix.names, f \in 1..mix.frames : UpvarFrame(l, f, n)
     \/ Start \/ \E op \in {"eval", "uplevel", "apply"} : Script(op)
     \/ \E f \in 1..mix.frames : ScriptInFrame(f)
     \/ CallElsewhere \/ Call \/ ReturnFromBody \/ End \/ EndInFrame
  /\ UNCHANGED mix

Spec == Init /\ [][Next]_vars

----------------------------------------------------------------------------
(* The variables as the running VM has them: table k is what it would leave  *)
(* in State.globals (the last) or behind projection k + 1 if it ended now.   *)
Now(k) ==
  IF runs = <<>> THEN globals
  ELSE IF k < Len(projections) THEN flushedPast[k + 1].outer ELSE flushed

(* The interpreter's variable n: the frame a script is in holds the names it *)
(* declared, and the script may reach past it.                               *)
Past(n)    == runs # <<>> /\ Qual(n) \in ToSet(Run.names)
RootNow(n) == IF Projected /\ n \in projections[1].declared /\ ~Past(n)
                THEN Now(1)[n] ELSE Now(0)[n]

Slots == Seq(Cell \cup Seq(Names))
Link  == [home : {"none", "global", "slot"}, at : Nat, of : Names \cup {Undef}]

(* Types of the state: directories of overflow names are values of slots.    *)
TypeOK ==
  /\ globals \in [Names -> Cell]
  /\ \A p \in ToSet(projections) :
       p.outer \in [Names -> Cell] /\ p.declared \subseteq Names
  /\ \A r \in ToSet(runs) :
       /\ r.names \in Seq(Key) /\ IsInjective(r.names)
       /\ \A i \in 1..Len(r.slots) :
            IF i = Base(r.names) THEN r.slots[i] = Undef \/ r.slots[i] \in Seq(Names)
            ELSE r.slots[i] \in Cell
       /\ \A a \in ToSet(r.frames) :
            /\ a.locals \in [Names -> Cell] /\ a.declared \subseteq Names
            /\ a.links \in [Links -> Link]
  /\ Len(projections) = Len(SelectSeq(runs, LAMBDA r : r.op = "frame"))

(* An upvar to a global still points at it after its VM waited for another   *)
(* evaluation and took its slots again (reproject): the slot the link holds  *)
(* is the one the chunk's table, or its directory, gives for that name.      *)
LinksStayBound ==
  TypeOK /\ \A r \in ToSet(runs) : \A a \in ToSet(r.frames) : \A l \in Links :
    a.links[l].home = "global" =>
      LET at   == a.links[l].at
          over == overflow_names(r.names, r.slots)
      IN  IF at < Base(r.names) THEN r.names[at].n = a.links[l].of
          ELSE at - Base(r.names) \in DOMAIN over /\ over[at - Base(r.names)] = a.links[l].of

(* A `::`-qualified name, and in a body a name it declared global, answers   *)
(* with the interpreter's variable in whichever VM and frame it is read      *)
(* (seed, global_home), and so does a link to it.                            *)
GlobalNamesAnswerGlobals ==
  runs # <<>> =>
    /\ \A key \in Key :
         key.q \/ (Level > 0 /\ key.n \in Frame.declared)
           => Answers(key) \subseteq {RootNow(key.n)}
    /\ \A l \in Links :
         Linked(l) /\ Frame.links[l].home = "global"
           => LinkAnswer(Frame.links[l]) = RootNow(Frame.links[l].of)

(* Neither beginning nor ending an evaluation changes a variable of the      *)
(* interpreter: all the copying in between (flush, seed, in_frame) loses no  *)
(* write and brings back no old value.                                       *)
ExchangesKeepVariables ==
  [][Len(runs') # Len(runs) => \A n \in Names : RootNow(n)' = RootNow(n)]_vars
=============================================================================
