----------------------------- MODULE Namespaces -----------------------------
(***************************************************************************)
(* Namespaces and commands while a script runs (cmd_namespace.rs): the     *)
(* registry of namespaces, command names, export patterns and ensembles,   *)
(* and the table calls are made through (procs.rs), which `proc`, `rename`,*)
(* `namespace` and `namespace ensemble` keep in step with it.              *)
(***************************************************************************)
EXTENDS Naturals, FiniteSets

CONSTANTS
  Spaces,      (* the names of namespaces                                    *)
  Root,        (* the one of them that is `::`                               *)
  Above,       (* of each, the namespaces it is in, itself among them        *)
  Tails,       (* numbers for the last parts of command names, in their order*)
  Names,       (* the names scripts use for commands                         *)
  Patterns,    (* of Tails, and Star, for imports                            *)
  Exportable,  (* those of them each namespace may export                    *)
  MaxMade,     (* bound: how many procedures and ensembles are made          *)
  Departures,  (* what scripts do that the tables are not prepared for       *)
  None

Star == 0                                \* the pattern `*`
Name(ns, t) == <<ns, t>>
Ns(n)       == n[1]

ASSUME SpacesAssumption ==
  /\ Root \in Spaces /\ Above \in [Spaces -> SUBSET Spaces] /\ Above[Root] = {Root}
  /\ \A s \in Spaces : {s, Root} \subseteq Above[s] /\ \A u \in Above[s] : Above[u] \subseteq Above[s]
ASSUME NamesAssumption == Names \subseteq Spaces \X Tails
ASSUME PatternsAssumption == Tails \subseteq Nat \ {Star} /\ Patterns \subseteq Tails \cup {Star}
ASSUME ExportableAssumption == Exportable \in [Spaces -> SUBSET Patterns]
ASSUME DeparturesAssumption == Departures \subseteq {"original", "procedure", "ensemble", "nested"}

ASSUME NoneAssumption == None \notin Spaces /\ None \notin Names /\ None \notin 1 .. MaxMade
ASSUME MaxMadeAssumption == MaxMade \in Nat

VARIABLES
  namespaces,  (* those that exist                                           *)
  commands,    (* the origin of each name that is a command, or None         *)
  gone,        (* names taken away from commands                             *)
  exports,     (* the patterns each namespace exports                        *)
  ensembles,   (* the namespace of each name that is an ensemble, or None    *)
  procs,       (* State.commands: the procedure a call of each name runs     *)
  made         (* how many there are                                         *)

registry == <<namespaces, commands, gone, exports, ensembles>>
vars     == <<registry, procs, made>>

Held(n)     == n \in Names /\ commands[n] # None
Inside(ns)  == {s \in Spaces : ns \in Above[s]}
Exists(ns)  == ns = Root \/ ns \in namespaces

(* What exists to a command that runs in a namespace, which exists by that.  *)
Known(here) == namespaces \cup Above[here]

string_match(t, p) == p \in {Star, t}

(* Names bound to another's command.                                         *)
Imports(n) == {m \in Names \ {n} : commands[m] = n}

(* Where departures begin: the command of a name others import goes, a       *)
(* procedure goes with its namespace, an ensemble's command is renamed,      *)
(* replaced or taken away, a namespace that exports goes with the one around.*)
Allows(departure, condition) == condition \/ departure \in Departures

----------------------------------------------------------------------------
(* The two-step search: the current namespace, then the root.                *)
Find(here, t) == IF Held(Name(here, t)) THEN Name(here, t) ELSE Name(Root, t)

(* ensure: namespaces, and every one around them.                            *)
ensure(some) == namespaces' = namespaces \cup UNION {Above[s] : s \in some}

(* define: a command of the name's own, from where a script runs.            *)
define(here, n) ==
  /\ ensure({here, Ns(n)})
  /\ commands' = [commands EXCEPT ![n] = n]
  /\ gone' = gone \ {n}

(* `namespace eval`.                                                         *)
Enter(here) == ensure({here}) /\ UNCHANGED <<commands, gone, exports, ensembles, procs, made>>

(* `proc`: both tables have it.                                              *)
Proc(here, n) ==
  /\ made < MaxMade /\ Allows("ensemble", ensembles[n] = None)
  /\ define(here, n)
  /\ procs' = [procs EXCEPT ![n] = made + 1]
  /\ made' = made + 1
  /\ UNCHANGED <<exports, ensembles>>

(* `namespace ensemble create`, for what a namespace exports.  (A name that  *)
(* is a procedure remains one.)                                              *)
EnsembleCreate(here, n) ==
  /\ made < MaxMade /\ Allows("ensemble", procs[n] = None)
  /\ define(here, n)
  /\ ensembles' = [ensembles EXCEPT ![n] = here]
  /\ made' = made + 1
  /\ UNCHANGED <<exports, procs>>

(* The origin moves with a command, not with an import of one.  (Always.)    *)
FollowsNobody(old, new) == commands[old]
Moved(old, new)         == IF commands[old] = old THEN new ELSE commands[old]

(* `rename`, to a name no command has.                                       *)
Rename(here, old, new) ==
  /\ Held(old) /\ ~Held(new)
  /\ Allows("original", Imports(old) = {}) /\ Allows("ensemble", ensembles[old] = None)
  /\ ensure({here, Ns(new)})
  /\ commands' = [commands EXCEPT ![old] = None, ![new] = Moved(old, new)]
  /\ procs' = [procs EXCEPT ![old] = None, ![new] = IF procs[old] = None THEN @ ELSE procs[old]]
  /\ gone' = (gone \cup {old}) \ {new}
  /\ UNCHANGED <<exports, ensembles, made>>

(* `rename` to nothing.                                                      *)
RenameAway(here, old) ==
  /\ Held(old)
  /\ Allows("original", Imports(old) = {}) /\ Allows("ensemble", ensembles[old] = None)
  /\ commands' = [commands EXCEPT ![old] = None]
  /\ procs' = [procs EXCEPT ![old] = None]
  /\ ensure({here})
  /\ gone' = gone \cup {old}
  /\ UNCHANGED <<exports, ensembles, made>>

(* `namespace delete`: the names inside go from the registry, the patterns   *)
(* and ensembles of that very namespace too.                                 *)
Doomed(ns) == {n \in Names : Held(n) /\ Ns(n) \in Inside(ns)}

Delete(here, ns) ==
  /\ ns \in Known(here)
  /\ Allows("original", \A n \in Doomed(ns) : Imports(n) \subseteq Doomed(ns))
  /\ Allows("procedure", \A n \in Doomed(ns) : procs[n] = None)
  /\ Allows("ensemble", \A n \in Names :
               ensembles[n] \in Inside(ns) \/ (n \in Doomed(ns) /\ ensembles[n] # None)
                 => n \in Doomed(ns) /\ ensembles[n] = ns)
  /\ Allows("nested", \A s \in Inside(ns) \ {ns} : exports[s] = {})
  /\ namespaces' = Known(here) \ Inside(ns)
  /\ commands' = [n \in Names |-> IF n \in Doomed(ns) THEN None ELSE commands[n]]
  /\ gone' = gone \cup Doomed(ns)
  /\ exports' = [exports EXCEPT ![ns] = {}]
  /\ ensembles' = [n \in Names |-> IF ensembles[n] = ns THEN None ELSE ensembles[n]]
  /\ UNCHANGED <<procs, made>>

(* `namespace export`, one pattern or `-clear`.                              *)
Export(here, p) ==
  /\ ensure({here})
  /\ exports' = [exports EXCEPT ![here] = @ \cup {p}]
  /\ UNCHANGED <<commands, gone, ensembles, procs, made>>

ExportClear(here) ==
  /\ ensure({here})
  /\ exports' = [exports EXCEPT ![here] = {}]
  /\ UNCHANGED <<commands, gone, ensembles, procs, made>>

(* What a pattern imports, up to the first name that is another command, for *)
(* want of `-force`.                                                         *)
Exported(from, pattern) ==
  {t \in Tails : /\ Held(Name(from, t)) /\ string_match(t, pattern)
                 /\ \E e \in exports[from] : string_match(t, e)}

Taken(here, from, force) ==
  IF force THEN {}
  ELSE {t \in Exported(from, Star) :
          Held(Name(here, t)) /\ commands[Name(here, t)] # commands[Name(from, t)]}

Imported(here, from, pattern, force) ==
  LET exported == Exported(from, pattern)
  IN  {t \in exported : \A u \in exported \cap Taken(here, from, force) : t < u}

(* `namespace import`: a name is bound to the origin of what it imports.     *)
OriginOf(from, t) == commands[Name(from, t)]

Import(here, from, pattern, force) ==
  /\ from \in Known(here) /\ from # here
  /\ LET names == {Name(here, t) : t \in Imported(here, from, pattern, force)}
     IN  /\ names \subseteq Names
         /\ Allows("original", \A n \in names : OriginOf(from, n[2]) # n => Imports(n) = {})
         /\ Allows("procedure", \A n \in names : OriginOf(from, n[2]) # n => procs[n] = None)
         /\ Allows("ensemble", \A n \in names : OriginOf(from, n[2]) # n => ensembles[n] = None)
         /\ commands' = [n \in Names |-> IF n \in names THEN OriginOf(from, n[2]) ELSE commands[n]]
         /\ gone' = gone \ names
  /\ ensure({here})
  /\ UNCHANGED <<exports, ensembles, procs, made>>

(* `namespace forget`: what the current namespace imports of those commands. *)
Sources(from, pattern) == {Name(from, t) : t \in {u \in Tails : Held(Name(from, u)) /\ string_match(u, pattern)}}

(* (Any name of theirs.)                                                     *)
ForgetsAll(here, from, pattern) ==
  {n \in Names : Ns(n) = here /\ Held(n) /\ commands[n] \in Sources(from, pattern)}
Forgotten(here, from, pattern) ==
  {n \in Names : Ns(n) = here /\ Held(n) /\ n \notin Sources(from, pattern)
                 /\ commands[n] \in Sources(from, pattern)}

Forget(here, from, pattern) ==
  /\ from \in Known(here)
  /\ LET names == Forgotten(here, from, pattern)
     IN  /\ commands' = [n \in Names |-> IF n \in names THEN None ELSE commands[n]]
         /\ gone' = gone \cup names
  /\ ensure({here})
  /\ UNCHANGED <<exports, ensembles, procs, made>>

----------------------------------------------------------------------------
Init ==
  /\ namespaces = {Root}
  /\ commands = [n \in Names |-> None] /\ gone = {}
  /\ exports = [s \in Spaces |-> {}] /\ ensembles = [n \in Names |-> None]
  /\ procs = [n \in Names |-> None] /\ made = 0

Next ==
  \/ \E here \in Spaces, t \in Tails :
        \/ RenameAway(here, Find(here, t))
        \/ \E new \in Names : Rename(here, Find(here, t), new)
  \/ \E here \in Spaces, n \in Names : Proc(here, n) \/ EnsembleCreate(here, n)
  \/ \E here \in Spaces :
        \/ Enter(here) \/ ExportClear(here)
        \/ \E ns \in Spaces : Delete(here, ns)
        \/ \E p \in Exportable[here] : Export(here, p)
        \/ \E from \in Spaces, p \in Patterns :
              Forget(here, from, p) \/ \E force \in BOOLEAN : Import(here, from, p, force)

Spec == Init /\ [][Next]_vars

----------------------------------------------------------------------------
(* What a call of a name runs: a procedure, or else an ensemble.             *)
Commands == [proc : 1 .. MaxMade, of : {None}] \cup [proc : {None}, of : Spaces]
Called(n) == [proc |-> procs[n], of |-> IF procs[n] = None THEN ensembles[n] ELSE None]

TypeOK ==
  /\ namespaces \subseteq Spaces
  /\ commands \in [Names -> Names \cup {None}]
  /\ gone \subseteq Names
  /\ exports \in [Spaces -> SUBSET Patterns]
  /\ ensembles \in [Names -> Spaces \cup {None}]
  /\ procs \in [Names -> 1 .. MaxMade \cup {None}]
  /\ made \in 0 .. MaxMade

(* No procedure can be called by a name that is no command: "the run-time    *)
(* command table has to follow" (cmd_namespace.rs, rename).                  *)
NoneOutlivesItsName == \A n \in Names : procs[n] # None => Held(n)

(* The tables speak of the same names: a command is in a namespace that      *)
(* exists, with all those around it, and is not counted as taken away; a     *)
(* name that is called is a command of its own, an ensemble only one whose   *)
(* namespace is there; and every import leads to a command that can be       *)
(* called, not to another import.                                            *)
OnesAroundExist == \A s \in namespaces : Above[s] \subseteq namespaces \cup {Root}
HeldWhereItIs   == \A n \in Names : Held(n) => Exists(Ns(n)) /\ n \notin gone
EnsemblesStand  == \A n \in Names :
                      ensembles[n] # None => commands[n] = n /\ procs[n] = None /\ Exists(ensembles[n])
ExportsStand    == \A s \in Spaces : exports[s] # {} => Exists(s)
ImportsLead     == \A n \in Names : Held(n) => commands[commands[n]] = commands[n] /\ Called(commands[n]) \in Commands

TablesAgree ==
  /\ TypeOK
  /\ OnesAroundExist /\ HeldWhereItIs
  /\ NoneOutlivesItsName
  /\ EnsemblesStand /\ ExportsStand
  /\ ImportsLead

(* Five tables are one: whatever is defined, imported, renamed, forgotten    *)
(* and deleted, a name means one thing, what it was last bound to.           *)
Meaning(n) ==
  IF ~Held(n) THEN [what |-> "free", command |-> None, of |-> None]
  ELSE IF commands[n] = n THEN [what |-> "own", command |-> Called(n), of |-> None]
  ELSE [what |-> "import", command |-> None, of |-> commands[n]]

Meanings == [n \in Names |-> Meaning(n)]
Promised == INSTANCE Commands WITH bound <- Meanings
ImplementsCommands == Promised!Spec
=============================================================================
