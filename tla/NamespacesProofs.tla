-------------------------- MODULE NamespacesProofs --------------------------
(***************************************************************************)
(* Proofs about Namespaces, for any namespaces, names, patterns and        *)
(* bounds, of scripts that do not depart from what the tables are prepared *)
(* for: the tables agree, and together they are one.                       *)
(***************************************************************************)
EXTENDS Namespaces, TLAPS

(* A procedure is never called by an import's own name: what `namespace       *)
(* forget` takes from the registry alone is nowhere else.                     *)
ProcsAreOwn == \A n \in Names : procs[n] # None => commands[n] = n

IInv == TablesAgree /\ ProcsAreOwn

(* What no script can break.                                                  *)
Registry == TypeOK /\ OnesAroundExist /\ HeldWhereItIs

-----------------------------------------------------------------------------
(* What the parts of the invariant give.                                      *)

LEMMA Parts ==
  ASSUME IInv
  PROVE  /\ Registry /\ TypeOK /\ OnesAroundExist /\ HeldWhereItIs /\ NoneOutlivesItsName
         /\ EnsemblesStand /\ ExportsStand /\ ImportsLead /\ ProcsAreOwn
BY DEF IInv, TablesAgree, Registry

LEMMA Ensured ==
  ASSUME Registry, NEW some \in SUBSET Spaces, ensure(some)
  PROVE  /\ namespaces \subseteq namespaces' /\ namespaces' \subseteq Spaces
         /\ OnesAroundExist'
         /\ \A s \in some : Exists(s)'
         /\ \A s \in Spaces : Exists(s) => Exists(s)'
BY SpacesAssumption DEF Registry, ensure, OnesAroundExist, Exists, TypeOK

(* Nothing is called by a name that is no command, and what is called by one  *)
(* that is leads to a command.                                                *)
LEMMA FreeNames ==
  ASSUME IInv, NEW n \in Names, commands[n] = None
  PROVE  procs[n] = None /\ ensembles[n] = None /\ Imports(n) = {}
<1>1. procs[n] = None
  BY Parts DEF NoneOutlivesItsName, Held
<1>2. ensembles[n] = None
  BY Parts, NoneAssumption DEF EnsemblesStand
<1>3. ASSUME NEW m \in Names, commands[m] = n PROVE FALSE
  BY <1>3, Parts, NoneAssumption DEF ImportsLead, Held
<1> QED BY <1>1, <1>2, <1>3 DEF Imports

LEMMA Origins ==
  ASSUME IInv, NEW n \in Names, Held(n)
  PROVE  /\ commands[n] \in Names
         /\ commands[commands[n]] = commands[n]
         /\ Held(commands[n])
         /\ commands[n] # n => procs[n] = None /\ ensembles[n] = None /\ Imports(n) = {}
         /\ procs[commands[n]] # None \/ ensembles[commands[n]] # None
<1>1. commands[n] \in Names /\ commands[commands[n]] = commands[n] /\ Held(commands[n])
  BY Parts, NoneAssumption DEF TypeOK, ImportsLead, Held
<1>2. ASSUME commands[n] # n PROVE procs[n] = None /\ ensembles[n] = None
  BY <1>2, Parts DEF ProcsAreOwn, EnsemblesStand
<1>3. ASSUME commands[n] # n, NEW m \in Names, commands[m] = n PROVE FALSE
  BY <1>3, Parts, NoneAssumption DEF ImportsLead, Held
<1>4. procs[commands[n]] # None \/ ensembles[commands[n]] # None
  BY Parts, NoneAssumption DEF ImportsLead, Called, Commands
<1> QED BY <1>1, <1>2, <1>3, <1>4 DEF Imports

(* A name with a procedure or an ensemble is one of a command.                *)
LEMMA CallOf ==
  ASSUME NEW p \in 1 .. MaxMade \cup {None}, NEW e \in Spaces \cup {None}
  PROVE  [proc |-> p, of |-> IF p = None THEN e ELSE None] \in Commands <=> p # None \/ e # None
BY NoneAssumption DEF Commands

-----------------------------------------------------------------------------
LEMMA InitIInv == Init => IInv
<1> SUFFICES ASSUME Init PROVE IInv
  OBVIOUS
<1>1. TypeOK
  BY SpacesAssumption, MaxMadeAssumption DEF Init, TypeOK
<1>2. OnesAroundExist
  BY SpacesAssumption DEF Init, OnesAroundExist
<1> QED BY <1>1, <1>2 DEF Init, IInv, TablesAgree, HeldWhereItIs, NoneOutlivesItsName,
                          EnsemblesStand, ExportsStand, ImportsLead, ProcsAreOwn, Held

-----------------------------------------------------------------------------
(* Whatever a script does: commands that come are in namespaces made for them *)
(* and are gone no more.                                                      *)

LEMMA RegistryGrows ==
  ASSUME Registry, NEW some \in SUBSET Spaces, ensure(some), gone' \subseteq Names,
         commands' \in [Names -> Names \cup {None}], exports' \in [Spaces -> SUBSET Patterns],
         ensembles' \in [Names -> Spaces \cup {None}], procs' \in [Names -> 1 .. MaxMade \cup {None}],
         made' \in 0 .. MaxMade,
         \A n \in Names : commands'[n] # None =>
            \/ n \notin gone' /\ Ns(n) \in some
            \/ commands[n] # None /\ (n \in gone' => n \in gone)
  PROVE  Registry'
<1>1. TypeOK' /\ OnesAroundExist'
  BY Ensured DEF TypeOK
<1>2. HeldWhereItIs'
  BY Ensured, NamesAssumption DEF Registry, HeldWhereItIs, Held, Ns
<1> QED BY <1>1, <1>2 DEF Registry

LEMMA NextRegistry == Registry /\ [Next]_vars => Registry'
<1> SUFFICES ASSUME Registry, Next \/ UNCHANGED vars PROVE Registry'
  OBVIOUS
<1>1. ASSUME NEW here \in Spaces, NEW n \in Names, Proc(here, n) \/ EnsembleCreate(here, n) PROVE Registry'
  <2>1. ensure({here, Ns(n)}) /\ {here, Ns(n)} \in SUBSET Spaces
    BY <1>1, NamesAssumption DEF Proc, EnsembleCreate, define, Ns
  <2>2. made + 1 \in 1 .. MaxMade /\ made' \in 0 .. MaxMade
    BY <1>1, MaxMadeAssumption DEF Registry, Proc, EnsembleCreate, TypeOK
  <2>3. /\ procs' \in [Names -> 1 .. MaxMade \cup {None}] /\ ensembles' \in [Names -> Spaces \cup {None}]
        /\ commands' = [commands EXCEPT ![n] = n] /\ gone' = gone \ {n} /\ exports' = exports
    BY <1>1, <2>2 DEF Registry, Proc, EnsembleCreate, define, TypeOK
  <2> QED BY <2>1, <2>2, <2>3, RegistryGrows DEF Registry, TypeOK
<1>2. ASSUME NEW here \in Spaces, NEW old, NEW new \in Names, Rename(here, old, new) PROVE Registry'
  <2>1. ensure({here, Ns(new)}) /\ {here, Ns(new)} \in SUBSET Spaces
    BY <1>2, NamesAssumption DEF Rename, Ns
  <2>2. old \in Names /\ commands[old] \in Names /\ Moved(old, new) \in Names
    BY <1>2 DEF Rename, Held, Registry, TypeOK, Moved
  <2>3. /\ procs' \in [Names -> 1 .. MaxMade \cup {None}]
        /\ commands' = [commands EXCEPT ![old] = None, ![new] = Moved(old, new)]
        /\ gone' = (gone \cup {old}) \ {new}
        /\ UNCHANGED <<exports, ensembles, made>>
    BY <1>2, <2>2 DEF Rename, Registry, TypeOK
  <2> QED BY <2>1, <2>2, <2>3, RegistryGrows DEF Registry, TypeOK
<1>3. ASSUME NEW here \in Spaces, NEW old, RenameAway(here, old) PROVE Registry'
  <2>1. /\ old \in Names /\ commands' = [commands EXCEPT ![old] = None]
        /\ procs' = [procs EXCEPT ![old] = None] /\ gone' = gone \cup {old}
        /\ ensure({here}) /\ UNCHANGED <<exports, ensembles, made>>
    BY <1>3 DEF RenameAway, Held
  <2> QED BY <2>1, RegistryGrows DEF Registry, TypeOK
<1>4. ASSUME NEW here \in Spaces, NEW ns \in Spaces, Delete(here, ns) PROVE Registry'
  <2>1. /\ namespaces' = Known(here) \ Inside(ns)
        /\ commands' = [n \in Names |-> IF n \in Doomed(ns) THEN None ELSE commands[n]]
        /\ gone' = gone \cup Doomed(ns) /\ Doomed(ns) \subseteq Names
        /\ exports' = [exports EXCEPT ![ns] = {}]
        /\ ensembles' = [n \in Names |-> IF ensembles[n] = ns THEN None ELSE ensembles[n]]
        /\ UNCHANGED <<procs, made>>
    BY <1>4 DEF Delete, Doomed
  <2>2. TypeOK'
    BY <2>1, SpacesAssumption DEF Registry, TypeOK, Known
  <2>3. OnesAroundExist'
    <3> SUFFICES ASSUME NEW s \in namespaces', NEW u \in Above[s], u # Root PROVE u \in namespaces'
      BY DEF OnesAroundExist
    <3>1. s \in Spaces /\ s \in Known(here) /\ s \notin Inside(ns)
      BY <2>1, <2>2 DEF TypeOK
    <3>2. u \in Spaces /\ Above[u] \subseteq Above[s]
      BY <3>1, SpacesAssumption
    <3>3. u \in Known(here)
      BY <3>1, SpacesAssumption DEF Registry, Known, OnesAroundExist
    <3>4. u \notin Inside(ns)
      BY <3>1, <3>2 DEF Inside
    <3> QED BY <2>1, <3>3, <3>4
  <2>4. HeldWhereItIs'
    <3> SUFFICES ASSUME NEW n \in Names, commands'[n] # None PROVE Exists(Ns(n))' /\ n \notin gone'
      BY DEF HeldWhereItIs, Held, Exists
    <3>1. Held(n) /\ n \notin Doomed(ns)
      BY <2>1 DEF Held
    <3>2. Ns(n) \notin Inside(ns) /\ Exists(Ns(n)) /\ n \notin gone
      BY <3>1 DEF Registry, HeldWhereItIs, Doomed
    <3> QED BY <2>1, <3>1, <3>2 DEF Exists, Known
  <2> QED BY <2>2, <2>3, <2>4 DEF Registry
<1>5. ASSUME NEW here \in Spaces,
             \/ Enter(here) \/ ExportClear(here)
             \/ \E p \in Exportable[here] : Export(here, p)
      PROVE  Registry'
  <2>1. /\ ensure({here}) /\ UNCHANGED <<commands, gone, ensembles, procs, made>>
        /\ exports' \in [Spaces -> SUBSET Patterns]
    BY <1>5, ExportableAssumption DEF Enter, Export, ExportClear, Registry, TypeOK
  <2> QED BY <2>1, RegistryGrows DEF Registry, TypeOK
<1>6. ASSUME NEW here \in Spaces, NEW from \in Spaces, NEW p \in Patterns, Forget(here, from, p)
      PROVE  Registry'
  <2>1. /\ ensure({here}) /\ UNCHANGED <<exports, ensembles, procs, made>>
        /\ commands' = [n \in Names |-> IF n \in Forgotten(here, from, p) THEN None ELSE commands[n]]
        /\ gone' = gone \cup Forgotten(here, from, p) /\ Forgotten(here, from, p) \subseteq Names
    BY <1>6 DEF Forget, Forgotten
  <2> QED BY <2>1, RegistryGrows DEF Registry, TypeOK
<1>7. ASSUME NEW here \in Spaces, NEW from \in Spaces, NEW p \in Patterns, NEW force \in BOOLEAN,
             Import(here, from, p, force)
      PROVE  Registry'
  <2> DEFINE names == {Name(here, t) : t \in Imported(here, from, p, force)}
  <2>1. /\ ensure({here}) /\ UNCHANGED <<exports, ensembles, procs, made>>
        /\ commands' = [n \in Names |-> IF n \in names THEN OriginOf(from, n[2]) ELSE commands[n]]
        /\ gone' = gone \ names /\ names \subseteq Names
    BY <1>7 DEF Import
  <2>2. ASSUME NEW n \in names PROVE Ns(n) = here /\ OriginOf(from, n[2]) \in Names
    <3>1. PICK t \in Imported(here, from, p, force) : n = Name(here, t)
      OBVIOUS
    <3>2. Held(Name(from, t)) /\ n[2] = t /\ Ns(n) = here
      BY <3>1 DEF Imported, Exported, Name, Ns
    <3> QED BY <3>2 DEF OriginOf, Held, Registry, TypeOK
  <2> HIDE DEF names
  <2>3. commands' \in [Names -> Names \cup {None}]
    BY <2>1, <2>2 DEF Registry, TypeOK
  <2> QED BY <2>1, <2>2, <2>3, RegistryGrows DEF Registry, TypeOK
<1>8. CASE UNCHANGED vars
  BY <1>8 DEF Registry, TypeOK, OnesAroundExist, HeldWhereItIs, Held, Exists, vars, registry
<1> QED BY <1>1, <1>2, <1>3, <1>4, <1>5, <1>6, <1>7, <1>8 DEF Next

(* Whatever a script does, departures and all: a command is in a namespace    *)
(* that exists, with all those around it, and is not counted as taken away.   *)
THEOREM CommandsAreSomewhere == Spec => []Registry
<1>1. Init => Registry
  BY InitIInv, Parts
<1>2. Registry /\ [Next]_vars => Registry'
  BY NextRegistry
<1> QED BY <1>1, <1>2, PTL DEF Spec

-----------------------------------------------------------------------------
(* One lemma for each command, of a script that departs from nothing.         *)

LEMMA EnterKeeps ==
  ASSUME IInv, Registry', NEW here \in Spaces, Enter(here)
  PROVE  IInv'
<1>1. ensure({here}) /\ UNCHANGED <<commands, gone, exports, ensembles, procs, made>>
  BY DEF Enter
<1>2. \A s \in Spaces : Exists(s) => Exists(s)'
  BY <1>1, Ensured, Parts
<1>3. TypeOK' /\ OnesAroundExist'
  BY DEF Registry
<1>4. \A n \in Names : Held(n)' <=> Held(n)
  BY <1>1 DEF Held
<1>5. HeldWhereItIs' /\ NoneOutlivesItsName' /\ ProcsAreOwn'
  BY <1>1, <1>2, <1>4, Parts, NamesAssumption
     DEF HeldWhereItIs, NoneOutlivesItsName, ProcsAreOwn, Ns
<1>6. EnsemblesStand' /\ ExportsStand'
  BY <1>1, <1>2, Parts DEF EnsemblesStand, ExportsStand, TypeOK
<1>7. ImportsLead'
  BY <1>1, <1>4, Parts DEF ImportsLead, Called
<1> QED BY <1>3, <1>5, <1>6, <1>7 DEF IInv, TablesAgree

LEMMA ExportKeeps ==
  ASSUME IInv, Registry', NEW here \in Spaces,
         ExportClear(here) \/ \E p \in Exportable[here] : Export(here, p)
  PROVE  IInv'
<1>1. ensure({here}) /\ UNCHANGED <<commands, gone, ensembles, procs, made>>
  BY DEF Export, ExportClear
<1>2. /\ exports' \in [Spaces -> SUBSET Patterns]
      /\ \A s \in Spaces : exports'[s] = exports[s] \/ s = here
  BY Parts, ExportableAssumption DEF Export, ExportClear, TypeOK
<1>3. TypeOK' /\ OnesAroundExist'
  BY DEF Registry
<1>4. /\ \A s \in Spaces : Exists(s) => Exists(s)'
      /\ Exists(here)'
  BY <1>1, Ensured, Parts
<1>5. \A n \in Names : Held(n)' <=> Held(n)
  BY <1>1 DEF Held
<1>6. HeldWhereItIs' /\ NoneOutlivesItsName' /\ ProcsAreOwn'
  BY <1>1, <1>4, <1>5, Parts, NamesAssumption
     DEF HeldWhereItIs, NoneOutlivesItsName, ProcsAreOwn, Ns
<1>7. EnsemblesStand'
  BY <1>1, <1>4, Parts DEF EnsemblesStand, TypeOK
<1>8. ExportsStand'
  BY <1>2, <1>4, Parts DEF ExportsStand
<1>9. ImportsLead'
  BY <1>1, <1>5, Parts DEF ImportsLead, Called
<1> QED BY <1>3, <1>6, <1>7, <1>8, <1>9 DEF IInv, TablesAgree

(* `proc` and `namespace ensemble create`: the name is now a command of its   *)
(* own, and every other is what it was.                                       *)
LEMMA Defined ==
  ASSUME IInv, Registry', NEW here \in Spaces, NEW n \in Names, define(here, n), exports' = exports,
         procs' \in [Names -> 1 .. MaxMade \cup {None}],
         ensembles' \in [Names -> Spaces \cup {None}], made' \in 0 .. MaxMade,
         \A m \in Names \ {n} : procs'[m] = procs[m] /\ ensembles'[m] = ensembles[m],
         procs'[n] # None <=> ensembles'[n] = None,
         ensembles'[n] \in {None, here}
  PROVE  IInv'
<1>1. ensure({here, Ns(n)}) /\ {here, Ns(n)} \in SUBSET Spaces
  BY NamesAssumption DEF define, Ns
<1>2. /\ commands' \in [Names -> Names \cup {None}]
      /\ commands'[n] = n
      /\ \A m \in Names \ {n} : commands'[m] = commands[m]
      /\ gone' = gone \ {n}
  BY Parts DEF define, TypeOK
<1>3. TypeOK' /\ OnesAroundExist'
  BY DEF Registry
<1>4. /\ \A s \in Spaces : Exists(s) => Exists(s)'
      /\ Exists(here)' /\ Exists(Ns(n))'
  BY <1>1, Ensured, Parts DEF Exists
<1>5. Held(n)' /\ \A m \in Names \ {n} : Held(m)' <=> Held(m)
  BY <1>2, NoneAssumption DEF Held
<1>6. HeldWhereItIs'
  BY DEF Registry
<1>7. NoneOutlivesItsName' /\ ProcsAreOwn'
  BY <1>2, <1>5, Parts DEF NoneOutlivesItsName, ProcsAreOwn
<1>8. EnsemblesStand'
  BY <1>2, <1>4, Parts DEF EnsemblesStand, TypeOK
<1>9. ExportsStand'
  BY <1>4, Parts DEF ExportsStand
<1>10. ImportsLead'
  <2>0. \A m \in Names : Held(m)' => commands'[m] \in Names
    BY <1>2 DEF Held
  <2> SUFFICES ASSUME NEW m \in Names, Held(m)'
               PROVE  /\ commands'[commands'[m]] = commands'[m]
                      /\ procs'[commands'[m]] # None \/ ensembles'[commands'[m]] # None
    BY <2>0, <1>3, CallOf DEF ImportsLead, Called
  <2>1. CASE commands'[m] = n
    BY <1>2, <2>1
  <2>2. CASE commands'[m] # n
    BY <1>2, <1>5, <2>2, Origins
  <2> QED BY <2>1, <2>2
<1> QED BY <1>3, <1>6, <1>7, <1>8, <1>9, <1>10 DEF IInv, TablesAgree

LEMMA ProcKeeps ==
  ASSUME Departures = {}, IInv, Registry', NEW here \in Spaces, NEW n \in Names, Proc(here, n)
  PROVE  IInv'
<1>1. define(here, n) /\ exports' = exports /\ ensembles' = ensembles /\ ensembles[n] = None
  BY DEF Proc, Allows
<1>2. made + 1 \in 1 .. MaxMade /\ made' \in 0 .. MaxMade
  BY Parts, MaxMadeAssumption DEF Proc, TypeOK
<1>3. /\ procs' \in [Names -> 1 .. MaxMade \cup {None}]
      /\ procs'[n] # None
      /\ \A m \in Names \ {n} : procs'[m] = procs[m]
  BY <1>2, Parts, NoneAssumption DEF Proc, TypeOK
<1> QED BY <1>1, <1>2, <1>3, Parts, Defined DEF TypeOK

LEMMA EnsembleCreateKeeps ==
  ASSUME Departures = {}, IInv, Registry', NEW here \in Spaces, NEW n \in Names, EnsembleCreate(here, n)
  PROVE  IInv'
<1>1. define(here, n) /\ exports' = exports /\ procs' = procs /\ procs[n] = None
  BY DEF EnsembleCreate, Allows
<1>2. made' \in 0 .. MaxMade
  BY Parts, MaxMadeAssumption DEF EnsembleCreate, TypeOK
<1>3. /\ ensembles' \in [Names -> Spaces \cup {None}]
      /\ ensembles'[n] = here /\ here # None
      /\ \A m \in Names \ {n} : ensembles'[m] = ensembles[m]
  BY Parts, NoneAssumption DEF EnsembleCreate, TypeOK
<1> QED BY <1>1, <1>2, <1>3, Parts, Defined DEF TypeOK

LEMMA RenameKeeps ==
  ASSUME Departures = {}, IInv, Registry', NEW here \in Spaces, NEW old, NEW new \in Names,
         Rename(here, old, new)
  PROVE  IInv'
<1>1. /\ old \in Names /\ Held(old) /\ ~Held(new) /\ old # new
      /\ Imports(old) = {} /\ ensembles[old] = None
      /\ ensure({here, Ns(new)}) /\ {here, Ns(new)} \in SUBSET Spaces
      /\ exports' = exports /\ ensembles' = ensembles /\ made' = made
  BY NamesAssumption DEF Rename, Allows, Held, Ns
<1>2. procs[new] = None /\ ensembles[new] = None /\ Imports(new) = {}
  BY <1>1, FreeNames DEF Held
<1>3. Moved(old, new) \in Names /\ Moved(old, new) # old
  BY <1>1, Origins DEF Moved
<1>4. /\ commands' \in [Names -> Names \cup {None}]
      /\ commands'[old] = None /\ commands'[new] = Moved(old, new)
      /\ \A m \in Names \ {old, new} : commands'[m] = commands[m]
  BY <1>1, <1>3, Parts DEF Rename, TypeOK
<1>5. /\ procs' \in [Names -> 1 .. MaxMade \cup {None}]
      /\ procs'[old] = None /\ procs'[new] = procs[old]
      /\ \A m \in Names \ {old, new} : procs'[m] = procs[m]
  BY <1>1, <1>2, Parts DEF Rename, TypeOK
<1>6. gone' \subseteq Names /\ \A m \in Names : m \in gone' => m = old \/ (m \in gone /\ m # new)
  BY <1>1, Parts DEF Rename, TypeOK
<1>7. TypeOK' /\ OnesAroundExist'
  BY DEF Registry
<1>8. /\ \A s \in Spaces : Exists(s) => Exists(s)'
      /\ Exists(Ns(new))'
  BY <1>1, Ensured, Parts DEF Exists
<1>9. /\ ~Held(old)' /\ Held(new)'
      /\ \A m \in Names \ {old, new} : Held(m)' <=> Held(m)
  BY <1>3, <1>4, NoneAssumption DEF Held
<1>10. HeldWhereItIs'
  BY DEF Registry
<1>11. NoneOutlivesItsName'
  BY <1>1, <1>5, <1>9, Parts DEF NoneOutlivesItsName
<1>12. ProcsAreOwn'
  BY <1>1, <1>4, <1>5, Parts DEF ProcsAreOwn, Moved
<1>13. EnsemblesStand'
  BY <1>1, <1>2, <1>4, <1>5, <1>8, Parts DEF EnsemblesStand, TypeOK
<1>14. ExportsStand'
  BY <1>1, <1>8, Parts DEF ExportsStand
<1>15. ImportsLead'
  <2>0. \A m \in Names : Held(m)' => commands'[m] \in Names
    BY <1>4 DEF Held
  <2> SUFFICES ASSUME NEW m \in Names, Held(m)'
               PROVE  /\ commands'[commands'[m]] = commands'[m]
                      /\ procs'[commands'[m]] # None \/ ensembles'[commands'[m]] # None
    BY <2>0, <1>7, CallOf DEF ImportsLead, Called, TypeOK
  <2>1. CASE m = new /\ commands[old] = old
    BY <1>1, <1>4, <1>5, <2>1, Origins DEF Moved
  <2>2. CASE m = new /\ commands[old] # old
    BY <1>1, <1>4, <1>5, <2>2, Origins DEF Moved
  <2>3. CASE m # new
    <3>1. Held(m) /\ commands'[m] = commands[m] /\ commands[m] \notin {old, new}
      BY <1>1, <1>2, <1>4, <1>9, <2>3, Origins DEF Imports
    <3> QED BY <1>1, <1>4, <1>5, <3>1, Origins
  <2> QED BY <2>1, <2>2, <2>3
<1> QED BY <1>7, <1>10, <1>11, <1>12, <1>13, <1>14, <1>15 DEF IInv, TablesAgree

(* `rename` to nothing and `namespace forget`: names nothing is called by any *)
(* more, and that nothing imports.                                            *)
LEMMA Dropped ==
  ASSUME IInv, Registry', NEW here \in Spaces, ensure({here}), NEW names \in SUBSET Names,
         \A n \in names : Imports(n) = {} /\ ensembles[n] = None,
         commands' \in [Names -> Names \cup {None}], procs' \in [Names -> 1 .. MaxMade \cup {None}],
         \A n \in names : commands'[n] = None /\ procs'[n] = None,
         \A n \in Names \ names : commands'[n] = commands[n] /\ procs'[n] = procs[n],
         gone' = gone \cup names, UNCHANGED <<exports, ensembles, made>>
  PROVE  IInv'
<1>1. TypeOK' /\ OnesAroundExist'
  BY DEF Registry
<1>2. \A s \in Spaces : Exists(s) => Exists(s)'
  BY Ensured, Parts
<1>3. \A n \in Names : Held(n)' <=> Held(n) /\ n \notin names
  BY DEF Held
<1>4. HeldWhereItIs' /\ NoneOutlivesItsName' /\ ProcsAreOwn'
  BY <1>2, <1>3, Parts, NamesAssumption
     DEF HeldWhereItIs, NoneOutlivesItsName, ProcsAreOwn, Ns
<1>5. EnsemblesStand' /\ ExportsStand'
  BY <1>2, Parts DEF EnsemblesStand, ExportsStand, TypeOK
<1>6. ImportsLead'
  <2>0. \A m \in Names : Held(m)' => commands'[m] \in Names
    BY DEF Held
  <2> SUFFICES ASSUME NEW m \in Names, Held(m)'
               PROVE  /\ commands'[commands'[m]] = commands'[m]
                      /\ procs'[commands'[m]] # None \/ ensembles'[commands'[m]] # None
    BY <2>0, <1>1, CallOf DEF ImportsLead, Called, TypeOK
  <2>1. Held(m) /\ m \notin names
    BY <1>3
  <2>2. commands[m] \notin names
    BY <2>1 DEF Imports
  <2> QED BY <2>1, <2>2, Origins
<1> QED BY <1>1, <1>4, <1>5, <1>6 DEF IInv, TablesAgree

LEMMA RenameAwayKeeps ==
  ASSUME Departures = {}, IInv, Registry', NEW here \in Spaces, NEW old, RenameAway(here, old)
  PROVE  IInv'
<1>1. old \in Names /\ Imports(old) = {} /\ ensembles[old] = None
  BY DEF RenameAway, Allows, Held
<1> DEFINE names == {old}
<1>2. /\ commands' \in [Names -> Names \cup {None}] /\ procs' \in [Names -> 1 .. MaxMade \cup {None}]
      /\ \A n \in names : commands'[n] = None /\ procs'[n] = None
      /\ \A n \in Names \ names : commands'[n] = commands[n] /\ procs'[n] = procs[n]
  BY <1>1, Parts DEF RenameAway, TypeOK
<1>3. names \in SUBSET Names /\ \A n \in names : Imports(n) = {} /\ ensembles[n] = None
  BY <1>1
<1>4. ensure({here}) /\ gone' = gone \cup names /\ UNCHANGED <<exports, ensembles, made>>
  BY DEF RenameAway
<1> HIDE DEF names
<1> QED BY <1>2, <1>3, <1>4, Dropped

(* (What is forgotten is an import, so nothing is called by its name.)        *)
LEMMA ForgetKeeps ==
  ASSUME IInv, Registry', NEW here \in Spaces, NEW from \in Spaces, NEW p \in Patterns,
         Forget(here, from, p)
  PROVE  IInv'
<1> DEFINE names == Forgotten(here, from, p)
<1>1. names \in SUBSET Names /\ \A n \in names : Held(n) /\ commands[n] # n
  BY DEF Forgotten
<1>2. \A n \in names : Imports(n) = {} /\ ensembles[n] = None /\ procs[n] = None
  BY <1>1, Origins
<1>3. /\ commands' = [n \in Names |-> IF n \in names THEN None ELSE commands[n]]
      /\ ensure({here}) /\ gone' = gone \cup names /\ UNCHANGED <<exports, ensembles, procs, made>>
  BY DEF Forget
<1> HIDE DEF names
<1>4. /\ commands' \in [Names -> Names \cup {None}] /\ procs' \in [Names -> 1 .. MaxMade \cup {None}]
      /\ \A n \in names : commands'[n] = None /\ procs'[n] = None
      /\ \A n \in Names \ names : commands'[n] = commands[n] /\ procs'[n] = procs[n]
  BY <1>1, <1>2, <1>3, Parts DEF TypeOK
<1> QED BY <1>1, <1>2, <1>3, <1>4, Dropped

LEMMA DeleteKeeps ==
  ASSUME Departures = {}, IInv, Registry', NEW here \in Spaces, NEW ns \in Spaces, Delete(here, ns)
  PROVE  IInv'
<1> DEFINE names == Doomed(ns)
<1>1. /\ names \in SUBSET Names /\ \A n \in names : Held(n)
      /\ \A n \in Names \ names : Held(n) => Ns(n) \notin Inside(ns)
      /\ \A n \in names : Imports(n) \subseteq names /\ procs[n] = None
      /\ \A n \in Names : ensembles[n] \in Inside(ns) => n \in names /\ ensembles[n] = ns
      /\ \A n \in names : ensembles[n] # None => ensembles[n] = ns
      /\ \A s \in Inside(ns) \ {ns} : exports[s] = {}
  BY DEF Delete, Allows, Doomed
<1>2. /\ namespaces' = Known(here) \ Inside(ns)
      /\ commands' = [n \in Names |-> IF n \in names THEN None ELSE commands[n]]
      /\ gone' = gone \cup names
      /\ exports' = [exports EXCEPT ![ns] = {}]
      /\ ensembles' = [n \in Names |-> IF ensembles[n] = ns THEN None ELSE ensembles[n]]
      /\ UNCHANGED <<procs, made>>
  BY DEF Delete
<1> HIDE DEF names
<1>3. TypeOK' /\ OnesAroundExist' /\ HeldWhereItIs'
  BY DEF Registry
<1>4. \A s \in Spaces : Exists(s) /\ s \notin Inside(ns) => Exists(s)'
  BY <1>2 DEF Exists, Known
<1>5. \A n \in Names : Held(n)' <=> Held(n) /\ n \notin names
  BY <1>1, <1>2 DEF Held
<1>6. NoneOutlivesItsName' /\ ProcsAreOwn'
  BY <1>1, <1>2, <1>5, Parts DEF NoneOutlivesItsName, ProcsAreOwn
<1>7. EnsemblesStand'
  <2> SUFFICES ASSUME NEW n \in Names, ensembles'[n] # None
               PROVE  commands'[n] = n /\ procs'[n] = None /\ Exists(ensembles[n])' /\ ensembles'[n] = ensembles[n]
    BY DEF EnsemblesStand, Exists
  <2>1. ensembles'[n] = ensembles[n] /\ ensembles[n] # ns /\ ensembles[n] \in Spaces
    BY <1>2, Parts DEF TypeOK
  <2>2. n \notin names /\ ensembles[n] \notin Inside(ns)
    BY <1>1, <2>1
  <2>3. commands[n] = n /\ procs[n] = None /\ Exists(ensembles[n])
    BY <2>1, Parts, NoneAssumption DEF EnsemblesStand
  <2> QED BY <1>2, <1>4, <2>1, <2>2, <2>3 DEF Exists
<1>8. ExportsStand'
  BY <1>1, <1>2, <1>4, Parts DEF ExportsStand, TypeOK
<1>9. ImportsLead'
  <2>0. \A m \in Names : Held(m)' => commands'[m] \in Names
    BY <1>3 DEF Held, TypeOK
  <2> SUFFICES ASSUME NEW m \in Names, Held(m)'
               PROVE  /\ commands'[commands'[m]] = commands'[m]
                      /\ procs'[commands'[m]] # None \/ ensembles'[commands'[m]] # None
    BY <2>0, <1>3, CallOf DEF ImportsLead, Called, TypeOK
  <2>1. Held(m) /\ m \notin names
    BY <1>5
  <2>2. commands[m] \in Names \ names
    BY <1>1, <2>1, Origins DEF Imports
  <2>3. ensembles[commands[m]] # ns
    BY <1>1, <2>2, SpacesAssumption DEF Inside
  <2> QED BY <1>2, <2>1, <2>2, <2>3, Origins
<1> QED BY <1>3, <1>6, <1>7, <1>8, <1>9 DEF IInv, TablesAgree

(* What `namespace import` binds, and to what.                                *)
LEMMA ImportBinds ==
  ASSUME Departures = {}, IInv, NEW here \in Spaces, NEW from \in Spaces, NEW p \in Patterns,
         NEW force \in BOOLEAN, Import(here, from, p, force)
  PROVE  LET names == {Name(here, t) : t \in Imported(here, from, p, force)}
         IN  /\ names \in SUBSET Names
             /\ \A n \in names :
                   /\ Ns(n) = here
                   /\ OriginOf(from, n[2]) \in Names /\ Held(OriginOf(from, n[2]))
                   /\ commands[OriginOf(from, n[2])] = OriginOf(from, n[2])
                   /\ OriginOf(from, n[2]) \in names =>
                        OriginOf(from, OriginOf(from, n[2])[2]) = OriginOf(from, n[2])
                   /\ OriginOf(from, n[2]) # n =>
                        Imports(n) = {} /\ procs[n] = None /\ ensembles[n] = None
             /\ commands' = [n \in Names |-> IF n \in names THEN OriginOf(from, n[2]) ELSE commands[n]]
             /\ gone' = gone \ names
<1> DEFINE names == {Name(here, t) : t \in Imported(here, from, p, force)}
<1>1. /\ names \in SUBSET Names /\ from # here
      /\ \A n \in names : OriginOf(from, n[2]) # n =>
             Imports(n) = {} /\ procs[n] = None /\ ensembles[n] = None
      /\ commands' = [n \in Names |-> IF n \in names THEN OriginOf(from, n[2]) ELSE commands[n]]
      /\ gone' = gone \ names
  BY DEF Import, Allows
<1>2. ASSUME NEW n \in names PROVE Ns(n) = here /\ Held(Name(from, n[2]))
  <2>1. PICK t \in Imported(here, from, p, force) : n = Name(here, t)
    OBVIOUS
  <2>2. t \in Exported(from, p)
    BY DEF Imported
  <2>3. n[2] = t /\ Ns(n) = here
    BY <2>1 DEF Name, Ns
  <2> QED BY <2>2, <2>3 DEF Exported
<1> HIDE DEF names
<1>3. ASSUME NEW n \in names
      PROVE  /\ Ns(n) = here
             /\ OriginOf(from, n[2]) \in Names /\ Held(OriginOf(from, n[2]))
             /\ commands[OriginOf(from, n[2])] = OriginOf(from, n[2])
             /\ OriginOf(from, n[2]) \in names =>
                  OriginOf(from, OriginOf(from, n[2])[2]) = OriginOf(from, n[2])
  <2> DEFINE source == Name(from, n[2])
             origin == OriginOf(from, n[2])
  <2>1. source \in Names /\ Held(source) /\ origin = commands[source] /\ Ns(source) = from
    BY <1>2 DEF Held, OriginOf, Name, Ns
  <2>2. origin \in Names /\ Held(origin) /\ commands[origin] = origin
    BY <2>1, Origins
  <2>3. ASSUME origin \in names PROVE OriginOf(from, origin[2]) = origin
    <3>1. source # origin
      BY <1>1, <1>2, <2>1, <2>3
    <3>2. source \in Imports(origin)
      BY <2>1, <3>1 DEF Imports
    <3> QED BY <1>1, <2>3, <3>2
  <2> QED BY <1>2, <2>2, <2>3
<1> QED BY <1>1, <1>3 DEF names

LEMMA ImportKeeps ==
  ASSUME Departures = {}, IInv, Registry', NEW here \in Spaces, NEW from \in Spaces, NEW p \in Patterns,
         NEW force \in BOOLEAN, Import(here, from, p, force)
  PROVE  IInv'
<1> DEFINE names == {Name(here, t) : t \in Imported(here, from, p, force)}
           origin(n) == OriginOf(from, n[2])
<1>1. /\ names \in SUBSET Names
      /\ \A n \in names :
            /\ Ns(n) = here
            /\ origin(n) \in Names /\ Held(origin(n)) /\ commands[origin(n)] = origin(n)
            /\ origin(n) \in names => origin(origin(n)) = origin(n)
            /\ origin(n) # n => Imports(n) = {} /\ procs[n] = None /\ ensembles[n] = None
      /\ commands' = [n \in Names |-> IF n \in names THEN origin(n) ELSE commands[n]]
      /\ gone' = gone \ names
  BY ImportBinds
<1>2. ensure({here}) /\ UNCHANGED <<exports, ensembles, procs, made>>
  BY DEF Import
<1> HIDE DEF names, origin
<1>3. TypeOK' /\ OnesAroundExist'
  BY DEF Registry
<1>4. /\ \A s \in Spaces : Exists(s) => Exists(s)'
      /\ Exists(here)'
  BY <1>2, Ensured, Parts
<1>5. \A n \in Names : Held(n)' <=> Held(n) \/ n \in names
  BY <1>1, NoneAssumption DEF Held
<1>6. HeldWhereItIs'
  BY DEF Registry
<1>7. NoneOutlivesItsName' /\ ProcsAreOwn'
  BY <1>1, <1>2, <1>5, Parts DEF NoneOutlivesItsName, ProcsAreOwn
<1>8. EnsemblesStand' /\ ExportsStand'
  BY <1>1, <1>2, <1>4, Parts DEF EnsemblesStand, ExportsStand, TypeOK
<1>9. ImportsLead'
  <2>0. \A m \in Names : Held(m)' => commands'[m] \in Names
    BY <1>3 DEF Held, TypeOK
  <2> SUFFICES ASSUME NEW m \in Names, Held(m)'
               PROVE  /\ commands'[commands'[m]] = commands'[m]
                      /\ procs'[commands'[m]] # None \/ ensembles'[commands'[m]] # None
    BY <2>0, <1>3, CallOf DEF ImportsLead, Called, TypeOK
  <2>1. CASE m \in names
    <3>1. commands'[m] = origin(m) /\ commands'[origin(m)] = origin(m)
      BY <1>1, <2>1
    <3> QED BY <1>1, <1>2, <2>1, <3>1, Origins
  <2>2. CASE m \notin names
    <3>1. Held(m) /\ commands'[m] = commands[m] /\ commands[m] \in Names
      BY <1>1, <1>5, <2>2, Origins
    <3>2. commands[m] \in names => origin(commands[m]) = commands[m]
      BY <1>1, <2>2, <3>1 DEF Imports
    <3> QED BY <1>1, <1>2, <3>1, <3>2, Origins
  <2> QED BY <2>1, <2>2
<1> QED BY <1>3, <1>6, <1>7, <1>8, <1>9 DEF IInv, TablesAgree

-----------------------------------------------------------------------------
LEMMA NextIInv ==
  ASSUME Departures = {}
  PROVE  IInv /\ [Next]_vars => IInv'
<1> SUFFICES ASSUME IInv, [Next]_vars, Registry' PROVE IInv'
  BY Parts, NextRegistry
<1>1. ASSUME NEW here \in Spaces, NEW t \in Tails, RenameAway(here, Find(here, t)) PROVE IInv'
  BY <1>1, RenameAwayKeeps
<1>2. ASSUME NEW here \in Spaces, NEW t \in Tails, NEW new \in Names, Rename(here, Find(here, t), new)
      PROVE  IInv'
  BY <1>2, RenameKeeps
<1>3. ASSUME NEW here \in Spaces, NEW n \in Names, Proc(here, n) \/ EnsembleCreate(here, n) PROVE IInv'
  BY <1>3, ProcKeeps, EnsembleCreateKeeps
<1>4. ASSUME NEW here \in Spaces,
             \/ Enter(here) \/ ExportClear(here)
             \/ \E p \in Exportable[here] : Export(here, p)
      PROVE  IInv'
  BY <1>4, EnterKeeps, ExportKeeps
<1>5. ASSUME NEW here \in Spaces, NEW ns \in Spaces, Delete(here, ns) PROVE IInv'
  BY <1>5, DeleteKeeps
<1>6. ASSUME NEW here \in Spaces, NEW from \in Spaces, NEW p \in Patterns,
             Forget(here, from, p) \/ \E force \in BOOLEAN : Import(here, from, p, force)
      PROVE  IInv'
  BY <1>6, ForgetKeeps, ImportKeeps
<1>7. CASE UNCHANGED vars
  <2>1. UNCHANGED <<namespaces, commands, gone, exports, ensembles, procs, made>>
    BY <1>7 DEF vars, registry
  <2>2. \A n \in Names : Held(n)' <=> Held(n)
    BY <2>1 DEF Held
  <2> QED BY <2>1, <2>2 DEF IInv, TablesAgree, TypeOK, OnesAroundExist, HeldWhereItIs, NoneOutlivesItsName,
                            EnsemblesStand, ExportsStand, ImportsLead, ProcsAreOwn, Exists, Called
<1> QED BY <1>1, <1>2, <1>3, <1>4, <1>5, <1>6, <1>7 DEF Next

(* Whatever is defined, imported, renamed, forgotten and deleted, the         *)
(* registry, the patterns, the ensembles and the table calls go through speak *)
(* of the same names, and every import leads to a command that can be called. *)
THEOREM NamesAreCommands ==
  ASSUME Departures = {}
  PROVE  Spec => []TablesAgree
<1>1. Init => IInv
  BY InitIInv
<1>2. IInv /\ [Next]_vars => IInv'
  BY NextIInv
<1>3. IInv => TablesAgree
  BY DEF IInv
<1> QED BY <1>1, <1>2, <1>3, PTL DEF Spec

-----------------------------------------------------------------------------
(* Steps of the one table.                                                    *)

LEMMA SameMeaning ==
  ASSUME NEW n \in Names, commands'[n] = commands[n], procs'[n] = procs[n], ensembles'[n] = ensembles[n]
  PROVE  Meaning(n)' = Meaning(n)
BY DEF Meaning, Held, Called

LEMMA FreeMeaning ==
  ASSUME NEW n \in Names
  PROVE  /\ ~Held(n) <=> Meaning(n) = Promised!Free
         /\ ~Held(n)' <=> Meaning(n)' = Promised!Free
BY DEF Meaning, Promised!Free

LEMMA LeadsOn ==
  ASSUME IInv'
  PROVE  Promised!Leads(Meanings')
<1> SUFFICES ASSUME NEW n \in Names, Meaning(n)'.what = "import"
             PROVE  commands'[n] \in Names /\ Meaning(commands[n])'.what = "own" /\ Meaning(n)'.of = commands'[n]
  BY DEF Meanings, Meaning, Promised!Leads
<1>1. Held(n)' /\ Meaning(n)'.of = commands'[n]
  BY DEF Meaning
<1>2. commands'[n] \in Names /\ commands'[commands'[n]] = commands'[n]
  BY <1>1 DEF IInv, TablesAgree, TypeOK, ImportsLead, Held
<1> QED BY <1>1, <1>2, NoneAssumption DEF Meaning, Held

LEMMA DefineMakes ==
  ASSUME Departures = {}, IInv, IInv', NEW here \in Spaces, NEW n \in Names,
         Proc(here, n) \/ EnsembleCreate(here, n)
  PROVE  Promised!Make(Meanings, Meanings')
<1>1. /\ commands'[n] = n
      /\ \A m \in Names \ {n} : commands'[m] = commands[m] /\ procs'[m] = procs[m] /\ ensembles'[m] = ensembles[m]
  BY Parts DEF Proc, EnsembleCreate, define, TypeOK
<1>2. Called(n)' \in Commands /\ Meaning(n)' = Promised!Own(Called(n)')
  BY <1>1, NoneAssumption DEF IInv, TablesAgree, ImportsLead, Meaning, Held, Promised!Own
<1>3. \A m \in Names \ {n} : Meaning(m)' = Meaning(m)
  BY <1>1, SameMeaning
<1>4. Meanings' = [Meanings EXCEPT ![n] = Promised!Own(Called(n)')]
  BY <1>2, <1>3 DEF Meanings
<1> QED BY <1>2, <1>4 DEF Promised!Make

LEMMA RenameMoves ==
  ASSUME Departures = {}, IInv, NEW here \in Spaces, NEW old, NEW new \in Names,
         Rename(here, old, new)
  PROVE  Promised!Move(Meanings, Meanings')
<1>1. /\ old \in Names /\ Held(old) /\ ~Held(new) /\ old # new
      /\ ensembles[old] = None /\ ensembles' = ensembles
  BY DEF Rename, Allows, Held
<1>2. procs[new] = None /\ ensembles[new] = None
  BY <1>1, FreeNames DEF Held
<1>3. /\ commands'[old] = None /\ commands'[new] = Moved(old, new)
      /\ procs'[old] = None /\ procs'[new] = procs[old]
      /\ \A m \in Names \ {old, new} : commands'[m] = commands[m] /\ procs'[m] = procs[m]
  BY <1>1, <1>2, Parts DEF Rename, TypeOK
<1>4. Meaning(old)' = Promised!Free /\ Meaning(old) # Promised!Free /\ Meaning(new) = Promised!Free
  BY <1>1, <1>3, FreeMeaning DEF Held
<1>5. Meaning(new)' = Meaning(old)
  <2>1. CASE commands[old] = old
    <3>1. procs[old] # None
      BY <1>1, <2>1, Origins
    <3>2. commands'[new] = new /\ Called(new)' = Called(old)
      BY <1>3, <2>1, <3>1 DEF Moved, Called
    <3> QED BY <1>1, <2>1, <3>2, NoneAssumption DEF Meaning, Held
  <2>2. CASE commands[old] # old
    <3>1. commands'[new] = commands[old] /\ commands[old] # None /\ commands[old] # new
      BY <1>1, <1>3, <2>2, Origins, NoneAssumption DEF Moved, Held
    <3> QED BY <1>1, <2>2, <3>1 DEF Meaning, Held
  <2> QED BY <2>1, <2>2
<1>6. \A m \in Names \ {old, new} : Meaning(m)' = Meaning(m)
  BY <1>1, <1>3, SameMeaning
<1>7. Meanings' = [Meanings EXCEPT ![old] = Promised!Free, ![new] = Meanings[old]]
  BY <1>1, <1>4, <1>5, <1>6 DEF Meanings
<1>8. Meanings[old] # Promised!Free /\ Meanings[new] = Promised!Free
  BY <1>1, <1>4 DEF Meanings
<1> QED BY <1>1, <1>7, <1>8 DEF Promised!Move

LEMMA AllDrop ==
  ASSUME NEW names, \A n \in Names : n \in names => commands'[n] = None,
         \A n \in Names \ names :
            commands'[n] = commands[n] /\ procs'[n] = procs[n] /\ ensembles'[n] = ensembles[n]
  PROVE  Promised!Drop(Meanings, Meanings')
<1> SUFFICES ASSUME NEW n \in Names PROVE Meaning(n)' \in {Meaning(n), Promised!Free}
  BY DEF Meanings, Promised!Drop
<1>1. CASE n \in names
  BY <1>1, FreeMeaning DEF Held
<1>2. CASE n \notin names
  BY <1>2, SameMeaning
<1> QED BY <1>1, <1>2

LEMMA RemovalDrops ==
  ASSUME Departures = {}, IInv, NEW here \in Spaces,
         \/ \E old : RenameAway(here, old)
         \/ \E ns \in Spaces : Delete(here, ns)
         \/ \E from \in Spaces, p \in Patterns : Forget(here, from, p)
  PROVE  Promised!Drop(Meanings, Meanings')
<1>1. ASSUME NEW old, RenameAway(here, old) PROVE Promised!Drop(Meanings, Meanings')
  <2> DEFINE names == {old}
  <2>1. /\ \A n \in names : n \in Names /\ commands'[n] = None
        /\ \A n \in Names \ names : commands'[n] = commands[n] /\ procs'[n] = procs[n] /\ ensembles'[n] = ensembles[n]
    BY <1>1, Parts DEF RenameAway, Held, TypeOK
  <2> HIDE DEF names
  <2> QED BY <2>1, AllDrop
<1>2. ASSUME NEW ns \in Spaces, Delete(here, ns) PROVE Promised!Drop(Meanings, Meanings')
  <2> DEFINE names == Doomed(ns)
  <2>1. /\ \A n \in names : n \in Names /\ commands'[n] = None
        /\ \A n \in Names \ names : commands'[n] = commands[n] /\ procs'[n] = procs[n]
        /\ \A n \in Names \ names : ensembles'[n] = IF ensembles[n] = ns THEN None ELSE ensembles[n]
        /\ \A n \in Names : ensembles[n] \in Inside(ns) => n \in names
    BY <1>2 DEF Delete, Allows, Doomed
  <2>2. ns \in Inside(ns)
    BY SpacesAssumption DEF Inside
  <2> HIDE DEF names
  <2>3. \A n \in Names \ names : ensembles'[n] = ensembles[n]
    BY <2>1, <2>2
  <2> QED BY <2>1, <2>3, AllDrop
<1>3. ASSUME NEW from \in Spaces, NEW p \in Patterns, Forget(here, from, p)
      PROVE  Promised!Drop(Meanings, Meanings')
  <2> DEFINE names == Forgotten(here, from, p)
  <2>1. /\ \A n \in names : n \in Names /\ commands'[n] = None
        /\ \A n \in Names \ names : commands'[n] = commands[n] /\ procs'[n] = procs[n] /\ ensembles'[n] = ensembles[n]
    BY <1>3 DEF Forget, Forgotten
  <2> HIDE DEF names
  <2> QED BY <2>1, AllDrop
<1> QED BY <1>1, <1>2, <1>3

LEMMA ImportLinks ==
  ASSUME Departures = {}, IInv, NEW here \in Spaces, NEW from \in Spaces, NEW p \in Patterns,
         NEW force \in BOOLEAN, Import(here, from, p, force)
  PROVE  Promised!Link(Meanings, Meanings')
<1> SUFFICES ASSUME NEW n \in Names PROVE Meaning(n)' = Meaning(n) \/ Meaning(n)'.what = "import"
  BY DEF Meanings, Promised!Link
<1> DEFINE names == {Name(here, t) : t \in Imported(here, from, p, force)}
           origin(m) == OriginOf(from, m[2])
<1>1. /\ \A m \in names : m \in Names /\ origin(m) \in Names /\ commands[origin(m)] = origin(m)
      /\ commands' = [m \in Names |-> IF m \in names THEN origin(m) ELSE commands[m]]
  BY ImportBinds
<1>2. UNCHANGED <<procs, ensembles>>
  BY DEF Import
<1> HIDE DEF names, origin
<1>3. CASE n \in names /\ origin(n) # n
  <2>1. commands'[n] = origin(n) /\ origin(n) # None
    BY <1>1, <1>3, NoneAssumption
  <2> QED BY <1>3, <2>1 DEF Meaning, Held
<1>4. CASE n \notin names \/ origin(n) = n
  BY <1>1, <1>2, <1>4, SameMeaning
<1> QED BY <1>3, <1>4

LEMMA NextCommands ==
  ASSUME Departures = {}
  PROVE  IInv /\ IInv' /\ [Next]_vars => [Promised!Next]_Meanings
<1> SUFFICES ASSUME IInv, IInv', Next \/ UNCHANGED vars
             PROVE  \/ Meanings' = Meanings
                    \/ Promised!Drop(Meanings, Meanings') \/ Promised!Link(Meanings, Meanings')
                    \/ Promised!Move(Meanings, Meanings') \/ Promised!Make(Meanings, Meanings')
  BY LeadsOn DEF Promised!Next
<1>1. CASE \E here \in Spaces, t \in Tails, new \in Names : Rename(here, Find(here, t), new)
  BY <1>1, RenameMoves
<1>2. CASE \E here \in Spaces, n \in Names : Proc(here, n) \/ EnsembleCreate(here, n)
  BY <1>2, DefineMakes
<1>3. CASE \E here \in Spaces :
             \/ \E t \in Tails : RenameAway(here, Find(here, t))
             \/ \E ns \in Spaces : Delete(here, ns)
             \/ \E from \in Spaces, p \in Patterns : Forget(here, from, p)
  BY <1>3, RemovalDrops
<1>4. CASE \E here, from \in Spaces, p \in Patterns, force \in BOOLEAN : Import(here, from, p, force)
  BY <1>4, ImportLinks
<1>5. CASE UNCHANGED <<commands, procs, ensembles>>
  BY <1>5, SameMeaning DEF Meanings
<1>6. \/ \E here \in Spaces : Enter(here) \/ ExportClear(here) \/ \E p \in Exportable[here] : Export(here, p)
      \/ UNCHANGED vars
      => UNCHANGED <<commands, procs, ensembles>>
  BY DEF Enter, Export, ExportClear, vars, registry
<1> QED BY <1>1, <1>2, <1>3, <1>4, <1>5, <1>6 DEF Next

(* Five tables are one: whatever is done to commands, a name means what it    *)
(* was last bound to, a command of its own or one it imports.                 *)
THEOREM TablesAreOne ==
  ASSUME Departures = {}
  PROVE  Spec => ImplementsCommands
<1>1. Init => Promised!Init
  <2> SUFFICES ASSUME Init PROVE \A n \in Names : Meaning(n) = Promised!Free
    BY DEF Promised!Init, Meanings
  <2> QED BY FreeMeaning DEF Init, Held
<1>2. Spec => []IInv
  BY InitIInv, NextIInv, PTL DEF Spec
<1>3. IInv /\ IInv' /\ [Next]_vars => [Promised!Next]_Meanings
  BY NextCommands
<1> QED BY <1>1, <1>2, <1>3, PTL DEF Spec, ImplementsCommands, Promised!Spec
=============================================================================
