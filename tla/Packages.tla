-------------------------------- MODULE Packages --------------------------------
(***************************************************************************)
(* The package registry of src/cmd_package.rs.  `package require` may run  *)
(* two kinds of scripts in the middle, the one that `ifneeded` gave for    *)
(* the version it chose and `package unknown`'s, and either may use every  *)
(* subcommand again; so the state holds the requests under way, the        *)
(* outermost first, each with a script running.                            *)
(*                                                                         *)
(* What a script is told when a request fails is left to the script: it    *)
(* goes on (catch) or fails in turn.                                       *)
(***************************************************************************)
EXTENDS Versions, SequencesExt, FiniteSets

CONSTANTS
  Names,        (* of packages                                                *)
  Numbers,      (* bound: the versions that scripts write                     *)
  Requirements, (* bound: the sets of requirements they write                 *)
  MaxAvail,     (* bound: versions that can be loaded, for each package       *)
  Limit,        (* the recursion limit                                        *)
  Departures,   (* {"forget"}: `package forget` of a package being loaded     *)
  None

ASSUME PackagesAssumption ==
  /\ Limit \in Nat /\ MaxAvail \in Nat /\ Departures \subseteq {"forget"}
  /\ Numbers \subseteq Seq(Int) /\ None \notin Numbers
  /\ Requirements \subseteq SUBSET Requirement

VARIABLES
  packages,     (* Registry.packages                                          *)
  unknown,      (* there is a script for `package unknown`                    *)
  prefer,       (* "stable" or "latest"                                       *)
  work          (* the requests whose scripts run, outermost first            *)

vars == <<packages, unknown, prefer, work>>

Absent == [version |-> None, avail |-> {}, providing |-> None]

(* A script that is to load version v of p, and one for `package unknown`.    *)
Load(p, reqs, v) == [what |-> "load", of |-> p, reqs |-> reqs, version |-> v]
Ask(p, reqs)     == [what |-> "unknown", of |-> p, reqs |-> reqs, version |-> None]
now == Last(work)

Provided(p) == packages[p].version # None

Init ==
  /\ packages = [p \in Names |-> Absent]
  /\ unknown = FALSE /\ prefer = "stable" /\ work = <<>>

-----------------------------------------------------------------------------
(* Subcommands that run no script.                                            *)

(* `provide`: a version that is there stays, and another one is refused (or   *)
(* takes its place).                                                          *)
Newer(p, v) == [packages EXCEPT ![p].version = v]
provide(p, v) == IF Provided(p) THEN packages ELSE [packages EXCEPT ![p].version = v]

Provide(p, v) ==
  /\ packages' = provide(p, v)
  /\ UNCHANGED <<unknown, prefer, work>>

Forget(p) ==
  /\ packages[p].providing = None \/ "forget" \in Departures
  /\ packages' = [packages EXCEPT ![p] = Absent]
  /\ UNCHANGED <<unknown, prefer, work>>

(* `ifneeded` with a script: versions that compare equal are one entry, so    *)
(* that the order of the entries does not show.                               *)
Same(p, v)  == \E w \in packages[p].avail : compare_versions(w, v) = 0
IfNeeded(p, v) ==
  /\ ~Same(p, v) /\ Cardinality(packages[p].avail) < MaxAvail
  /\ packages' = [packages EXCEPT ![p].avail = @ \cup {v}]
  /\ UNCHANGED <<unknown, prefer, work>>

(* `prefer` only ever goes to `latest`.                                       *)
Prefer ==
  /\ prefer' = "latest"
  /\ UNCHANGED <<packages, unknown, work>>

Unknown(there) ==
  /\ unknown' = there
  /\ UNCHANGED <<packages, prefer, work>>

-----------------------------------------------------------------------------
(* `require`.                                                                 *)

(* best_available: the best version, and the best stable one.                 *)
Best(some)         == {v \in some : \A w \in some : compare_versions(w, v) <= 0}
Meeting(p, reqs)   == {v \in packages[p].avail : Satisfies(v, reqs)}

(* (The preference is not looked at; the requirements are not.)               *)
AnyStability(p, reqs) == Best(Meeting(p, reqs))
best_available(p, reqs) ==
  LET stable == Best({v \in Meeting(p, reqs) : Stable(v)})
  IN  IF prefer = "stable" /\ stable # {} THEN stable ELSE Best(Meeting(p, reqs))

(* Whether a script can be evaluated: each of those under way is one level.   *)
HasLevel == Len(work) < Limit

(* select_package refuses a package that is being loaded.                     *)
Circular(p) == packages[p].providing # None

Selects(p, reqs) == ~Circular(p) /\ best_available(p, reqs) # {}

(* The marker is set before the script runs; one that cannot even begin for   *)
(* want of a level leaves all as it was.                                      *)
Select(under, p, reqs) ==
  /\ ~Circular(p)
  /\ \E v \in best_available(p, reqs) :
       /\ work' = Append(under, Load(p, reqs, v))
       /\ packages' = [packages EXCEPT ![p].providing = v]

(* pkg_require: what has been provided is the answer; else what can be loaded;*)
(* else the script of `package unknown` is asked.                             *)
Require(p, reqs) ==
  /\ ~Provided(p) /\ HasLevel
  /\ \/ Select(work, p, reqs)
     \/ /\ ~Circular(p) /\ best_available(p, reqs) = {} /\ unknown
        /\ work' = Append(work, Ask(p, reqs))
        /\ UNCHANGED packages
  /\ UNCHANGED <<unknown, prefer>>

(* The script of `package unknown` ends: a second look at what can be loaded. *)
Asked ==
  /\ work # <<>> /\ now.what = "unknown"
  /\ \/ ~Provided(now.of) /\ Select(Front(work), now.of, now.reqs)
     \/ /\ Provided(now.of) \/ ~Selects(now.of, now.reqs)
        /\ work' = Front(work)
        /\ UNCHANGED packages
  /\ UNCHANGED <<unknown, prefer>>

(* The script of a version ends: it must have provided that version, or what  *)
(* it did provide is taken away again.                                        *)
Promised(p, v) == Provided(p) /\ compare_versions(packages[p].version, v) = 0

(* (The marker stays when the script fails.)                                  *)
KeepsMark(p, good) ==
  [packages EXCEPT ![p].providing = IF good THEN None ELSE @,
                   ![p].version   = IF good THEN @ ELSE None]
SelectFinal(p, good) ==
  [packages EXCEPT ![p].providing = None,
                   ![p].version   = IF good THEN @ ELSE None]

Loaded ==
  /\ work # <<>> /\ now.what = "load"
  /\ work' = Front(work)
  /\ packages' = SelectFinal(now.of, Promised(now.of, now.version))
  /\ UNCHANGED <<unknown, prefer>>

ScriptFails ==
  /\ work # <<>>
  /\ work' = Front(work)
  /\ packages' = IF now.what = "load" THEN SelectFinal(now.of, FALSE) ELSE packages
  /\ UNCHANGED <<unknown, prefer>>

Next ==
  \/ \E p \in Names, v \in Numbers : Provide(p, v) \/ IfNeeded(p, v)
  \/ \E p \in Names : Forget(p)
  \/ Prefer \/ \E there \in BOOLEAN : Unknown(there)
  \/ \E p \in Names, reqs \in Requirements : Require(p, reqs)
  \/ Asked \/ Loaded \/ ScriptFails

Spec == Init /\ [][Next]_vars

-----------------------------------------------------------------------------
(* The state's types: a package has no version while none was provided.       *)
Package == [version : Numbers \cup {None}, avail : SUBSET Numbers, providing : Numbers \cup {None}]
Request ==
  [what : {"load"}, of : Names, reqs : Requirements, version : Numbers]
    \cup [what : {"unknown"}, of : Names, reqs : Requirements, version : {None}]

TypeOK ==
  /\ packages \in [Names -> Package]
  /\ unknown \in BOOLEAN /\ prefer \in {"stable", "latest"}
  /\ work \in Seq(Request) /\ Len(work) <= Limit

(* A package is marked exactly while a script that loads it runs, and is not  *)
(* loaded a second time inside itself, however requests and the scripts of    *)
(* `package unknown` nest: a marker left behind would refuse the package for  *)
(* ever, a lost one would let it load for ever (select_package).              *)
MarkedWhileLoading ==
  /\ TypeOK
  /\ \A p \in Names :
    LET loads == {i \in DOMAIN work : work[i].what = "load" /\ work[i].of = p}
    IN  /\ Cardinality(loads) <= 1
        /\ packages[p].providing # None <=> loads # {}
        /\ \A i \in loads : packages[p].providing = work[i].version

(* A version that has been provided stays what it is, but for a package whose *)
(* loading is not over and for `forget`: what one script was told that it has *)
(* no other script takes away or replaces (provide, select_package).          *)
Stands ==
  \A p \in Names :
    Provided(p) /\ packages[p].providing = None
      => packages'[p].version = packages[p].version \/ packages'[p] = Absent
VersionsStand == [][Stands]_vars

(* Begun: a request at the top that was not there before.                     *)
Begun == work # work' /\ Len(work') >= Len(work) /\ now'.what = "load"

(* Reference order: lists of one length, the missing pieces 0.                *)
Wide(v) == [i \in 1..8 |-> Piece(v, i)]
Below(v, w) == \E i \in 1..8 : /\ Wide(v)[i] < Wide(w)[i]
                               /\ \A j \in 1..(i - 1) : Wide(v)[j] = Wide(w)[j]

(* Whenever a script is begun, it is for a version that no other that could   *)
(* be loaded and meets the requirements is above, but those less stable when  *)
(* stable ones are preferred (best_available).  And what a load that ends well*)
(* has provided meets the requirements it was chosen for, however its script  *)
(* spelled the version: the check that follows in pkg_require cannot fail     *)
(* after it.                                                                  *)
MeetsWhatWasAsked ==
  \A i \in DOMAIN work :
    work[i].what = "load" /\ Promised(work[i].of, work[i].version)
      => Satisfies(packages[work[i].of].version, work[i].reqs)
IsTheBest ==
  Begun =>
    LET p      == now'.of
        meets  == {v \in packages[p].avail : Satisfies(v, now'.reqs)}
        stable == {v \in meets : Stable(v)}
        among  == IF prefer = "stable" /\ stable # {} THEN stable ELSE meets
    IN  now'.version \in among /\ \A v \in among : ~Below(now'.version, v)
LoadsTheBest == []MeetsWhatWasAsked /\ [][IsTheBest]_vars
=============================================================================
